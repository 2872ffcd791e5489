-------------------------------- MODULE Pool --------------------------------
(* The worker pool (kernel/pool.hpp): shared workers that start lazily,     *)
(* isolated jobs on threads of their own, and a shutdown that asks, waits   *)
(* and abandons. A critical section under core::m is one action; creating a *)
(* thread, requesting a stop and notifying a condition variable happen      *)
(* outside it and are actions of their own.                                 *)
EXTENDS Integers, Sequences, FiniteSets

CONSTANTS
  Jobs,       \* jobs, each posted at most once
  Workers,    \* names for shared workers; core::max is their number
  Stoppers,   \* calls of shutdown()
  Graced,     \* those that have a deadline
  Dtor,       \* the call ~pool makes
  Wedged,     \* jobs that may never return
  NoJob

ASSUME PoolAssumption ==
  /\ IsFiniteSet(Jobs) /\ IsFiniteSet(Workers) /\ Workers # {}
  /\ Jobs \cap Workers = {} /\ NoJob \notin Jobs
  /\ Graced \subseteq Stoppers /\ Dtor \in Graced /\ Wedged \subseteq Jobs

VARIABLES
  \* core
  queue,             \* jobs for the shared workers
  isolated,          \* isolated jobs whose stop source is kept
  idle, exited, to_exit, isolated_running, stopping,
  \* the pool object
  workers,           \* workers_
  \* threads
  wpc, wjob,         \* where each worker is, and the job it runs
  ipc,               \* where the thread of each isolated job is
  ppc,               \* where the call that posts each job is
  spc, mine, ret,    \* each shutdown: where it is, its workers, its result
  asked,             \* workers and isolated jobs whose stop was requested
  \* history
  jst,               \* what became of each job
  refused            \* the kinds of thread the system refused so far

coreVars == <<queue, isolated, idle, exited, to_exit, isolated_running, stopping>>
workVars == <<wpc, wjob>>
stopVars == <<spc, mine, ret>>
vars == <<coreVars, workers, workVars, ipc, ppc, stopVars, asked, jst, refused>>

Statuses == {"new", "accepted", "running", "done", "dropped"}

Init ==
  /\ queue = <<>> /\ isolated = {} /\ idle = 0 /\ exited = 0 /\ to_exit = 0
  /\ isolated_running = 0 /\ stopping = FALSE /\ workers = {}
  /\ wpc = [w \in Workers |-> "none"] /\ wjob = [w \in Workers |-> NoJob]
  /\ ipc = [j \in Jobs |-> "none"] /\ ppc = [j \in Jobs |-> "idle"]
  /\ spc = [s \in Stoppers |-> "idle"] /\ mine = [s \in Stoppers |-> {}]
  /\ ret = [s \in Stoppers |-> 0]
  /\ asked = {} /\ jst = [j \in Jobs |-> "new"] /\ refused = {}

(***************************************************************************)
(* Posting                                                                 *)
(***************************************************************************)
PostGoto(j, l) == ppc' = [ppc EXCEPT ![j] = l]
Mark(j, st)    == jst' = [jst EXCEPT ![j] = st]

\* The pool object still exists.
Alive == spc[Dtor] = "idle"

\* A call of post_job() is made for j: by a client, or by post_isolated_job()
\* when it got no thread.
PostsShared(j) == (ppc[j] = "idle" /\ Alive) \/ ppc[j] = "fallback"

\* Refused under the lock once the pool stops.
post_job_Stopped(j) ==
  /\ PostsShared(j) /\ stopping
  /\ PostGoto(j, "done") /\ Mark(j, "dropped")
  /\ UNCHANGED <<coreVars, workers, workVars, ipc, stopVars, asked, refused>>

\* A worker is spawned when more jobs wait than workers are idle.
SpawnsOne(n) == n > idle /\ workers # Workers

\* The new thread starts, unless the system refuses it.
spawn_worker ==
  \/ \E w \in Workers \ workers :
       /\ wpc' = [wpc EXCEPT ![w] = "start"]
       /\ workers' = workers \cup {w}
       /\ UNCHANGED refused
  \/ refused' = refused \cup {"worker"} /\ UNCHANGED <<wpc, workers>>

\* Variant: stopping is not looked at.
post_job_Unchecked(j) ==
  /\ PostsShared(j)
  /\ queue' = Append(queue, j)
  /\ IF SpawnsOne(Len(queue) + 1) THEN spawn_worker ELSE UNCHANGED <<wpc, workers, refused>>
  /\ PostGoto(j, "notify") /\ Mark(j, "accepted")
  /\ UNCHANGED <<isolated, idle, exited, to_exit, isolated_running, stopping, wjob, ipc,
                 stopVars, asked>>

post_job(j) ==
  /\ PostsShared(j) /\ ~stopping
  /\ queue' = Append(queue, j)
  /\ IF SpawnsOne(Len(queue) + 1) THEN spawn_worker ELSE UNCHANGED <<wpc, workers, refused>>
  /\ PostGoto(j, "notify") /\ Mark(j, "accepted")
  /\ UNCHANGED <<isolated, idle, exited, to_exit, isolated_running, stopping, wjob, ipc,
                 stopVars, asked>>

\* Variant: nobody is told.
NotifyOne_Silent(j) ==
  /\ ppc[j] = "notify" /\ PostGoto(j, "done")
  /\ UNCHANGED <<coreVars, workers, workVars, ipc, stopVars, asked, jst, refused>>

\* cv.notify_one(), after the lock was left: one sleeper wakes, if there is one.
NotifyOne(j) ==
  /\ ppc[j] = "notify" /\ PostGoto(j, "done")
  /\ LET asleep == {w \in Workers : wpc[w] = "asleep"} IN
       IF asleep = {} THEN UNCHANGED wpc
       ELSE \E w \in asleep : wpc' = [wpc EXCEPT ![w] = "woken"]
  /\ UNCHANGED <<coreVars, workers, wjob, ipc, stopVars, asked, jst, refused>>

IsolatedStopped(j) ==
  /\ ppc[j] = "idle" /\ Alive /\ stopping
  /\ PostGoto(j, "done") /\ Mark(j, "dropped")
  /\ UNCHANGED <<coreVars, workers, workVars, ipc, stopVars, asked, refused>>

\* Counted before the thread exists, so that a shutdown waits for it.
post_isolated_job(j) ==
  /\ ppc[j] = "idle" /\ Alive /\ ~stopping
  /\ isolated_running' = isolated_running + 1
  /\ PostGoto(j, "counted") /\ Mark(j, "accepted")
  /\ UNCHANGED <<queue, isolated, idle, exited, to_exit, stopping, workers, workVars, ipc,
                 stopVars, asked, refused>>

ThreadCreated(j) ==
  /\ ppc[j] = "counted" /\ PostGoto(j, "created")
  /\ ipc' = [ipc EXCEPT ![j] = "run"] /\ Mark(j, "running")
  /\ UNCHANGED <<coreVars, workers, workVars, stopVars, asked, refused>>

\* The system refused the thread: counted out, nobody notified, and then the
\* job goes to the shared workers.
ThreadRefused(j) ==
  /\ ppc[j] = "counted" /\ PostGoto(j, "fallback")
  /\ isolated_running' = isolated_running - 1
  /\ refused' = refused \cup {"isolated"}
  /\ UNCHANGED <<queue, isolated, idle, exited, to_exit, stopping, workers, workVars, ipc,
                 stopVars, asked, jst>>

\* Variant: a shutdown since the count is not noticed.
Track_Unchecked(j) ==
  /\ ppc[j] = "created" /\ PostGoto(j, "done")
  /\ isolated' = isolated \cup {j} /\ UNCHANGED asked
  /\ UNCHANGED <<queue, idle, exited, to_exit, isolated_running, stopping, workers,
                 workVars, ipc, stopVars, jst, refused>>

\* The detached thread's stop source is kept, or used at once if the pool
\* stops or there is no memory to keep it.
Track(j) ==
  /\ ppc[j] = "created" /\ PostGoto(j, "done")
  /\ \/ ~stopping /\ isolated' = isolated \cup {j} /\ UNCHANGED asked
     \/ asked' = asked \cup {j} /\ UNCHANGED isolated
  /\ UNCHANGED <<queue, idle, exited, to_exit, isolated_running, stopping, workers,
                 workVars, ipc, stopVars, jst, refused>>

(***************************************************************************)
(* Threads                                                                 *)
(***************************************************************************)
IsolatedGoto(j, from, to) == ipc[j] = from /\ ipc' = [ipc EXCEPT ![j] = to]

\* The body returned or threw (run_guarded reports it), its captures are gone.
IsolatedReturns(j) ==
  /\ IsolatedGoto(j, "run", "count") /\ Mark(j, "done")
  /\ UNCHANGED <<coreVars, workers, workVars, ppc, stopVars, asked, refused>>

IsolatedCountOut(j) ==
  /\ IsolatedGoto(j, "count", "notify")
  /\ isolated_running' = isolated_running - 1
  /\ UNCHANGED <<queue, isolated, idle, exited, to_exit, stopping, workers, workVars, ppc,
                 stopVars, asked, jst, refused>>

\* exited_cv.notify_all()
WakeStoppers ==
  spc' = [s \in Stoppers |-> IF spc[s] = "asleep" THEN "woken" ELSE spc[s]]

IsolatedNotify(j) ==
  /\ IsolatedGoto(j, "notify", "gone") /\ WakeStoppers
  /\ UNCHANGED <<coreVars, workers, workVars, ppc, mine, ret, asked, jst, refused>>

WorkerGoto(w, l) == wpc' = [wpc EXCEPT ![w] = l]

\* A worker at the top of its loop, or woken in its wait: it holds the lock
\* and evaluates the predicate. A woken one has been counted as idle.
Looks(w)     == wpc[w] \in {"start", "loop", "woken"}
IdleElse(w)  == idle - (IF wpc[w] = "woken" THEN 1 ELSE 0)
MustLeave(w) == stopping \/ w \in asked

WorkerSleeps(w) ==
  /\ Looks(w) /\ ~MustLeave(w) /\ queue = <<>>
  /\ WorkerGoto(w, "asleep") /\ idle' = IdleElse(w) + 1
  /\ UNCHANGED <<queue, isolated, exited, to_exit, isolated_running, stopping, workers, wjob,
                 ipc, ppc, stopVars, asked, jst, refused>>

\* Variant: a woken worker stays counted as idle.
WorkerTakes_StaysIdle(w) ==
  /\ Looks(w) /\ ~MustLeave(w) /\ queue # <<>>
  /\ WorkerGoto(w, "run") /\ wjob' = [wjob EXCEPT ![w] = Head(queue)]
  /\ queue' = Tail(queue) /\ Mark(Head(queue), "running")
  /\ UNCHANGED <<idle, isolated, exited, to_exit, isolated_running, stopping, workers, ipc,
                 ppc, stopVars, asked, refused>>

WorkerTakes(w) ==
  /\ Looks(w) /\ ~MustLeave(w) /\ queue # <<>>
  /\ WorkerGoto(w, "run") /\ wjob' = [wjob EXCEPT ![w] = Head(queue)]
  /\ queue' = Tail(queue) /\ Mark(Head(queue), "running")
  /\ idle' = IdleElse(w)
  /\ UNCHANGED <<isolated, exited, to_exit, isolated_running, stopping, workers, ipc, ppc,
                 stopVars, asked, refused>>

WorkerLeaves(w) ==
  /\ Looks(w) /\ MustLeave(w)
  /\ WorkerGoto(w, "leave") /\ idle' = IdleElse(w)
  /\ UNCHANGED <<queue, isolated, exited, to_exit, isolated_running, stopping, workers, wjob,
                 ipc, ppc, stopVars, asked, jst, refused>>

WorkerReturns(w) ==
  /\ wpc[w] = "run" /\ WorkerGoto(w, "loop")
  /\ wjob' = [wjob EXCEPT ![w] = NoJob] /\ Mark(wjob[w], "done")
  /\ UNCHANGED <<coreVars, workers, ipc, ppc, stopVars, asked, refused>>

WorkerExits(w) ==
  /\ wpc[w] = "leave" /\ WorkerGoto(w, "notify")
  /\ exited' = exited + 1
  /\ UNCHANGED <<queue, isolated, idle, to_exit, isolated_running, stopping, workers, wjob,
                 ipc, ppc, stopVars, asked, jst, refused>>

WorkerNotify(w) ==
  /\ wpc[w] = "notify" /\ WorkerGoto(w, "gone") /\ WakeStoppers
  /\ UNCHANGED <<coreVars, workers, wjob, ipc, ppc, mine, ret, asked, jst, refused>>

WorkerWokenForNothing(w) ==
  /\ wpc[w] = "asleep" /\ WorkerGoto(w, "woken")
  /\ UNCHANGED <<coreVars, workers, wjob, ipc, ppc, stopVars, asked, jst, refused>>

(***************************************************************************)
(* Shutdown                                                                *)
(***************************************************************************)
StopGoto(s, l) == spc' = [spc EXCEPT ![s] = l]

\* shutdown() is called on a pool that exists; ~pool runs when no call does.
\* A call from one of the pool's own jobs is an error (lock_order.hpp).
MayStop(s) ==
  /\ spc[s] = "idle" /\ Alive
  /\ s = Dtor => /\ \A j \in Jobs : ppc[j] \in {"idle", "done"}
                 /\ \A o \in Stoppers : spc[o] \in {"idle", "returned"}

\* The first call closes the pool: waiting jobs are dropped, isolated ones
\* asked to stop, and the workers become this call's to join.
StopFirst(s) ==
  /\ MayStop(s) /\ ~stopping
  /\ stopping' = TRUE
  /\ queue' = <<>>
  /\ jst' = [j \in Jobs |-> IF \E i \in DOMAIN queue : queue[i] = j THEN "dropped" ELSE jst[j]]
  /\ asked' = asked \cup isolated /\ isolated' = {}
  /\ mine' = [mine EXCEPT ![s] = workers] /\ workers' = {}
  /\ to_exit' = Cardinality(workers)
  /\ StopGoto(s, "ask")
  /\ UNCHANGED <<idle, exited, isolated_running, workVars, ipc, ppc, ret, refused>>

\* A second call waits too, except the destructor's.
StopAgain(s) ==
  /\ MayStop(s) /\ stopping
  /\ StopGoto(s, IF s = Dtor THEN "returned" ELSE "ask")
  /\ UNCHANGED <<coreVars, workers, workVars, ipc, ppc, mine, ret, asked, jst, refused>>

\* request_stop() on every worker, and cv.notify_all().
AskAll(s) ==
  /\ spc[s] = "ask" /\ StopGoto(s, "wait")
  /\ asked' = asked \cup mine[s]
  /\ wpc' = [w \in Workers |-> IF wpc[w] = "asleep" THEN "woken" ELSE wpc[w]]
  /\ UNCHANGED <<coreVars, workers, wjob, ipc, ppc, mine, ret, jst, refused>>

\* Variant: isolated jobs are asked and not waited for.
AllOut_WorkersOnly == exited >= to_exit

\* The predicate shutdown() waits for on exited_cv.
AllOut == exited >= to_exit /\ isolated_running = 0

StopWaits(s) ==
  /\ spc[s] \in {"wait", "woken"}
  /\ StopGoto(s, IF AllOut THEN "join" ELSE "asleep")
  /\ UNCHANGED <<coreVars, workers, workVars, ipc, ppc, mine, ret, asked, jst, refused>>

\* The grace is over; wait_until() evaluates the predicate once more.
StopTimesOut(s) ==
  /\ s \in Graced /\ spc[s] \in {"asleep", "woken"}
  /\ StopGoto(s, IF AllOut THEN "join" ELSE "late")
  /\ UNCHANGED <<coreVars, workers, workVars, ipc, ppc, mine, ret, asked, jst, refused>>

StopWokenForNothing(s) ==
  /\ spc[s] = "asleep" /\ StopGoto(s, "woken")
  /\ UNCHANGED <<coreVars, workers, workVars, ipc, ppc, mine, ret, asked, jst, refused>>

\* Everyone has left: the workers are joined.
StopJoins(s) ==
  /\ spc[s] = "join" /\ \A w \in mine[s] : wpc[w] = "gone"
  /\ StopGoto(s, "returned")
  /\ UNCHANGED <<coreVars, workers, workVars, ipc, ppc, mine, ret, asked, jst, refused>>

\* Variant: the stuck workers are joined too.
StopAbandons_Joins(s) ==
  /\ spc[s] = "late" /\ \A w \in mine[s] : wpc[w] = "gone"
  /\ StopGoto(s, "returned")
  /\ ret' = [ret EXCEPT ![s] = isolated_running]
  /\ UNCHANGED <<coreVars, workers, workVars, ipc, ppc, mine, asked, jst, refused>>

\* Whoever is still out is counted and left behind (detached).
StopAbandons(s) ==
  /\ spc[s] = "late" /\ StopGoto(s, "returned")
  /\ ret' = [ret EXCEPT ![s] = (IF exited < to_exit THEN to_exit - exited ELSE 0)
                               + isolated_running]
  /\ UNCHANGED <<coreVars, workers, workVars, ipc, ppc, mine, asked, jst, refused>>

(***************************************************************************)
(* The specification                                                       *)
(***************************************************************************)
PosterStep(j) ==
  \/ post_job_Stopped(j) \/ post_job(j) \/ NotifyOne(j)
  \/ IsolatedStopped(j) \/ post_isolated_job(j)
  \/ ThreadCreated(j) \/ ThreadRefused(j) \/ Track(j)

IsolatedStep(j) == IsolatedReturns(j) \/ IsolatedCountOut(j) \/ IsolatedNotify(j)

WorkerStep(w) ==
  \/ WorkerSleeps(w) \/ WorkerTakes(w) \/ WorkerLeaves(w) \/ WorkerReturns(w)
  \/ WorkerExits(w) \/ WorkerNotify(w) \/ WorkerWokenForNothing(w)

StopperStep(s) ==
  \/ StopFirst(s) \/ StopAgain(s) \/ AskAll(s) \/ StopWaits(s) \/ StopTimesOut(s)
  \/ StopWokenForNothing(s) \/ StopJoins(s) \/ StopAbandons(s)

Next ==
  \/ \E j \in Jobs : PosterStep(j) \/ IsolatedStep(j)
  \/ \E w \in Workers : WorkerStep(w)
  \/ \E s \in Stoppers : StopperStep(s)

Spec == Init /\ [][Next]_vars

\* A job that is not wedged returns once it is asked to stop; every thread
\* goes on with what it is in the middle of, and a deadline passes. Nobody has
\* to post or to stop, and no wait has to end for nothing.
Fairness ==
  /\ \A j \in Jobs :
       /\ WF_vars(NotifyOne(j) \/ ThreadCreated(j) \/ ThreadRefused(j) \/ Track(j)
                  \/ (ppc[j] = "fallback" /\ PosterStep(j)))
       /\ WF_vars(IsolatedCountOut(j) \/ IsolatedNotify(j))
       /\ WF_vars(j \in asked \ Wedged /\ IsolatedReturns(j))
  /\ \A w \in Workers :
       /\ WF_vars(WorkerSleeps(w) \/ WorkerTakes(w) \/ WorkerLeaves(w) \/ WorkerExits(w)
                  \/ WorkerNotify(w))
       /\ WF_vars(w \in asked /\ wjob[w] \notin Wedged /\ WorkerReturns(w))
  /\ \A s \in Stoppers :
       /\ WF_vars(AskAll(s) \/ StopWaits(s) \/ StopJoins(s) \/ StopAbandons(s))
       /\ WF_vars(StopTimesOut(s))

FairSpec == Spec /\ Fairness

(***************************************************************************)
(* Properties                                                              *)
(***************************************************************************)
WorkerPcs  == {"none", "start", "loop", "asleep", "woken", "run", "leave", "notify", "gone"}
ThreadPcs  == {"none", "run", "count", "notify", "gone"}
PosterPcs  == {"idle", "counted", "created", "fallback", "notify", "done"}
StopperPcs == {"idle", "ask", "wait", "asleep", "woken", "join", "late", "returned"}

\* The fields of the pool and of its threads keep their types.
TypeOK ==
  /\ queue \in Seq(Jobs) /\ isolated \subseteq Jobs /\ stopping \in BOOLEAN
  /\ idle \in Nat /\ exited \in Nat /\ to_exit \in Nat /\ isolated_running \in Nat
  /\ workers \subseteq Workers
  /\ wpc \in [Workers -> WorkerPcs] /\ wjob \in [Workers -> Jobs \cup {NoJob}]
  /\ ipc \in [Jobs -> ThreadPcs] /\ ppc \in [Jobs -> PosterPcs]
  /\ spc \in [Stoppers -> StopperPcs] /\ mine \in [Stoppers -> SUBSET Workers]
  /\ ret \in [Stoppers -> Nat]
  /\ asked \subseteq Jobs \cup Workers /\ jst \in [Jobs -> Statuses]
  /\ refused \subseteq {"worker", "isolated"}

\* A shutdown that waited and left nobody behind. The destructor's waits only
\* when it is the first.
Settled(s) ==
  /\ spc[s] = "returned" /\ ret[s] = 0
  /\ s = Dtor => \A o \in Stoppers \ {Dtor} : spc[o] = "idle"

\* "returned = nothing is running" for every caller of shutdown(), not just
\* the first (pool.hpp:371-373): once one returned 0, no job runs, none is queued, and
\* no thread is on its way for one.
Barrier ==
  (\E s \in Stoppers : Settled(s)) =>
    /\ queue = <<>>
    /\ \A j \in Jobs : jst[j] # "running" /\ ppc[j] # "counted"

\* Everyone the shutdown waits for has been told: a worker sees stopping or
\* its token, and an isolated job is asked to stop by the shutdown, or by its
\* poster if the shutdown came between the count and the list (269-274).
EveryoneAsked ==
  stopping => \A j \in Jobs : ipc[j] = "run" => j \in asked \/ ppc[j] = "created"

\* No queued job waits for a worker the pool could have had: more jobs than
\* starting and sleeping workers means the cap is reached or the system
\* refused a worker, however late the sleepers wake (pool.hpp:224-226).
Available == {w \in Workers : wpc[w] \in {"start", "asleep", "woken"}}
SpawnsEnough ==
  \/ workers = Workers \/ stopping \/ "worker" \in refused
  \/ Len(queue) <= Cardinality(Available)

\* No worker sleeps through a job: as long as one sleeps, every queued job has
\* a worker awake to take it or a notification on its way; and the pool has
\* the workers its queue needs.
Awake == {w \in Workers : Looks(w)}
Notifying == {j \in Jobs : ppc[j] = "notify"}
NoJobMissed ==
  /\ SpawnsEnough
  /\ (\E w \in Workers : wpc[w] = "asleep") =>
       Len(queue) <= Cardinality(Awake) + Cardinality(Notifying)

\* How far the shutdown has come, for those who post.
Phase == IF ~stopping THEN "open"
         ELSE IF \E s \in Stoppers : Settled(s) THEN "closed" ELSE "closing"
Promise == INSTANCE Executor WITH status <- jst, phase <- Phase

\* The pool does what an executor promises (executor.hpp:12-14): each job runs
\* at most once, none is taken once a shutdown began, none starts after one
\* returned and left nobody behind.
ImplementsExecutor == Promise!Spec

\* A shutdown with a deadline ends, whatever the jobs do (pool.hpp:18-21).
GraceReturns ==
  \A s \in Graced : spc[s] = "ask" ~> spc[s] = "returned"

\* A shutdown without a deadline ends if no job is wedged and the system
\* refuses no isolated thread.
BarrierReturns ==
  \A s \in Stoppers :
    spc[s] = "ask" ~> \/ spc[s] = "returned" \/ "isolated" \in refused
                      \/ \E j \in Wedged : jst[j] = "running"

\* A sleeping worker does not stay asleep while a job waits in the queue.
NoneSleepsOnWork ==
  \A w \in Workers :
    (wpc[w] = "asleep" /\ queue # <<>>) ~> (wpc[w] # "asleep" \/ queue = <<>>)

\* "a shutdown that can't hang" (pool.hpp:2-3): a shutdown whose jobs all
\* return when asked ends, with a deadline or without.
ShutdownEnds ==
  \A s \in Stoppers :
    spc[s] = "ask" ~> \/ spc[s] = "returned" \/ \E j \in Wedged : jst[j] = "running"

=============================================================================
