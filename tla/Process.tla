------------------------------- MODULE Process -------------------------------
(* One child process, from spawn() to the destructor: posix_process on     *)
(* Linux (pidfd) and elsewhere (death pipe), windows_process and           *)
(* sim_process (src/platform/*/process.cpp).  The parent's calls, the      *)
(* child's own steps, its descendants and the kernel's reuse of pids       *)
(* interleave.  An end of a pipe is a pair <<pipe, "r" or "w">>.           *)
EXTENDS Naturals, Sequences, FiniteSets

CONSTANTS Specs,     \* the pipes asked for: subsets of {"out", "err", "in"}
          Full       \* what the output pipe holds

VARIABLES Backend,   \* "linux", "bsd", "windows" or "sim": never changes
          want, stage, handles, child, kids, buf, pid, obj, hit

pvars == <<want, stage, handles, child, kids, buf, pid, obj, hit>>

Posix == Backend \in {"linux", "bsd"}
Ends(p) == {<<p, "r">>, <<p, "w">>}
Mine == {<<"out", "r">>, <<"err", "r">>, <<"in", "w">>}
Its == {<<"out", "w">>, <<"err", "w">>, <<"in", "r">>}
Alive == child.life \in {"suspended", "forked", "running"}
NoStatus == "none"

ProcInit ==
    /\ want = {} /\ stage = "none" /\ handles = {} /\ kids = {} /\ buf = 0
    /\ child = [life |-> "none", held |-> {}, status |-> NoStatus, leads |-> FALSE,
                errno |-> FALSE, asked |-> FALSE, killed |-> FALSE]
    /\ pid = "free" /\ hit = FALSE
    /\ obj = [pid |-> FALSE, reaped |-> FALSE, status |-> NoStatus, exact |-> FALSE,
              adopted |-> FALSE]

Ready == stage = "ready"
Ended(how) == [child EXCEPT !.life = "exiting", !.held = {}, !.status = how]
Fails(h) == handles' = h /\ stage' = "failed"

(*-------------------------------------------------------------------------*)
(* spawn()                                                                 *)
(*-------------------------------------------------------------------------*)
Asked(streams) == SelectSeq(streams, LAMBDA p : p \in want)
posix_pipes == Asked(<<"out", "err", "in">>) \o <<"report">>
               \o (IF Backend = "bsd" THEN <<"death">> ELSE <<>>)
windows_pipes == Asked(<<"in", "out", "err">>)
sim_pipes == <<"exit">> \o Asked(<<"out", "err", "in">>)

(* The pipes, in the order they are opened. *)
Pipes == CASE Posix -> posix_pipes
           [] Backend = "windows" -> windows_pipes
           [] OTHER -> sim_pipes
Opened == {i \in DOMAIN Pipes : Ends(Pipes[i]) \subseteq handles}

Spawn(spec) ==
    /\ stage = "none"
    /\ want' = spec /\ stage' = "pipes"
    /\ UNCHANGED <<handles, child, kids, buf, pid, obj, hit>>

OpenPipe ==
    LET k == Cardinality(Opened) + 1 IN
    /\ stage = "pipes" /\ k <= Len(Pipes)
    /\ \/ handles' = handles \cup Ends(Pipes[k]) /\ UNCHANGED stage
       \/ Fails(IF Pipes[k] = "death" THEN handles \ Ends("report") ELSE handles)
    /\ UNCHANGED <<want, child, kids, buf, pid, obj, hit>>

(* Variant: a failed fork() forgets the report pipe. *)
ForkFailed_Leaks == handles

ForkFailed == handles \ Ends("report")

(* fork(): the child starts with a copy of every descriptor. *)
fork ==
    \/ /\ child' = [child EXCEPT !.life = "forked", !.held = handles]
       /\ pid' = "child" /\ obj' = [obj EXCEPT !.pid = TRUE]
       /\ stage' = "parent" /\ UNCHANGED handles
    \/ Fails(ForkFailed) /\ UNCHANGED <<child, pid, obj>>

(* The job, then CreateProcessW: suspended, with the ends it inherits;     *)
(* our copies of those are reset whether or not it worked.                 *)
create_process ==
    LET kept == (handles \cap Mine) \cup {<<"job", "h">>} IN
    \/ Fails(handles) /\ UNCHANGED <<child, pid, obj>>
    \/ Fails(kept) /\ UNCHANGED <<child, pid, obj>>
    \/ /\ child' = [child EXCEPT !.life = "suspended", !.held = handles \cap Its]
       /\ pid' = "child" /\ obj' = [obj EXCEPT !.pid = TRUE, !.exact = TRUE]
       /\ handles' = kept \cup {<<"process", "h">>} /\ stage' = "assign"

(* The script starts with every end but ours. *)
sim_start ==
    /\ child' = [child EXCEPT !.life = "running",
                              !.held = (handles \ Mine) \ {<<"exit", "r">>}]
    /\ stage' = "ready" /\ UNCHANGED <<handles, pid, obj>>

Create ==
    /\ stage = "pipes" /\ Cardinality(Opened) = Len(Pipes)
    /\ \/ Posix /\ fork
       \/ Backend = "windows" /\ create_process
       \/ Backend = "sim" /\ sim_start
    /\ UNCHANGED <<want, kids, buf, hit>>

(* AssignProcessToJobObject before ResumeThread; on failure the suspended  *)
(* child is terminated.                                                    *)
Assign ==
    /\ stage = "assign"
    /\ \/ /\ stage' = "ready" /\ child' = [child EXCEPT !.life = "running"]
          /\ UNCHANGED <<handles, obj>>
       \/ /\ child' = [child EXCEPT !.killed = TRUE]
          /\ obj' = [obj EXCEPT !.reaped = TRUE] /\ Fails(handles)
    /\ UNCHANGED <<want, kids, buf, pid, hit>>

(* Variant: the parent keeps its copy of the report's write end. *)
ParentKeeps_Report == handles \ (Its \cup {<<"death", "w">>})

ParentKeeps == handles \ (Its \cup {<<"report", "w">>, <<"death", "w">>})

(* The parent closes the child's ends and opens the pidfd (Linux). *)
Parent ==
    /\ stage = "parent" /\ stage' = "report"
    /\ \E got \in IF Backend = "linux" THEN {TRUE, FALSE} ELSE {FALSE} :
          /\ obj' = [obj EXCEPT !.exact = got]
          /\ handles' = ParentKeeps \cup (IF got THEN {<<"pidfd", "h">>} ELSE {})
    /\ UNCHANGED <<want, child, kids, buf, pid, hit>>

(* read(report): an errno, or the end when nobody holds the other end. *)
ReadReport ==
    /\ stage = "report"
    /\ \/ child.errno /\ stage' = "exec_failed"
       \/ /\ ~child.errno /\ <<"report", "w">> \notin child.held \cup handles
          /\ stage' = "ready"
    /\ handles' = handles \ Ends("report")
    /\ UNCHANGED <<want, child, kids, buf, pid, obj, hit>>

(* Variant: the failed child is never collected. *)
CollectFailed_Zombie ==
    /\ stage = "exec_failed" /\ Fails(handles)
    /\ obj' = [obj EXCEPT !.reaped = TRUE, !.pid = FALSE]
    /\ UNCHANGED <<want, child, kids, buf, pid, hit>>

(* waitpid(pid, 0) on the child whose exec failed. *)
CollectFailed ==
    /\ stage = "exec_failed" /\ child.life = "zombie" /\ Fails(handles)
    /\ child' = [child EXCEPT !.life = "gone"] /\ pid' = "free"
    /\ obj' = [obj EXCEPT !.reaped = TRUE, !.pid = FALSE]
    /\ UNCHANGED <<want, kids, buf, hit>>

(* adopt(): a child somebody else started; refused without a pidfd. *)
Adopt(spec, leads) ==
    /\ stage = "none" /\ Posix
    /\ want' = spec /\ pid' = "child"
    /\ child' = [child EXCEPT !.life = "running", !.leads = leads,
                              !.held = {e \in Its : e[1] \in spec}]
    /\ LET given == {e \in Mine : e[1] \in spec}
       IN \/ /\ Backend = "linux" /\ stage' = "ready"
             /\ handles' = given \cup {<<"pidfd", "h">>}
             /\ obj' = [obj EXCEPT !.pid = TRUE, !.exact = TRUE, !.adopted = TRUE]
          \/ /\ Fails(given) /\ obj' = [obj EXCEPT !.pid = TRUE, !.adopted = TRUE]
    /\ UNCHANGED <<kids, buf, hit>>

(*-------------------------------------------------------------------------*)
(* The child                                                               *)
(*-------------------------------------------------------------------------*)
(* Between fork and exec: setsid() may fail quietly; chdir, dup2 or exec   *)
(* failing is written to the report.                                       *)
BecomesProgram ==
    /\ child.life = "forked"
    /\ \/ \E leads \in BOOLEAN :
            child' = [child EXCEPT !.life = "running", !.leads = leads,
                        !.held = @ \cap (Its \cup {<<"death", "w">>})]
       \/ child' = [Ended("exit127") EXCEPT !.errno = TRUE]
    /\ UNCHANGED <<want, stage, handles, kids, buf, pid, obj, hit>>

Writes(n) == <<"out", "w">> \in child.held /\ buf' = n /\ UNCHANGED <<child, kids>>

(* What any program may do: write, start descendants that hold what it     *)
(* holds, close the death pipe, end.                                       *)
program ==
    \/ buf < Full /\ Writes(buf + 1)
    \/ kids' = child.held /\ UNCHANGED <<child, buf>>
    \/ /\ Backend = "bsd" /\ child' = [child EXCEPT !.held = @ \ {<<"death", "w">>}]
       /\ UNCHANGED <<kids, buf>>
    \/ \E s \in {"exit0"} \cup (IF child.asked THEN {"term"} ELSE {}) :
          child' = Ended(s) /\ UNCHANGED <<kids, buf>>

(* step(): one line of the script writes, fills the pipe or ends. *)
sim_step ==
    \/ buf < Full /\ \E n \in {buf + 1, Full} : Writes(n)
    \/ \E s \in {"exit0", "kill"} : child' = Ended(s) /\ UNCHANGED <<kids, buf>>

Runs ==
    /\ child.life = "running"
    /\ IF Backend = "sim" THEN sim_step ELSE program
    /\ UNCHANGED <<want, stage, handles, pid, obj, hit>>

(* A forced stop takes effect whether or not the child sits in a write. *)
Dies ==
    /\ Alive /\ child.killed /\ child' = Ended("kill")
    /\ UNCHANGED <<want, stage, handles, kids, buf, pid, obj, hit>>

BecomesWaitable ==
    /\ child.life = "exiting" /\ child' = [child EXCEPT !.life = "zombie"]
    /\ UNCHANGED <<want, stage, handles, kids, buf, pid, obj, hit>>

KidsEnd ==
    /\ kids # {} /\ kids' = {}
    /\ UNCHANGED <<want, stage, handles, child, buf, pid, obj, hit>>

(* A pid that was waited for is given to somebody else. *)
PidReused ==
    /\ pid = "free" /\ child.life = "gone" /\ pid' = "stranger"
    /\ UNCHANGED <<want, stage, handles, child, kids, buf, obj, hit>>

(*-------------------------------------------------------------------------*)
(* The parent's calls                                                      *)
(*-------------------------------------------------------------------------*)
Drain == Ready /\ buf > 0 /\ buf' = 0
         /\ UNCHANGED <<want, stage, handles, child, kids, pid, obj, hit>>

CloseStdin ==
    /\ Ready /\ <<"in", "w">> \in handles /\ handles' = handles \ {<<"in", "w">>}
    /\ UNCHANGED <<want, stage, child, kids, buf, pid, obj, hit>>

(* A signal by pid reaches whoever has it; through the pidfd or a process  *)
(* handle only the child.                                                  *)
Signals(forced, exactly) ==
    /\ child' = IF Alive THEN [child EXCEPT !.killed = @ \/ forced, !.asked = TRUE] ELSE child
    /\ hit' = (hit \/ (~exactly /\ pid = "stranger"))

(* Variant: stop() after reap() still signals the remembered pid. *)
Gone_Forgets == ~obj.pid

Gone == ~obj.pid \/ obj.reaped

(* The group when the pid leads one, else the leader. *)
posix_stop(forced, tree) ==
    ~Gone /\ Signals(forced, obj.exact /\ ~(tree /\ child.leads)) /\ UNCHANGED kids

(* The job or the leader; there is no graceful form. *)
windows_stop(tree) ==
    ~Gone /\ Signals(TRUE, TRUE) /\ kids' = IF tree THEN {} ELSE kids

sim_stop(forced) ==
    /\ child.life = "running" /\ child' = Ended(IF forced THEN "kill" ELSE "term")
    /\ UNCHANGED <<hit, kids>>

Stop(forced, tree) ==
    /\ Ready
    /\ \/ Posix /\ posix_stop(forced, tree)
       \/ Backend = "windows" /\ windows_stop(tree)
       \/ Backend = "sim" /\ sim_stop(forced)
    /\ UNCHANGED <<want, stage, handles, buf, pid, obj>>

exit_fd == IF obj.exact THEN child.life \in {"zombie", "gone"}
           ELSE Backend = "bsd" /\ <<"death", "w">> \notin child.held \cup kids
windows_exit_handle == child.life \in {"exiting", "zombie", "gone"}
sim_exit_handle == <<"exit", "w">> \notin child.held

(* What exit_handle() shows. *)
ExitReady == CASE Posix -> exit_fd
               [] Backend = "windows" -> windows_exit_handle
               [] OTHER -> sim_exit_handle

Reaps ==
    /\ obj' = [obj EXCEPT !.reaped = TRUE, !.status = child.status]
    /\ child' = [child EXCEPT !.life = "gone"] /\ pid' = "free"

(* Would block while the child runs.  Off Linux a death pipe that has      *)
(* fired makes it wait for the exit.                                       *)
posix_reap ==
    \/ child.life = "zombie" /\ Reaps /\ UNCHANGED stage
    \/ /\ Backend = "bsd" /\ ~obj.adopted /\ ExitReady /\ child.life # "zombie"
       /\ stage' = "reaping" /\ UNCHANGED <<child, obj, pid>>

windows_reap == windows_exit_handle /\ Reaps /\ UNCHANGED stage
sim_reap == sim_exit_handle /\ Reaps /\ UNCHANGED stage

Reap ==
    /\ Ready /\ ~obj.reaped
    /\ \/ Posix /\ posix_reap
       \/ Backend = "windows" /\ windows_reap
       \/ Backend = "sim" /\ sim_reap
    /\ UNCHANGED <<want, handles, kids, buf, hit>>

ReapReturns ==
    /\ stage = "reaping" /\ child.life = "zombie"
    /\ Reaps /\ stage' = "ready"
    /\ UNCHANGED <<want, handles, kids, buf, hit>>

(* A child nobody reaped is killed, and collected if that does not block. *)
posix_destroy ==
    /\ handles' = handles \cap Ends("report") /\ UNCHANGED kids
    /\ \/ Gone /\ UNCHANGED <<child, pid, hit>>
       \/ /\ ~Gone /\ child.life # "zombie"
          /\ Signals(TRUE, obj.exact) /\ UNCHANGED pid
       \/ /\ ~Gone /\ pid' = "free" /\ UNCHANGED hit
          /\ child' = [IF Alive THEN Ended("kill") ELSE child EXCEPT !.life = "gone"]

(* A job that closes takes its tree along. *)
windows_destroy ==
    /\ IF Gone THEN UNCHANGED <<child, hit>> ELSE Signals(TRUE, TRUE)
    /\ kids' = IF <<"job", "h">> \in handles THEN {} ELSE kids
    /\ handles' = {} /\ UNCHANGED pid

sim_destroy ==
    /\ handles' = {} /\ child' = [child EXCEPT !.life = "gone", !.held = {}]
    /\ UNCHANGED <<kids, pid, hit>>

(* The destructors, of a half-built object too. *)
Destroy ==
    /\ stage \in {"ready", "failed"}
    /\ stage' = IF stage = "ready" THEN "destroyed" ELSE "refused"
    /\ \/ Posix /\ posix_destroy
       \/ Backend = "windows" /\ windows_destroy
       \/ Backend = "sim" /\ sim_destroy
    /\ UNCHANGED <<want, buf, obj>>

ParentStep ==
    OpenPipe \/ Create \/ Assign \/ Parent \/ ReadReport \/ CollectFailed \/ ReapReturns
ChildStep == Dies \/ BecomesWaitable \/ BecomesProgram

ProcNext ==
    /\ UNCHANGED Backend
    /\ \/ ParentStep \/ ChildStep \/ Runs \/ KidsEnd \/ PidReused
       \/ Drain \/ CloseStdin \/ Reap \/ Destroy
       \/ \E spec \in Specs : Spawn(spec) \/ \E leads \in BOOLEAN : Adopt(spec, leads)
       \/ \E forced \in BOOLEAN, tree \in BOOLEAN : Stop(forced, tree)

(* "A half-built spawn cannot leak": whichever step of spawn() fails, no   *)
(* descriptor of it stays open and no child stays behind uncollected by    *)
(* a parent that has no object to collect it with.                         *)
HalfBuiltLeavesNothing ==
    stage = "refused" =>
        /\ handles = {}
        /\ ~obj.adopted /\ Posix => child.life \in {"none", "gone"}
        /\ Alive => child.killed

(* reap() hands out the status the child ended with, and once it has, no   *)
(* later stop() or destructor signals the pid: it may name a stranger.     *)
ReapedOnce ==
    /\ ~hit
    /\ obj.reaped /\ stage = "ready" => child.life = "gone" /\ obj.status = child.status

(* A forced stop ends the child and the exit handle shows it, with nobody  *)
(* draining the pipe the child may be blocked on, and though descendants   *)
(* hold its pipes (where the exit is exact); spawn() itself returns.       *)
StopIsSeen ==
    /\ (Ready /\ child.killed /\ obj.exact) ~> (ExitReady \/ stage # "ready")
    /\ stage = "pipes" ~> (stage \in {"ready", "refused", "failed"})
=============================================================================
