------------------------------- MODULE MCParts -------------------------------
(* The components whose promises are invariants, explored side by side:    *)
(* what the kernel and a worker are made of (the reconciler, the timer     *)
(* heap, snapshot, delay, parallel_for, what a thread knows of itself,     *)
(* owned handles), what a model may hold (debounce, throttle, rng, types), *)
(* the signal sources of POSIX and of the Windows console, composed        *)
(* children, the hosts that test and replay a program, and the quoting of  *)
(* a command line.  `part` says which of them this behaviour is about.     *)
EXTENDS Reconcile, Integers

VARIABLES part,
          tnow, heap, slots, free, issued, tret, touches,
          slot, signalled, open, made, mu, inside, disp, refs, prev, h, c, buffered, stray,
          pslot, cell, wr, folded,
          dnow, dstop, call,
          n, shares, next, failed, fstop, sh, ran, result,
          armed_depth, running_for, scopes, told,
          handle, openNow, openings, mine, raw,
          value, token, inFlight, wanted, every, tlast, pending, tclock, painted, latest, timer,
          ask, word, fields,
          ms, queue, keyed, runs, streams, dirty, own,
          alive, last, produced, round, afters, code, failures, effects, met, owed, crashed,
          sim, simAt, simEnd,
          hclock, htimers, hpending, exit, hn, box, tasks, waking, woken_, hat, hret, hend, news,
          hcalls, answer, unfolded,
          program, clocked, model, log, clock, now, now_cached, line,
          argv

(* Deadlines that saturate, timers that tie, a unit coarser than the       *)
(* clock's, and a Plan that builds a heap three levels deep.               *)
A(d, u) == [d |-> d, unit |-> u]
H == INSTANCE TimerHeap WITH now <- tnow, ret <- tret, MaxTick <- 6, MinTick <- 0 - 6, None <- 99,
        NoId <- [ix |-> 0, gen |-> 0], Nows <- {0, 2, 5}, MaxTouches <- 1, Everys <- {A(1, 1)},
        Afters <- {A(1, 1), A(2, 1), A(0 - 1, 2), A(4, 1), A(4, 2), A(3, 1)},
        Plan <- <<{A(1, 1)}, {A(4, 1)}, {A(2, 1), A(0 - 1, 2)}, {A(4, 2)}, {A(4, 2)}, {A(3, 1)}>>

(* Two sources that share SIGINT; the parent ignores SIGHUP. *)
Wants == <<{"int", "hup"}, {"int"}>>
P == INSTANCE Signals WITH running <- inside, Console <- FALSE, Slots <- {1, 2},
        Sigs <- {"int", "hup"}, Stopping <- {"int", "hup"}, Handlers <- {1, 2}, Clients <- {1, 2},
        Wanted <- Wants, MaxHandles <- 2,
        Inherited <- [g \in {"int", "hup"} |-> IF g = "hup" THEN "ignored" ELSE "default"]
W == INSTANCE Signals WITH running <- inside, Console <- TRUE, Slots <- {1, 2},
        Sigs <- {"int", "hup"}, Stopping <- {"int", "hup"}, Handlers <- {1}, Clients <- {1, 2},
        Wanted <- Wants, MaxHandles <- 2, Inherited <- [g \in {"int", "hup"} |-> "default"]

S == INSTANCE Snapshot WITH slot <- pslot, Writers <- {1, 2}, Cells <- 1..4, NoCell <- 0,
        MaxWrites <- 2
D == INSTANCE Delay WITH now <- dnow, stop <- dstop, Durations <- {0 - 1, 0, 1, 3}, MaxBackoff <- 2
F == INSTANCE ParallelFor WITH stop <- fstop, Counts <- {0, 1, 3}, Widths <- {0, 1, 2, 3}

(* Jobs nested deeper than they are tracked; handle numbers that come back. *)
L == INSTANCE LoopThread WITH open <- scopes, Threads <- {1}, Pools <- {"p", "q"}, kMaxNested <- 2,
        MaxOpen <- 4
O == INSTANCE OwnedHandle WITH h <- handle, Handles <- {1, 2, 3}, Numbers <- {0, 1, 2},
        Invalid <- 99, MaxOpenings <- 2
B == INSTANCE Debounce WITH last <- tlast, clock <- tclock, Values <- {1, 2}, Intervals <- {0, 2},
        Never <- 99, MaxToken <- 3, MaxTime <- 4
R == INSTANCE Rng WITH WordBits <- 4, IntBits <- 3, Types <- {2, 3, 4}

(* Two structs that may own each other, with a field of each kind. *)
Ty(k, s, m) == [k |-> k, of |-> s, mode |-> m]
Y == INSTANCE TypeWalk WITH Structs <- {"A", "B"}, MaxFields <- [A |-> 2, B |-> 1],
        Fields <- {Ty(k, "", "plain") : k \in {"int", "pointer", "reference", "string_view", "stop_token",
                                               "opaque", "Sink", "guarded", "pool", "atomic", "shared"}}
             \union {Ty(k, "", "const") : k \in {"int", "stop_token", "co_owned", "opaque"}}
             \union {Ty(k, s, "plain") : k \in {"vector", "unique_ptr"}, s \in {"A", "B"}}
             \union {Ty("int", "", "mutable"), Ty("shared_ptr", "B", "plain"), Ty("weak_ptr", "A", "plain"),
                     Ty("unique_ptr", "B", "const"), Ty("shared_ptr", "A", "const"),
                     Ty("array", "B", "plain"), Ty("struct", "B", "plain"), Ty("struct", "B", "const")}

(* One id of a list and a fixed slot; task and stream keys they share. *)
C == INSTANCE Children WITH Ids <- {0}, Slot <- 9, Root <- 8, Key <- 5, Feed <- 6,
        MaxQueue <- 1, MaxRuns <- 2
G == INSTANCE Given WITH issued <- effects, ran <- met, MaxEffects <- 4, MaxRounds <- 3
V == INSTANCE SimHost WITH s <- sim, at <- simAt, end <- simEnd, MaxTime <- 2, MaxSteps <- 4,
        Delays <- {0, 1}, MaxItems <- 3
T == INSTANCE Timeline WITH Models <- {0, 1}, Msgs <- {0, 1}, Strides <- {0, 2}, Grain <- 2,
        MaxMsgs <- 3, MaxClock <- 2
E == INSTANCE Headless WITH clock <- hclock, timers <- htimers, pending <- hpending, n <- hn,
        at <- hat, ret <- hret, end <- hend, calls <- hcalls, owed <- unfolded,
        Timers <- {1, 2}, Period <- <<2, 0>>, Delays <- {0, 3}, Never <- 99, FoldBudget <- 2,
        MaxTime <- 5, MaxPending <- 2, MaxTasks <- 1, MaxCalls <- 3
Q == INSTANCE CommandLine WITH Other <- "a", MaxArgs <- 2, MaxLength <- 3

timers == <<tnow, heap, slots, free, issued, tret, touches>>
signals == <<slot, signalled, open, made, mu, inside, disp, refs, prev, h, c, buffered, stray>>
helpers == <<pslot, cell, wr, folded, dnow, dstop, call,
             n, shares, next, failed, fstop, sh, ran, result>>
identity == <<armed_depth, running_for, scopes, told>>
handles == <<handle, openNow, openings, mine, raw>>
debounced == <<value, token, inFlight, wanted, every, tlast, pending, tclock, painted, latest, timer>>
random == <<ask, word, fields>>
held == <<identity, handles, debounced, random>>
children == <<ms, queue, keyed, runs, streams, dirty, own>>
given == <<alive, last, produced, round, afters, code, failures, effects, met, owed, crashed>>
simulation == <<sim, simAt, simEnd>>
testing == <<hclock, htimers, hpending, exit, hn, box, tasks, waking, woken_, hat, hret, hend, news,
             hcalls, answer, unfolded>>
timeline == <<program, clocked, model, log, clock, now, now_cached, line>>

PartsInit ==
    /\ part \in {"reconcile", "timers", "posix", "console", "snapshot", "delay", "parallel_for",
                 "loop_thread", "handle", "debounce", "throttle", "rng", "types",
                 "children", "given", "sim", "headless", "timeline", "command_line"}
    /\ Init /\ H!HeapInit /\ S!SnapInit /\ D!DelayInit /\ F!ForInit
    /\ L!LoopInit /\ O!HandleInit /\ B!DebounceInit /\ E!HeadlessInit
    /\ part # "debounce" => value = 1
    /\ part # "throttle" => every = 0
    /\ IF part = "rng" THEN R!RngInit ELSE ask = 0 /\ word = 0
    /\ Y!TypesInit
    /\ C!ChildrenInit /\ G!GivenInit /\ Q!CommandInit
    /\ IF part = "console" THEN W!SigInit ELSE P!SigInit
    /\ IF part = "sim" THEN V!SimInit ELSE sim = "none" /\ simAt = "none" /\ simEnd = "none"
    /\ part # "given" => effects = 0
    /\ T!TimelineInit
    /\ part # "timeline" => ~clocked /\ \A x \in DOMAIN program : program[x] = 0

HelperSteps ==
    \/ /\ part = "snapshot" /\ S!SnapNext
       /\ UNCHANGED <<dnow, dstop, call, n, shares, next, failed, fstop, sh, ran, result>>
    \/ /\ part = "delay" /\ D!DelayNext
       /\ UNCHANGED <<pslot, cell, wr, folded, n, shares, next, failed, fstop, sh, ran, result>>
    \/ /\ part = "parallel_for" /\ F!ForNext
       /\ UNCHANGED <<pslot, cell, wr, folded, dnow, dstop, call>>

HeldSteps ==
    \/ part = "loop_thread" /\ L!LoopNext /\ UNCHANGED <<handles, debounced, random>>
    \/ part = "handle" /\ O!HandleNext /\ UNCHANGED <<identity, debounced, random>>
    \/ part = "debounce" /\ B!DebounceNext /\ UNCHANGED <<identity, handles, random>>
    \/ part = "throttle" /\ B!ThrottleNext /\ UNCHANGED <<identity, handles, random>>
    \/ part = "rng" /\ R!RngNext /\ UNCHANGED <<identity, handles, debounced, fields>>
    \/ part = "types" /\ Y!TypesNext /\ UNCHANGED <<identity, handles, debounced, ask, word>>

RuntimeSteps ==
    \/ part = "reconcile" /\ Next /\ UNCHANGED <<timers, signals, helpers>>
    \/ part = "timers" /\ H!HeapNext /\ UNCHANGED <<vars, signals, helpers>>
    \/ part = "posix" /\ P!SigNext /\ UNCHANGED <<vars, timers, helpers>>
    \/ part = "console" /\ W!SigNext /\ UNCHANGED <<vars, timers, helpers>>
    \/ HelperSteps /\ UNCHANGED <<vars, timers, signals>>

ProgramSteps ==
    \/ part = "children" /\ C!ChildrenNext /\ UNCHANGED <<given, simulation, testing, timeline, argv>>
    \/ part = "given" /\ G!GivenNext /\ UNCHANGED <<children, simulation, testing, timeline, argv>>
    \/ part = "sim" /\ V!SimNext /\ UNCHANGED <<children, given, testing, timeline, argv>>
    \/ part = "headless" /\ E!HeadlessNext
       /\ UNCHANGED <<children, given, simulation, timeline, argv>>
    \/ part = "timeline" /\ T!TimelineNext
       /\ UNCHANGED <<children, given, simulation, testing, argv>>
    \/ part = "command_line" /\ Q!CommandNext
       /\ UNCHANGED <<children, given, simulation, testing, timeline>>

programs == <<children, given, simulation, testing, timeline, argv>>

PartsNext ==
    /\ UNCHANGED part
    /\ \/ RuntimeSteps /\ UNCHANGED <<held, programs>>
       \/ HeldSteps /\ UNCHANGED <<vars, timers, signals, helpers, programs>>
       \/ ProgramSteps /\ UNCHANGED <<vars, timers, signals, helpers, held>>

PartsSpec ==
    PartsInit /\ [][PartsNext]_<<part, vars, timers, signals, helpers, held, programs>>
-----------------------------------------------------------------------------
(* reconcile(): what a Sub wants is exactly what is collected, whichever   *)
(* index is in use, and same_sources() agrees with it.                     *)
CollectsExactly == part = "reconcile" => WantExact /\ IndexAgrees /\ SameSourcesExact

(* The heap keeps Timers' promise: what is due is returned, in order of    *)
(* deadline and of arming, once; a stale id cancels nothing.               *)
ImplementsTimers == H!ImplementsTimers

(* Signal sources: a noted signal wakes the loop; no handler writes to a   *)
(* closed handle; the dispositions come back.  The console promises the    *)
(* second only up to the reordering its release() allows, after which the  *)
(* first is not promised either.                                           *)
SignalsHold ==
    CASE part = "posix"   -> P!NoSignalLost /\ P!NoStrayWrite /\ P!PreviousRestored
      [] part = "console" -> (stray \/ W!NoSignalLost) /\ W!PreviousRestored
      [] OTHER            -> TRUE

(* The helpers a worker, a kernel or a model holds: no read-modify-write   *)
(* of a snapshot is lost, a delay says "stopped" or "elapsed" only if it   *)
(* is so, parallel_for runs each index once, a thread knows the kernels    *)
(* and jobs it is inside, an owned handle is closed once, a debounced      *)
(* message is the newest one, a throttled burst ends painted, draws are    *)
(* fair, and the walk over a program's types decides what they mean.       *)
HelpersHold ==
    CASE part = "snapshot"     -> S!NoUpdateLost
      [] part = "delay"        -> D!DelayMeans
      [] part = "parallel_for" -> F!EachIndexOnce
      [] part = "loop_thread"  -> L!KnowsItself
      [] part = "handle"       -> O!ClosedOnce
      [] part = "debounce"     -> B!OnlyNewestReady
      [] part = "throttle"     -> B!LastOnePainted
      [] part = "rng"          -> R!DrawsFairly
      [] part = "types"        -> Y!WalkDecides
      [] OTHER                 -> TRUE

(* Composed programs: the work of each is what it would be alone, and      *)
(* exactly the streams that are wanted run.                                *)
ChildrenApart == part = "children" => C!EachAsIfAlone /\ C!StreamsFollow

(* given(): no effect of a round is dropped or run twice. *)
RunsEveryEffect == part = "given" => G!RunsEveryEffect

(* The hosts that run a program on a clock of their own: a simulation's    *)
(* report is the truth about its run; the test host's timers fire at their *)
(* own times, and what it calls idle is idle.                              *)
ReportIsTrue ==
    CASE part = "sim"      -> V!ReportIsTrue
      [] part = "headless" -> E!FiresOnTime /\ E!IdleIsIdle
      [] OTHER             -> TRUE

(* A timeline shows at each step the model the run had there. *)
LooksBackTruly == part = "timeline" => T!LooksBackTruly

(* A quoted command line is split into the arguments it was made of. *)
ArgumentsArrive == part = "command_line" => Q!ArgumentsArrive
=============================================================================
