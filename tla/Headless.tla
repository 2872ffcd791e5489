------------------------------ MODULE Headless ------------------------------
(***************************************************************************)
(* The test host (host/headless.hpp) driving a kernel on a clock of its    *)
(* own, with tasks that run on a real pool: send, event, advance and       *)
(* run_until_idle.  A fold may do nothing, send, arm an after, start a     *)
(* task or quit; the messages themselves are left out.                     *)
(***************************************************************************)
EXTENDS Naturals, FiniteSets

CONSTANTS Timers, Period,     \* Period[t] of an every, 0 for an after
          Delays,             \* of the afters, and how far a test advances
          Never,              \* no deadline, later than any time
          FoldBudget,
          MaxTime,            \* bound: the clock
          MaxPending, MaxTasks, MaxCalls   \* bounds: messages, tasks at a time, calls

VARIABLES clock, timers, pending, exit,    \* the kernel
          n,                               \* folds of this step
          box, tasks, waking, woken_,      \* the mailbox, tasks, a wake under way
          at, ret, end, news,              \* where the test is
          calls, answer, owed              \* history; owed: posted before a wait ended

hvars == <<clock, timers, pending, exit, n, box, tasks, waking, woken_, at, ret, end, news,
           calls, answer, owed>>
kernelVars == <<timers, pending, exit, n>>
poolVars == <<box, tasks, waking>>
callVars == <<end, calls, answer>>

HeadlessInit ==
    /\ clock = 0 /\ pending = 0 /\ exit = FALSE /\ n = 0
    /\ timers = [t \in Timers |-> IF Period[t] > 0 THEN Period[t] ELSE Never]
    /\ box = 0 /\ tasks = 0 /\ waking = FALSE /\ woken_ = FALSE
    /\ at = "test" /\ ret = "test" /\ end = 0 /\ news = FALSE
    /\ calls = 0 /\ answer = "none" /\ owed = 0

Earliest == CHOOSE d \in {timers[t] : t \in Timers} : \A t \in Timers : d <= timers[t]

(* kernel::next_deadline: at once if messages wait, else the heap's. *)
next_deadline == IF pending > 0 THEN 0 ELSE Earliest

(* kernel::step: the mailbox and the timers that are due, then the fold;   *)
(* nothing at all after a quit.                                            *)
Step ==
    /\ at = "step"
    /\ IF exit THEN at' = ret /\ UNCHANGED <<kernelVars, box, owed>>
       ELSE LET due == {t \in Timers : timers[t] <= clock}
            IN  /\ pending' = pending + box + Cardinality(due) /\ box' = 0 /\ owed' = 0
                /\ timers' = [t \in Timers |-> IF t \notin due THEN timers[t]
                                               ELSE IF Period[t] > 0 THEN timers[t] + Period[t]
                                               ELSE Never]
                /\ n' = 0 /\ at' = "fold" /\ UNCHANGED exit
    /\ UNCHANGED <<clock, tasks, waking, woken_, ret, news, callVars>>

(* One message: what its update returned is interpreted with it. *)
Fold ==
    /\ at = "fold" /\ pending > 0 /\ n < FoldBudget /\ ~exit
    /\ n' = n + 1
    /\ \/ pending' = pending - 1 /\ UNCHANGED <<timers, exit, tasks>>
       \/ UNCHANGED <<pending, timers, exit, tasks>>       \* it sends one
       \/ /\ \E t \in Timers, d \in Delays :
               /\ Period[t] = 0 /\ timers[t] = Never
               /\ timers' = [timers EXCEPT ![t] = clock + d]
          /\ pending' = pending - 1 /\ UNCHANGED <<exit, tasks>>
       \/ /\ tasks < MaxTasks /\ tasks' = tasks + 1
          /\ pending' = pending - 1 /\ UNCHANGED <<timers, exit>>
       \/ exit' = TRUE /\ pending' = 0 /\ UNCHANGED <<timers, tasks>>
    /\ UNCHANGED <<clock, box, waking, woken_, at, ret, news, callVars, owed>>

Folded ==
    /\ at = "fold" /\ (pending = 0 \/ n = FoldBudget \/ exit)
    /\ at' = ret
    /\ UNCHANGED <<clock, kernelVars, poolVars, woken_, ret, news, callVars, owed>>

Calls(where, back) ==
    /\ at = "test" /\ calls < MaxCalls
    /\ at' = where /\ ret' = back /\ calls' = calls + 1 /\ answer' = "none"
    /\ UNCHANGED <<clock, timers, exit, poolVars, woken_, news, owed>>

send == Calls("step", "test") /\ pending < MaxPending /\ pending' = pending + 1 /\ UNCHANGED <<n, end>>

(* route(): the event's message is folded there and then, unless the       *)
(* program has quit.                                                       *)
event ==
    /\ Calls("fold", "test") /\ pending < MaxPending
    /\ pending' = IF exit THEN pending ELSE pending + 1
    /\ n' = 0 /\ UNCHANGED end

advance(d) == Calls("advance", "advanced") /\ end' = clock + d /\ clock + d <= MaxTime
              /\ UNCHANGED <<pending, n>>

(* Variant: the clock goes to the end at once. *)
NextStop_End == end

(* The instant the loop of advance() steps at: the next deadline, or the   *)
(* end when there is none before it.                                       *)
NextStop == IF next_deadline > end THEN end
            ELSE IF next_deadline > clock THEN next_deadline ELSE clock

Advance ==
    /\ at = "advance"
    /\ clock' = NextStop
    /\ ret' = IF next_deadline > end THEN "test" ELSE "advanced"
    /\ at' = "step"
    /\ UNCHANGED <<kernelVars, poolVars, woken_, news, callVars, owed>>

Advanced ==
    /\ at = "advanced"
    /\ at' = IF exit THEN "test" ELSE "advance"
    /\ UNCHANGED <<clock, kernelVars, poolVars, woken_, ret, news, callVars, owed>>

run_until_idle == Calls("step", "stepped") /\ UNCHANGED <<pending, n, end>>

Returns(a) == at' = "test" /\ answer' = a

(* After a step: a quit, a wait when nothing is pending, or the limit. *)
Stepped ==
    /\ at = "stepped"
    /\ \/ exit /\ Returns("idle") /\ UNCHANGED ret
       \/ ~exit /\ pending = 0 /\ at' = "wait" /\ UNCHANGED <<ret, answer>>
       \/ ~exit /\ pending > 0 /\ at' = "looked" /\ UNCHANGED <<ret, answer>>
    /\ UNCHANGED <<clock, kernelVars, poolVars, woken_, news, end, calls, owed>>

(* Variant: the moment is over when the wait is. *)
idle_for_a_moment_NoStep ==
    /\ at = "wait"
    /\ news' = woken_ /\ woken_' = FALSE
    /\ owed' = box
    /\ at' = "settled" /\ ret' = "settled"
    /\ UNCHANGED <<clock, kernelVars, poolVars, callVars>>

(* The wait ends when woken_ is set, or in its time; a step follows. *)
idle_for_a_moment ==
    /\ at = "wait"
    /\ news' = woken_ /\ woken_' = FALSE
    /\ owed' = box
    /\ at' = "step" /\ ret' = "settled"
    /\ UNCHANGED <<clock, kernelVars, poolVars, callVars>>

Settled ==
    /\ at = "settled"
    /\ IF ~news /\ pending = 0 THEN Returns("idle") ELSE at' = "looked" /\ UNCHANGED answer
    /\ UNCHANGED <<clock, kernelVars, poolVars, woken_, ret, news, end, calls, owed>>

(* The limit of run_until_idle, which may be over by now. *)
Looked ==
    /\ at = "looked"
    /\ \/ Returns("gave up") /\ UNCHANGED ret
       \/ at' = "step" /\ ret' = "stepped" /\ UNCHANGED answer
    /\ UNCHANGED <<clock, kernelVars, poolVars, woken_, news, end, calls, owed>>

(* The worker posts a task's result; into an empty mailbox, it wakes the   *)
(* loop before it takes its next task.                                     *)
Posts ==
    /\ tasks > 0 /\ ~waking /\ tasks' = tasks - 1 /\ box' = box + 1
    /\ waking' = (box = 0)
    /\ UNCHANGED <<clock, kernelVars, woken_, at, ret, news, callVars, owed>>

waker ==
    /\ waking /\ waking' = FALSE /\ woken_' = TRUE
    /\ UNCHANGED <<clock, kernelVars, box, tasks, at, ret, news, callVars, owed>>

HeadlessNext ==
    \/ send \/ event \/ run_until_idle \/ \E d \in Delays : advance(d)
    \/ Step \/ Fold \/ Folded \/ Advance \/ Advanced
    \/ Stepped \/ idle_for_a_moment \/ Settled \/ Looked
    \/ Posts \/ waker

(* The clock never passes an armed timer: each fires at its own time, a    *)
(* 10 ms one three times in 35 ms, however far a test advances and         *)
(* whatever its folds arm on the way.                                      *)
FiresOnTime == exit \/ \A t \in Timers : timers[t] >= clock

(* run_until_idle() says "idle" only of a program that has quit, or with   *)
(* nothing pending and every message folded that was posted before its     *)
(* last wait ended.                                                        *)
IdleIsIdle == answer = "idle" /\ at = "test" => exit \/ (pending = 0 /\ owed = 0)
=============================================================================
