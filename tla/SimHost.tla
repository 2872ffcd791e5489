------------------------------- MODULE SimHost -------------------------------
(***************************************************************************)
(* The simulator of include/jaal/host/sim.hpp: a kernel on a simulated     *)
(* clock, whose task results and inputs are items of a world ordered by    *)
(* due time.  One run folds a message per step, checks the program's       *)
(* invariants, and moves the clock to whatever is due next.                *)
(*                                                                         *)
(* The program is any: a fold returns any effect, and the model it leaves  *)
(* passes the checks or not.  Draws from the seed are nondeterministic.    *)
(* `s` is the simulator's state:                                           *)
(*   now, steps        sim time and the steps taken                        *)
(*   q                 world items: how many of each [due, kind]           *)
(*   timers            kernel timers: how many are due at each time        *)
(*   mailbox, pending  messages posted, and messages waiting to be folded  *)
(*   good              does the model pass the checks                      *)
(*   exit              has the program quit                                *)
(* Ghosts: unchecked, the folds since the last check; routed, whether an   *)
(* input was folded since it; late, whether anything ran after it was due. *)
(***************************************************************************)
EXTENDS Naturals, FiniteSets

CONSTANTS
    MaxTime,      \* sim_options::max_time
    MaxSteps,     \* sim_options::max_steps
    Delays,       \* the delays of after() and the latencies of tasks
    MaxItems      \* bound: messages, timers and items in the run at a time

VARIABLES s, at, end

simVars == <<s, at, end>>

Times == 0..MaxTime + 2
Kinds == {"dispatch", "input", "result", "crash"}

Total(bag) == Cardinality({<<k, i>> \in (DOMAIN bag) \X (1..MaxItems) : i <= bag[k]})

Load(w) == Total(w.q) + Total(w.timers) + w.mailbox + w.pending

schedule(w, due, kind) == [w EXCEPT !.q[<<due, kind>>] = @ + 1]

(* executor::post: lost, or scheduled to crash or to run after a latency. *)
post(w) ==
    {w} \cup {schedule(w, w.now + d, kind) : d \in Delays, kind \in {"result", "crash"}}

(* What the effect a fold returned does: none, send, after, task, quit. *)
Interpreted(w) ==
    {w, [w EXCEPT !.pending = @ + 1], [w EXCEPT !.exit = TRUE, !.pending = 0]}
    \cup {[w EXCEPT !.timers[w.now + d] = @ + 1] : d \in Delays}
    \cup post(w)

(* fold_budget is forced to one. *)
kernel_opts == 1

(* fold_pending: messages are folded one by one, up to the budget. *)
RECURSIVE fold_pending(_, _)
fold_pending(w, budget) ==
    IF budget = 0 \/ w.pending = 0 \/ w.exit THEN {w}
    ELSE UNION {fold_pending(u, budget - 1) :
             u \in {v \in UNION {Interpreted([w EXCEPT !.pending = @ - 1,
                                    !.unchecked = @ + 1, !.good = g]) : g \in BOOLEAN} :
                        Load(v) <= MaxItems}}

(* The constructor starts the kernel, which folds what init sent; the       *)
(* scenario schedules messages and inputs before the run (at, input).       *)
SimInit ==
    /\ \E items \in SUBSET ((0..1) \X {"dispatch", "input"}), sends \in 0..2 :
          s \in fold_pending(
               [now |-> 0, steps |-> 0, mailbox |-> 0, pending |-> sends,
                q |-> [k \in Times \X Kinds |-> IF k \in items THEN 1 ELSE 0],
                timers |-> [t \in Times |-> 0], good |-> TRUE, exit |-> FALSE,
                unchecked |-> 0, routed |-> FALSE, late |-> FALSE], kernel_opts)
    /\ Load(s) <= MaxItems
    /\ at = "start"
    /\ end = "none"

(* kernel::step: the mailbox and the timers that are due become pending     *)
(* messages, in front of the fold; nothing happens after a quit.            *)
Stepped(w) ==
    LET due == {t \in Times : t <= w.now /\ w.timers[t] > 0}
        fired == [t \in due |-> w.timers[t]]
    IN  IF w.exit THEN {[w EXCEPT !.steps = @ + 1]}
        ELSE fold_pending([w EXCEPT !.pending = @ + w.mailbox + Total(fired),
                             !.mailbox = 0, !.steps = @ + 1,
                             !.timers = [t \in Times |-> IF t \in due THEN 0 ELSE @[t]],
                             !.late = @ \/ \E t \in due : t < w.now],
                          kernel_opts)

finish_report(why) == end' = why /\ at' = "done"

(* check_all: the verdict on the model as it is now. *)
check_all(w) == [w EXCEPT !.unchecked = 0, !.routed = FALSE]

(* run() checks the model it starts with. *)
Start ==
    /\ at = "start"
    /\ s' = check_all(s)
    /\ IF s.good THEN at' = "step" /\ UNCHANGED end ELSE finish_report("broke")

(* The loop's first half: the step limit, one step, the checks, the exit. *)
Step ==
    /\ at = "step"
    /\ IF s.steps >= MaxSteps THEN finish_report("step_limit") /\ UNCHANGED s
       ELSE \E w \in Stepped(s) :
            IF ~w.good THEN finish_report("broke") /\ s' = check_all(w)
            ELSE /\ s' = w
                 /\ IF w.exit THEN finish_report("quit")
                    ELSE at' = "next" /\ UNCHANGED end

next_deadline(w) == {t \in Times : w.timers[t] > 0}
next_due(w) == {k[1] : k \in {k \in Times \X Kinds : w.q[k] > 0}}

Earliest(S) == CHOOSE t \in S : \A u \in S : t <= u

(* Variant: an item of the world goes first whenever there is one. *)
world_first_Always(kd, wd) == IF wd # {} THEN {TRUE} ELSE {FALSE}

(* The earlier of the two goes first; a tie is a coin flip. *)
world_first(kd, wd) ==
    IF wd = {} THEN {FALSE}
    ELSE IF kd = {} THEN {TRUE}
    ELSE IF Earliest(wd) = Earliest(kd) THEN BOOLEAN
    ELSE {Earliest(wd) < Earliest(kd)}

(* world::run_one: a message is queued, a result is posted to the mailbox,  *)
(* a crash is reported, an input is routed, which folds it there and then.  *)
run_one(w, kind) ==
    LET v == [w EXCEPT !.q[<<Earliest(next_due(w)), kind>>] = @ - 1,
                       !.late = @ \/ Earliest(next_due(w)) < w.now]
    IN  CASE kind = "dispatch" -> {[v EXCEPT !.pending = @ + 1]}
          [] kind = "result" -> {[v EXCEPT !.mailbox = @ + 1]}
          [] kind = "crash" -> {v}
          [] kind = "input" ->
                 fold_pending([v EXCEPT !.pending = @ + 1, !.routed = TRUE], kernel_opts)

(* The loop's second half: fold on at this instant, or find what is next. *)
Advance ==
    /\ at = "next"
    /\ LET w == check_all(s)
           kd == next_deadline(w)
           wd == next_due(w)
       IN IF w.pending > 0 THEN s' = w /\ at' = "step" /\ UNCHANGED end
          ELSE IF kd = {} /\ wd = {} THEN s' = w /\ finish_report("idle")
          ELSE \E first \in world_first(kd, wd) :
               LET next == Earliest(IF first THEN wd ELSE kd)
                   moved == [w EXCEPT !.now = IF next > @ THEN next ELSE @]
               IN  IF next > MaxTime THEN s' = w /\ finish_report("time_limit")
                   ELSE /\ at' = "step" /\ UNCHANGED end
                        /\ IF first
                           THEN \E kind \in {k \in Kinds : w.q[<<next, k>>] > 0} :
                                    s' \in run_one(moved, kind)
                           ELSE s' = moved

SimNext == Start \/ Step \/ Advance

-----------------------------------------------------------------------------
(* A report is the truth about the run: one that ends idle left no message, *)
(* timer or item behind; nothing ran later than it was due, so what the     *)
(* seed chose is the only order; and no model went unchecked because a      *)
(* second message was folded over it, unless an input was routed, which     *)
(* folds a message outside the step.                                        *)
ReportIsTrue ==
    /\ end = "idle" => Load(s) = 0
    /\ ~s.late
    /\ s.unchecked > 1 => s.routed
=============================================================================
