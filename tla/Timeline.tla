------------------------------ MODULE Timeline ------------------------------
(***************************************************************************)
(* Recording a run and looking back over it: include/jaal/kernel/          *)
(* replay.hpp and timeline.hpp, with the kernel's reading of the clock.    *)
(* The kernel hands every message to the recording before it folds it,     *)
(* with the time it folds it at if the program has a clock.  A timeline    *)
(* built from the record answers "what was the model after step n", from   *)
(* sparse snapshots and the last model reached.                            *)
(*                                                                         *)
(* The program is any function `program`, whose update may also throw; a   *)
(* clocked one sees the time as well.  Faults are skipped, which restores  *)
(* the model.  `line` is the timeline object, NoLine before it is built.   *)
(***************************************************************************)
EXTENDS Naturals, Sequences, SequencesExt, FiniteSets

CONSTANTS
    Models,     \* the program's models, an interval from 0, the initial one
    Msgs,       \* the messages
    Strides,    \* the strides a timeline is built with
    Grain,      \* ticks of the kernel's clock to one of the program's
    MaxMsgs,    \* bound: the length of the recorded run
    MaxClock    \* bound: the kernel's clock

VARIABLES
    program, clocked,   \* the program
    model, log,         \* the live model and the record
    clock,              \* the kernel's clock, started at 0
    now, now_cached,    \* the step's reading of it
    line

timelineVars == <<program, clocked, model, log, clock, now, now_cached, line>>
run == <<program, clocked, model, log, clock, now, now_cached>>

Thrown == 99
NoLine == [msgs |-> <<>>, stride |-> 0, snaps |-> <<>>, at |-> 0, cur |-> 0]

TimelineInit ==
    /\ program \in [Models \X Msgs -> Models \cup {Thrown}]
    /\ clocked \in BOOLEAN
    /\ model = 0 /\ log = <<>>
    /\ clock = 0 /\ now = 0 /\ now_cached = FALSE
    /\ line = NoLine

(* update(model, msg, now): the time shifts what a clocked program sees. *)
update(m, e) ==
    IF m = Thrown THEN Thrown
    ELSE program[IF clocked THEN (m + e.at) % Cardinality(Models) ELSE m, e.msg]

(* replay_from: every message in order, no effect run; an exception of      *)
(* update leaves it.                                                        *)
replay_from(m, msgs) == FoldLeft(update, m, msgs)

replay(msgs) == replay_from(0, msgs)

(* The model after every message, the initial one first. *)
replay_each(msgs) ==
    FoldLeft(LAMBDA ms, e : Append(ms, update(Last(ms), e)), <<0>>, msgs)

(* The replay of a clocked program: each message at its recorded time. *)
timed_replay(entries) == FoldLeft(update, 0, entries)

(* What a recording and a timed recording append. *)
hook(m) == Append(log, [msg |-> m, at |-> 0])
timed_hook(m, now_at) == Append(log, [msg |-> m, at |-> now_at])

(* The clock, read at most once in a step. *)
step_now == IF now_cached THEN now ELSE clock

(* The step's time on the program's clock: the same offset from its start. *)
program_now == step_now \div Grain

(* A message is recorded, then folded; a fault keeps the model. *)
fold_one(m) ==
    /\ Len(log) < MaxMsgs
    /\ log' = IF clocked THEN timed_hook(m, program_now) ELSE hook(m)
    /\ LET folded == update(model, Last(log'))
       IN  model' = IF folded = Thrown THEN model ELSE folded
    /\ IF clocked THEN now' = step_now /\ now_cached' = TRUE
       ELSE UNCHANGED <<now, now_cached>>
    /\ UNCHANGED <<program, clocked, clock, line>>

(* A new step: the time may have moved, also while messages are folded. *)
StepBegins ==
    /\ now_cached' = FALSE
    /\ UNCHANGED <<program, clocked, model, log, clock, now, line>>

ClockMoves ==
    /\ clocked /\ clock < MaxClock /\ clock' = clock + 1
    /\ UNCHANGED <<program, clocked, model, log, now, now_cached, line>>

(* One pass over the run: snapshot k is the model after k * stride. *)
snapshots(msgs, stride) ==
    [k \in 1..(Len(msgs) \div stride) + 1 |->
        replay(SubSeq(msgs, 1, (k - 1) * stride))]

(* The constructor, for a program without a clock; a stride of zero counts *)
(* as one, and an update that throws leaves no timeline.                    *)
Build(s) ==
    LET stride == IF s = 0 THEN 1 ELSE s IN
    /\ ~clocked /\ replay(log) # Thrown
    /\ line' = [msgs |-> log, stride |-> stride,
                snaps |-> snapshots(log, stride), at |-> 0, cur |-> 0]
    /\ UNCHANGED run

size(t) == Len(t.msgs) + 1

(* Variant: a cached model past the step is walked on from all the same. *)
at_Stale(t, step) ==
    LET snap == step \div t.stride
        from == IF t.at < snap * t.stride
                THEN [t EXCEPT !.at = snap * t.stride, !.cur = t.snaps[snap + 1]]
                ELSE t
    IN  [from EXCEPT !.at = step,
            !.cur = replay_from(from.cur, SubSeq(t.msgs, from.at + 1, step))]

(* at(step): walk forward from the model last reached when that is not past *)
(* the step and not before its snapshot, else restart from the snapshot.    *)
at(t, step) ==
    LET snap == step \div t.stride
        from == IF t.at > step \/ t.at < snap * t.stride
                THEN [t EXCEPT !.at = snap * t.stride, !.cur = t.snaps[snap + 1]]
                ELSE t
    IN  [from EXCEPT !.at = step,
            !.cur = replay_from(from.cur, SubSeq(t.msgs, from.at + 1, step))]

(* changes(from, to): both models are visited, in this order. *)
changes(t, from, to) == at(at(t, from), to)

(* first_bad: every step in order; size(t) stands for "none". *)
RECURSIVE first_bad(_, _, _)
first_bad(t, good, s) ==
    IF s = size(t) THEN [line |-> t, step |-> s]
    ELSE LET u == at(t, s) IN
         IF u.cur \notin good THEN [line |-> u, step |-> s]
         ELSE first_bad(u, good, s + 1)

RECURSIVE narrow(_, _, _, _)
narrow(t, good, lo, hi) ==
    IF hi - lo <= 1 THEN [line |-> t, step |-> hi]
    ELSE LET mid == lo + (hi - lo) \div 2
             u == at(t, mid)
         IN  IF u.cur \in good THEN narrow(u, good, mid, hi)
             ELSE narrow(u, good, lo, mid)

(* bisect: the last step, then the first, then halves. *)
bisect(t, good) ==
    LET last == at(t, size(t) - 1)
        first == at(last, 0)
    IN  IF last.cur \in good THEN [line |-> last, step |-> size(t)]
        ELSE IF first.cur \notin good THEN [line |-> first, step |-> 0]
        ELSE narrow(first, good, 0, size(t) - 1)

Look ==
    /\ line # NoLine
    /\ \/ \E a, b \in 0..size(line) - 1 : line' = changes(line, a, b)
       \/ \E good \in SUBSET Models : line' = bisect(line, good).line
    /\ UNCHANGED run

TimelineNext ==
    \/ \E m \in Msgs : fold_one(m)
    \/ StepBegins \/ ClockMoves
    \/ \E s \in Strides : Build(s)
    \/ Look

-----------------------------------------------------------------------------
(* The record is the run: folding it again gives the live model, each       *)
(* message at the time it was folded at, unless an update threw.  And       *)
(* whatever was looked at before, in whatever order, the next step asked    *)
(* for is the model the run had there; for a predicate that never recovers  *)
(* bisect names the step first_bad does.                                    *)
LooksBackTruly ==
    /\ (IF clocked THEN timed_replay(log) ELSE replay(log)) \in {model, Thrown}
    /\ line # NoLine =>
        /\ \A s \in 0..size(line) - 1 :
               at(line, s).cur = replay_each(line.msgs)[s + 1]
        /\ \A good \in SUBSET Models :
               LET bad == {s \in 0..size(line) - 1 :
                               replay_each(line.msgs)[s + 1] \notin good}
               IN  (\A s \in bad : s..size(line) - 1 \subseteq bad) =>
                       bisect(line, good).step = first_bad(line, good, 0).step
=============================================================================
