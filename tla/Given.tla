------------------------------- MODULE Given --------------------------------
(***************************************************************************)
(* host/given.hpp: folding messages by hand in a test, and settle(), which *)
(* runs what the last Cmd asked for on the spot and folds what comes back. *)
(* The program is any: an update returns one of a few commands or throws.  *)
(* Every effect has a number, so that its runs can be counted; spent marks *)
(* an effect that has been moved from.                                     *)
(***************************************************************************)
EXTENDS Effects

CONSTANTS MaxEffects, MaxRounds

VARIABLES alive,     \* the model is there: no update threw
          last,      \* the Cmd of the last update
          produced,  \* messages settle() still has to fold in this round
          round,     \* settle()'s round, 0 outside of it
          afters, code,  \* what note() recorded
          failures,  \* something was reported: ok() is false
          issued,    \* effects returned so far
          ran,       \* history: how often run_inline met each effect
          owed,      \* history: effects returned while settle() was running
          crashed    \* an effect without its payload was run: undefined
vars == <<alive, last, produced, round, afters, code, failures, issued, ran, owed, crashed>>

Stamped(e, k) == e @@ [n |-> k, spent |-> FALSE]

\* What update returns: nothing, one effect, or one in a batch.
Returns ==
  {none} \cup (IF issued = MaxEffects THEN {} ELSE
    {Stamped(e, issued + 1) : e \in {perform(<<>>, Msg), send(Msg), now(Msg), random(Msg), quit(3)}}
    \cup {Batch(<<Stamped(after(<<>>, Msg), issued + 1), none>>)}
    \cup (IF issued + 1 = MaxEffects THEN {} ELSE
            {Batch(<<Stamped(perform(<<>>, Msg), issued + 1), Stamped(send(Msg), issued + 2)>>)}))

\* Starting from a model, or from init(), whose Cmd is the last Cmd.
GivenInit ==
  /\ \/ last = none /\ issued = 0
     \/ last \in {Stamped(e, 1) : e \in {perform(<<>>, Msg), after(<<>>, Msg)}} /\ issued = 1
  /\ alive = TRUE /\ produced = <<>> /\ round = 0 /\ owed = {}
  /\ afters = 0 /\ code = <<>> /\ failures = FALSE /\ crashed = FALSE
  /\ ran = [n \in 1 .. MaxEffects |-> 0]

\* A variant that was moved from: a batch is empty, an effect has lost its
\* payload.
Moved(c) ==
  CASE is_none(c) -> none
    [] c.fx = "batch" -> Batch(<<>>)
    [] OTHER -> [c EXCEPT !.spent = TRUE]

\* after and quit are recorded, never run; the first quit counts.
note(c) ==
  LET es == for_each(c)
      codes == SelectSeq(es, LAMBDA e : e.fx = "quit")
  IN /\ afters' = afters + Len(SelectSeq(es, LAMBDA e : e.fx = "after"))
     /\ code' = IF code = <<>> /\ codes # <<>> THEN <<codes[1].code>> ELSE code

\* Fold one message.  `was` is what last holds if update does not return, and
\* kept what becomes of that, or of the Cmd it returns.
when(was, kept) ==
  \/ /\ alive
     /\ \E c \in Returns : /\ last' = kept[c] /\ note(c)
                           /\ issued' = issued + Len(for_each(c))
     /\ UNCHANGED <<alive, failures>>
  \/ /\ alive /\ alive' = FALSE /\ failures' = TRUE
     /\ last' = kept[was] /\ UNCHANGED <<afters, code, issued>>
  \/ /\ ~alive /\ last' = kept[was] /\ UNCHANGED <<alive, failures, afters, code, issued>>

\* The test folds a message itself.
When ==
  /\ round = 0 /\ ~crashed
  /\ when(last, [c \in Returns \cup {last} |-> c])
  /\ owed' = {} /\ UNCHANGED <<produced, round, ran, crashed>>

\* What running one effect inline yields: a task sends, or throws.
run_inline(e, threw) ==
  IF e.fx \in {"send", "now", "random"} \/ (e.fx = "task" /\ ~threw) THEN <<e.msg>> ELSE <<>>

\* A round of settle(): run what last asked for; done when nothing comes back.
Settle ==
  /\ produced = <<>> /\ round < MaxRounds /\ ~crashed
  /\ LET es == for_each(last)
     IN /\ \E threw \in BOOLEAN :
             /\ threw => \E i \in DOMAIN es : es[i].fx = "task"
             /\ produced' = FlattenSeq([i \in DOMAIN es |-> run_inline(es[i], threw)])
             /\ failures' = (failures \/ threw)
        /\ ran' = [n \in DOMAIN ran |-> ran[n] + Len(SelectSeq(es, LAMBDA e : e.n = n /\ ~e.spent))]
        /\ crashed' = \E i \in DOMAIN es : es[i].spent /\ es[i].fx \in {"task", "now", "random"}
  /\ round' = IF produced' = <<>> THEN 0 ELSE round + 1
  /\ last' = none
  /\ UNCHANGED <<alive, afters, code, issued, owed>>

\* The rounds are used up: reported, and what is left stays in last.
SettleGivesUp ==
  /\ produced = <<>> /\ round = MaxRounds
  /\ round' = 0 /\ failures' = TRUE
  /\ UNCHANGED <<alive, last, produced, afters, code, issued, ran, owed, crashed>>

\* Variant: the Cmd of the message before is overwritten.
Collected_Last(keep, c) == c
\* Several messages each return a Cmd: the next round runs every one.
Collected(keep, c) == batch(<<keep, c>>)

\* Fold what a round produced, one message after the other.
FoldProduced ==
  /\ produced # <<>> /\ ~crashed /\ produced' = Tail(produced)
  /\ when(Moved(last), [c \in Returns \cup {Moved(last)} |-> Collected(last, c)])
  /\ owed' = owed \cup ((issued + 1) .. issued')
  /\ UNCHANGED <<round, ran, crashed>>

GivenNext == When \/ Settle \/ SettleGivesUp \/ FoldProduced
GivenSpec == GivenInit /\ [][GivenNext]_vars

-----------------------------------------------------------------------------
Pending(n) == Len(SelectSeq(for_each(last), LAMBDA e : e.n = n /\ ~e.spent))

\* settle() "collect[s] them all so the next round runs every one of them": no
\* effect is run twice, and none returned while settle() runs is dropped, also
\* when an update of the same round throws.
RunsEveryEffect ==
  \A n \in 1 .. MaxEffects : /\ ran[n] + Pending(n) <= 1
                             /\ n \in owed => ran[n] + Pending(n) = 1

=============================================================================
