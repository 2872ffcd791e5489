------------------------------- MODULE Timers -------------------------------
(***************************************************************************)
(* What the kernel's timers promise, with no heap and no slot table: a set *)
(* of armed timers, ids that are never given twice, a cancel that touches  *)
(* the timer it names or nothing, and a collect that hands over exactly    *)
(* what is due, earliest deadline first.                                   *)
(***************************************************************************)
EXTENDS Integers, Sequences, FiniteSets, SequencesExt

CONSTANTS MaxTick,      \* the clock's last representable instant
          None,         \* no deadline
          NoId,         \* no id: the call took or returned none
          Afters,       \* delays a one-shot is armed with: [d, unit], unit in ticks
          Everys        \* periods a repeating timer is armed with

VARIABLES now,          \* the loop's clock
          armed,        \* records [id, when, period, payload]
          issued,       \* ids ever handed out
          ret,          \* the last call and its answer: [op, id, ok, out]
          next          \* what next_deadline() answers

tvars == <<now, armed, issued, ret, next>>

Ret(op, id, ok, out) == [op |-> op, id |-> id, ok |-> ok, out |-> out]
Saturated(t) == IF t > MaxTick THEN MaxTick ELSE t
Earliest(A) ==
    IF A = {} THEN None ELSE CHOOSE w \in {t.when : t \in A} : \A t \in A : w <= t.when
Armed(A) == armed' = A /\ next' = Earliest(A)

TimersInit ==
    /\ now = 0 /\ armed = {} /\ issued = {} /\ next = None
    /\ ret = Ret("none", NoId, TRUE, <<>>)

(* The deadline is the sum, or the last instant when there is no such sum; *)
(* a period that is not positive is one tick.                              *)
Arm(op, ticks, period) ==
    \E id \in issued' \ issued :
      /\ issued' = issued \cup {id}
      /\ ret' = Ret(op, id, TRUE, <<>>)
      /\ \E t \in armed' \ armed :
           /\ t = [id |-> id, when |-> Saturated(now + ticks), period |-> period,
                   payload |-> t.payload]
           /\ Armed(armed \cup {t})
      /\ UNCHANGED now
After == \E a \in Afters : Arm("after", a.d * a.unit, 0)
Every == \E a \in Everys :
    LET per == IF a.d <= 0 THEN 1 ELSE Saturated(a.d * a.unit) IN Arm("every", per, per)

Cancel ==
    \E id \in issued :
      /\ ret' = Ret("cancel", id, \E t \in armed : t.id = id, <<>>)
      /\ Armed({t \in armed : t.id # id})
      /\ UNCHANGED <<now, issued>>

Replace ==
    \E id \in issued :
      /\ ret' = Ret("replace", id, \E t \in armed : t.id = id, <<>>)
      /\ \E u \in armed' \cup {[payload |-> None]} :
           Armed({IF t.id = id THEN [t EXCEPT !.payload = u.payload] ELSE t : t \in armed})
      /\ UNCHANGED <<now, issued>>

(* A repeating timer keeps its phase, unless it is a whole period late. *)
Rearmed(t) ==
    [t EXCEPT !.when = IF Saturated(t.when + t.period) > now THEN Saturated(t.when + t.period)
                                                              ELSE Saturated(now + t.period)]
Due == {t \in armed : t.when <= now}

CollectDue ==
    /\ \E s \in SetToSeqs(Due) :
         /\ \A i, j \in DOMAIN s : i < j => s[i].when <= s[j].when
         /\ ret' = Ret("due", NoId, TRUE, [i \in DOMAIN s |-> s[i].payload])
    /\ Armed((armed \ Due) \cup {Rearmed(t) : t \in {u \in Due : u.period > 0}})
    /\ UNCHANGED <<now, issued>>

Clear == Armed({}) /\ ret' = Ret("clear", NoId, TRUE, <<>>) /\ UNCHANGED <<now, issued>>

Tick == now' > now /\ UNCHANGED <<armed, issued, ret, next>>

TimersNext == After \/ Every \/ Cancel \/ Replace \/ CollectDue \/ Clear \/ Tick

TimersSpec == TimersInit /\ [][TimersNext]_tvars
=============================================================================
