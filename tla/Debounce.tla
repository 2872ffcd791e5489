------------------------------ MODULE Debounce ------------------------------
(***************************************************************************)
(* debounce<T> and throttle (core/debounce.hpp), values a model holds, and *)
(* the way a program uses them: a search box that looks up what was typed  *)
(* once the typing pauses, and a progress bar that paints at most once per *)
(* interval and paints the last value in the end.                          *)
(***************************************************************************)
EXTENDS Naturals

CONSTANTS Values,
          Intervals,     \* of the throttle
          Never,         \* no time: nullopt
          MaxToken,      \* bound: values set and invalidations
          MaxTime        \* bound: the clock

VARIABLES value, token,  \* debounce
          inFlight,      \* delayed messages: the token and what was typed
          wanted,        \* the last keystroke's, unless invalidated (history)
          every, last, pending,      \* throttle
          clock, painted, latest,    \* the bar: what it shows, what it should
          timer                      \* the trailing paint's timer

bvars == <<value, token, inFlight, wanted>>
tvars == <<every, last, pending, clock, painted, latest, timer>>

Delayed(t, v) == [token |-> t, typed |-> v]

DebounceInit ==
    /\ value \in Values /\ token = 0 /\ inFlight = {Delayed(0, value)} /\ wanted = {}
    /\ every \in Intervals /\ last = Never /\ pending = FALSE
    /\ clock = 0 /\ painted = 0 /\ latest = 0 /\ timer = Never

(* A keystroke: the value is kept and a message with its token is delayed. *)
set(v) ==
    /\ token < MaxToken
    /\ value' = v /\ token' = token + 1
    /\ wanted' = {Delayed(token + 1, v)} /\ inFlight' = inFlight \cup wanted'

(* Variant: what is in flight stays valid. *)
invalidate_Kept == token < MaxToken /\ wanted' = {} /\ UNCHANGED <<value, token, inFlight>>

(* Escape: everything in flight is stale; no message carries the token. *)
invalidate ==
    /\ token < MaxToken
    /\ token' = token + 1 /\ wanted' = {}
    /\ UNCHANGED <<value, inFlight>>

ready(t) == t = token /\ t # 0

(* A delayed message, or the result of a lookup, arrives in any order. *)
Arrives(f) == inFlight' = inFlight \ {f} /\ UNCHANGED <<value, token, wanted>>

Type == \/ \E v \in Values : set(v)
        \/ invalidate
        \/ \E f \in inFlight : Arrives(f)

(* Variant: an attempt that is refused is forgotten. *)
allow_Forgets(now) ==
    IF last = Never \/ now - last >= every
    THEN last' = now /\ pending' = FALSE
    ELSE UNCHANGED <<last, pending>>

allow(now) ==
    IF last = Never \/ now - last >= every
    THEN last' = now /\ pending' = FALSE
    ELSE pending' = TRUE /\ UNCHANGED last

next_allowed == IF last = Never THEN Never ELSE last + every

(* allow() said yes: it has taken note of the time. *)
Allowed == last' = clock /\ ~pending'

Paint == painted' = latest'

(* Progress: painted if that is allowed; if not, a timer is set for when   *)
(* it will be.                                                             *)
Progress ==
    /\ latest' = 1 - latest
    /\ allow(clock)
    /\ IF Allowed THEN Paint /\ UNCHANGED timer
       ELSE timer' = next_allowed /\ UNCHANGED painted
    /\ UNCHANGED <<every, clock>>

(* The timer: if something was dropped, it is tried again. *)
Trailing ==
    /\ timer # Never /\ clock >= timer /\ UNCHANGED latest
    /\ IF pending
         THEN /\ allow(clock)
              /\ IF Allowed THEN Paint /\ timer' = Never
                 ELSE timer' = next_allowed /\ UNCHANGED painted
         ELSE timer' = Never /\ UNCHANGED <<last, pending, painted>>
    /\ UNCHANGED <<every, clock>>

(* The burst is over and the bar is painted regardless. *)
take_pending ==
    /\ pending /\ pending' = FALSE /\ painted' = latest
    /\ UNCHANGED <<every, last, clock, latest, timer>>

set_interval(d) == every' = d /\ UNCHANGED <<last, pending, clock, painted, latest, timer>>

(* The bar starts over: nothing dropped is owed any more. *)
reset ==
    /\ last' = Never /\ pending' = FALSE /\ painted' = latest
    /\ UNCHANGED <<every, clock, latest, timer>>

Tick == clock < MaxTime /\ clock' = clock + 1
        /\ UNCHANGED <<every, last, pending, painted, latest, timer>>

Bar == Progress \/ Trailing \/ take_pending \/ reset \/ Tick \/ \E d \in Intervals : set_interval(d)

DebounceNext == Type /\ UNCHANGED tvars
ThrottleNext == Bar /\ UNCHANGED bvars

(* The delayed message that is found ready is the last keystroke's, with   *)
(* nothing invalidated since, and the value it looks up is what was typed  *)
(* then: no late timer or result of an earlier one gets through.           *)
OnlyNewestReady ==
    /\ {f \in inFlight : ready(f.token)} = inFlight \cap wanted
    /\ \A f \in wanted : f.typed = value

(* A value that a refused attempt kept from being painted is remembered    *)
(* and has a timer: the last one of a burst is painted in the end.         *)
LastOnePainted == painted # latest => pending /\ timer # Never
=============================================================================
