------------------------------- MODULE Delay -------------------------------
(***************************************************************************)
(* delay_for, backoff_for and their timed_wait (kernel/delay.hpp): a sleep *)
(* a stop token cuts short.  Time is in steps of one unit; a stop may be   *)
(* requested at any moment by another thread.                              *)
(***************************************************************************)
EXTENDS Integers

CONSTANTS Durations,    \* what a caller may pass, non-positive ones included
          MaxBackoff    \* kMaxBackoff in units

VARIABLES now, stop, call   \* call: the sleeper's state

dvars == <<now, stop, call>>

Clamp(d) == IF d > MaxBackoff THEN MaxBackoff ELSE d

DelayInit ==
    /\ now = 0 /\ stop = FALSE
    /\ call = [pc |-> "idle", due |-> 0, result |-> FALSE]

Returns(r) == call' = [call EXCEPT !.pc = "returned", !.result = r]

(* Entry: an already stopped token, then a non-positive duration, return   *)
(* at once.                                                                *)
Enter(d, capped) ==
    LET e == IF capped THEN Clamp(d) ELSE d
    IN  /\ call.pc = "idle"
        /\ call' = IF stop \/ e <= 0
                     THEN [pc |-> "returned", due |-> now + e, result |-> stop]
                     ELSE [pc |-> "parked", due |-> now + e, result |-> FALSE]
        /\ UNCHANGED <<now, stop>>

(* Variant: the wait reports whether the time ran out. *)
Wake_Inverted ==
    /\ call.pc = "parked" /\ (stop \/ now >= call.due)
    /\ Returns(now >= call.due) /\ UNCHANGED <<now, stop>>

(* wait_for wakes on stop or when the time is up and returns the predicate,*)
(* evaluated then.                                                         *)
Wake ==
    /\ call.pc = "parked" /\ (stop \/ now >= call.due)
    /\ Returns(stop) /\ UNCHANGED <<now, stop>>

RequestStop == ~stop /\ stop' = TRUE /\ UNCHANGED <<now, call>>
Tick == now < MaxBackoff + 1 /\ now' = now + 1 /\ UNCHANGED <<stop, call>>

DelayNext == Wake \/ RequestStop \/ Tick \/ \E d \in Durations, b \in BOOLEAN : Enter(d, b)

(* The result means what it says: TRUE only when stop was requested, FALSE *)
(* only when the whole (capped) time has passed.                           *)
DelayMeans ==
    call.pc = "returned" => /\ call.result => stop
                            /\ ~call.result => now >= call.due
=============================================================================
