----------------------------- MODULE StopGroup -----------------------------
(***************************************************************************)
(* stop_group (kernel/stop_group.hpp): members that come and go, an owner  *)
(* that closes the group, asks for stop and waits, with or without a       *)
(* grace, and one that only waits for the natural end.  Every critical     *)
(* section under core::m is one action; request_stop() and notify_all()    *)
(* run outside it and are actions of their own.                            *)
(***************************************************************************)
EXTENDS Naturals, FiniteSets

CONSTANTS Members,      \* units of work, each joins at most once
          Owners,       \* threads that call stop_and_wait() or wait()
          Graced,       \* owners that pass a grace
          Natural,      \* owners that call wait()
          Eager         \* members with a stop callback that leaves the group

VARIABLES live, closed, stopped,
          mem,          \* mem[x]: "out", "in", "refused", "left" or "notifying"
          own           \* own[o]: where the owner is, and what it returned

svars == <<live, closed, stopped, mem, own>>

StopInit ==
    /\ live = 0 /\ closed = FALSE /\ stopped = FALSE
    /\ mem = [x \in Members |-> "out"]
    /\ own = [o \in Owners |-> [pc |-> "idle", left |-> 0]]

(* Variant: admission ignores the closed flag. *)
Join_Late(x) ==
    /\ mem[x] = "out"
    /\ mem' = [mem EXCEPT ![x] = "in"] /\ live' = live + 1
    /\ UNCHANGED <<closed, stopped, own>>

(* join(): counted, or refused once the group is closed, under one lock. *)
Join(x) ==
    /\ mem[x] = "out"
    /\ IF closed
         THEN mem' = [mem EXCEPT ![x] = "refused"] /\ UNCHANGED live
         ELSE mem' = [mem EXCEPT ![x] = "in"] /\ live' = live + 1
    /\ UNCHANGED <<closed, stopped, own>>

(* Variant: "last" is decided from the count before it goes down. *)
Leave_OffByOne(x) ==
    /\ mem[x] = "in"
    /\ live' = live - 1
    /\ mem' = [mem EXCEPT ![x] = IF live = 0 THEN "notifying" ELSE "left"]
    /\ UNCHANGED <<closed, stopped, own>>

(* member::leave(): the count goes down under the lock; the last one out   *)
(* notifies after it.                                                      *)
Leave(x) ==
    /\ mem[x] = "in"
    /\ live' = live - 1
    /\ mem' = [mem EXCEPT ![x] = IF live' = 0 THEN "notifying" ELSE "left"]
    /\ UNCHANGED <<closed, stopped, own>>

Woken == [o \in Owners |-> IF own[o].pc = "parked" THEN [own[o] EXCEPT !.pc = "check"] ELSE own[o]]

Notify(x) ==
    /\ mem[x] = "notifying"
    /\ mem' = [mem EXCEPT ![x] = "left"]
    /\ own' = Woken
    /\ UNCHANGED <<live, closed, stopped>>

(* stop_and_wait(), first lock: admission closes.  wait() goes straight to *)
(* the wait and leaves admission open.                                     *)
Close(o) ==
    /\ own[o].pc = "idle"
    /\ IF o \in Natural
         THEN own' = [own EXCEPT ![o].pc = "check"] /\ UNCHANGED closed
         ELSE own' = [own EXCEPT ![o].pc = "ask"] /\ closed' = TRUE
    /\ UNCHANGED <<live, stopped, mem>>

(* request_stop() between the locks: the stop callbacks run inside it, and *)
(* it returns when each of them has left the group.                        *)
Ask(o) ==
    /\ own[o].pc = "ask"
    /\ stopped' = TRUE
    /\ own' = [own EXCEPT ![o].pc = IF stopped THEN "check" ELSE "callbacks"]
    /\ UNCHANGED <<live, closed, mem>>
Asked(o) ==
    /\ own[o].pc = "callbacks" /\ \A x \in Eager : mem[x] \notin {"in", "notifying"}
    /\ own' = [own EXCEPT ![o].pc = "check"]
    /\ UNCHANGED <<live, closed, stopped, mem>>

(* The wait, under the lock again: the predicate is the count. *)
Check(o) ==
    /\ own[o].pc = "check"
    /\ own' = [own EXCEPT ![o].pc = IF live = 0 THEN "returned" ELSE "parked"]
    /\ UNCHANGED <<live, closed, stopped, mem>>

GraceOver(o) ==
    /\ own[o].pc = "parked" /\ o \in Graced
    /\ own' = [own EXCEPT ![o] = [pc |-> "returned", left |-> live]]
    /\ UNCHANGED <<live, closed, stopped, mem>>

OwnerStep(o) == Ask(o) \/ Asked(o) \/ Check(o) \/ GraceOver(o)

(* A member's work ends on its own, or because it was asked to stop. *)
StopNext ==
    \/ \E x \in Members : Join(x) \/ Leave(x) \/ Notify(x)
    \/ \E o \in Owners : Close(o) \/ OwnerStep(o)

(* When stop_and_wait() has returned 0, nothing of the group runs and      *)
(* nothing will: a run that starts during shutdown is refused, not missed  *)
(* by the wait.  The count stop_and_wait() reads is the number of members. *)
NoneLeftBehind ==
    /\ live = Cardinality({x \in Members : mem[x] = "in"})
    /\ \A o \in Owners \ Natural :
         own[o].pc = "returned" /\ own[o].left = 0 => \A x \in Members : mem[x] # "in"

(* Every owner that began to wait returns, once the members that were      *)
(* asked to stop do: the notify of the last one out is never missed.       *)
WaitEnds(o) == (own[o].pc # "idle" /\ closed) ~> (own[o].pc = "returned")
=============================================================================
