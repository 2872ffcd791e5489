---------------------------- MODULE ParallelFor ----------------------------
(***************************************************************************)
(* parallel_for (kernel/scope.hpp): shares of a loop claim indices from    *)
(* one counter, the caller running one of them; all shares are joined      *)
(* before it returns.  Scope models the nursery underneath: a share that   *)
(* throws asks the others to stop.                                         *)
(***************************************************************************)
EXTENDS Naturals, FiniteSets

CONSTANTS Counts, Widths        \* what a caller may pass, zero included

VARIABLES n, shares,            \* the call: indices, and threads (0 is the caller)
          next, failed, stop,
          sh,                   \* sh[s]: where the share is and its index
          ran,                  \* ran[i]: how often body(i) has been entered (history)
          result

fvars == <<n, shares, next, failed, stop, sh, ran, result>>

AtLeast(a, b) == IF a < b THEN b ELSE a
AtMost(a, b)  == IF a > b THEN b ELSE a

(* The clamp of width, and the early return for no index at all. *)
ShareCount(count, width) == IF count = 0 THEN 0 ELSE AtMost(AtLeast(width, 1), count)

ForInit ==
    /\ n = 0 /\ shares = 0 /\ next = 0 /\ failed = FALSE /\ stop = FALSE
    /\ sh = <<>> /\ ran = <<>> /\ result = "idle"

CallFor(c, w) ==
    /\ result = "idle"
    /\ n' = c /\ shares' = ShareCount(c, w)
    /\ sh' = [s \in 0..(shares' - 1) |-> [pc |-> "loop", i |-> 0]]
    /\ ran' = [i \in 0..(c - 1) |-> 0]
    /\ result' = IF c = 0 THEN "done" ELSE "none"
    /\ UNCHANGED <<next, failed, stop>>

At(s, pc) == sh' = [sh EXCEPT ![s].pc = pc]

(* The loop's test reads the flags... *)
Test(s) ==
    /\ sh[s].pc = "loop" /\ At(s, IF stop \/ failed THEN "end" ELSE "claim")
    /\ UNCHANGED <<n, shares, next, failed, stop, ran, result>>

(* Variant: the counter is read, then written. *)
Claim_Torn(s) ==
    /\ sh[s].pc \in {"claim", "torn"}
    /\ \/ sh[s].pc = "claim" /\ sh' = [sh EXCEPT ![s] = [pc |-> "torn", i |-> next]]
          /\ UNCHANGED <<next, ran>>
       \/ /\ sh[s].pc = "torn" /\ next' = sh[s].i + 1
          /\ At(s, IF sh[s].i >= n THEN "end" ELSE "body")
          /\ ran' = [i \in DOMAIN ran |-> IF i = sh[s].i THEN ran[i] + 1 ELSE ran[i]]
    /\ UNCHANGED <<n, shares, failed, stop, result>>

(* ...and the next index is claimed by one fetch_add. *)
Claim(s) ==
    /\ sh[s].pc = "claim"
    /\ next' = next + 1
    /\ sh' = [sh EXCEPT ![s] = [pc |-> IF next >= n THEN "end" ELSE "body", i |-> next]]
    /\ ran' = [i \in DOMAIN ran |-> IF i = next THEN ran[i] + 1 ELSE ran[i]]
    /\ UNCHANGED <<n, shares, failed, stop, result>>

Body(s) ==
    /\ sh[s].pc = "body" /\ At(s, "loop")
    /\ UNCHANGED <<n, shares, next, failed, stop, ran, result>>

(* The body throws: failed is set, and the exception leaves the share,     *)
(* which asks the nursery to stop (in the caller, the unwinding does).     *)
BodyThrows(s) ==
    /\ sh[s].pc = "body" /\ failed' = TRUE /\ At(s, "threw")
    /\ UNCHANGED <<n, shares, next, stop, ran, result>>
ShareThrows(s) ==
    /\ sh[s].pc = "threw" /\ stop' = TRUE /\ At(s, "error")
    /\ UNCHANGED <<n, shares, next, failed, ran, result>>

(* spawn_n() could not start a thread: those started are asked to stop,    *)
(* the rest and the caller's share never run, and the call throws.         *)
StartFails(k) ==
    /\ k \in 1..(shares - 1) /\ ~failed /\ result = "none"
    /\ \A s \in {0} \cup k..(shares - 1) : sh[s].pc = "loop" /\ sh[s].i = 0
    /\ sh' = [s \in DOMAIN sh |-> IF s = 0 \/ s >= k THEN [pc |-> "error", i |-> 0] ELSE sh[s]]
    /\ stop' = TRUE
    /\ UNCHANGED <<n, shares, next, failed, ran, result>>

(* Every share joined: the first exception, or a normal return. *)
Return ==
    /\ result = "none" /\ \A s \in DOMAIN sh : sh[s].pc \in {"end", "error"}
    /\ result' = IF \E s \in DOMAIN sh : sh[s].pc = "error" THEN "threw" ELSE "done"
    /\ UNCHANGED <<n, shares, next, failed, stop, sh, ran>>

ForNext ==
    \/ Return \/ \E c \in Counts, w \in Widths : CallFor(c, w)
    \/ \E s \in DOMAIN sh :
         Test(s) \/ Claim(s) \/ Body(s) \/ BodyThrows(s) \/ ShareThrows(s) \/ StartFails(s)

(* Each index is given to one share at most, and when the call returns     *)
(* normally to exactly one; no body runs once the call is over.            *)
EachIndexOnce ==
    /\ \A i \in DOMAIN ran : ran[i] <= 1
    /\ result = "done" => \A i \in DOMAIN ran : ran[i] = 1
    /\ result \in {"done", "threw"} => \A s \in DOMAIN sh : sh[s].pc \in {"end", "error"}
=============================================================================
