----------------------------- MODULE MCMailbox -----------------------------
(* Model checking of Mailbox: threads are model values, and senders with    *)
(* the same bound are interchangeable where no liveness is checked.         *)
(* `scenario` says which mailbox, used in which way, a behaviour is about.  *)
EXTENDS Mailbox, TLC

CONSTANTS BySender, ByHelper, ByLoop   \* bounds on the sends of each kind

VARIABLE scenario

SendBounds ==
  [t \in Threads |-> IF t = Loop THEN ByLoop ELSE IF t \in Helpers THEN ByHelper ELSE BySender]

Symmetry == Permutations(Senders)
-----------------------------------------------------------------------------
(* A mailbox that evicts the oldest message, in two scenarios: an origin    *)
(* opens, sends and retires while few messages come; and no origins, but    *)
(* sends enough to erase the evicted prefix.                                *)
Stream == INSTANCE Mailbox WITH MaxSends <- [t \in Threads |-> 1]
Burst  == INSTANCE Mailbox WITH MaxOrigins <- 0,
            MaxSends <- [t \in Threads |-> IF t = Loop THEN 0 ELSE BySender]

OldestInit == \/ scenario = "stream" /\ Stream!Init
              \/ scenario = "burst" /\ Burst!Init

OldestNext ==
  /\ UNCHANGED scenario
  /\ \/ scenario = "stream" /\ Stream!Next
     \/ scenario = "burst" /\ Burst!Next

OldestSpec == OldestInit /\ [][OldestNext]_<<scenario, vars>>
-----------------------------------------------------------------------------
(* The other two overflow policies, side by side: a mailbox that blocks,   *)
(* with a helper the loop joins, as the configuration says; and one that   *)
(* refuses the newest message, on a host that installed no wake_ and only  *)
(* polls.                                                                  *)
Newest == INSTANCE Mailbox WITH OnFull <- "drop_newest", HasWake <- FALSE,
            Senders <- Senders \cup Helpers, Helpers <- {}, MaxOrigins <- 0,
            MaxSends <- [t \in Threads |-> 1]

PoliciesInit == \/ scenario = "block" /\ Init
                \/ scenario = "drop_newest" /\ Newest!Init

PoliciesNext ==
  /\ UNCHANGED scenario
  /\ \/ scenario = "block" /\ Next
     \/ scenario = "drop_newest" /\ Newest!Next

LoopRuns(s) == scenario = s /\ IF s = "block" THEN LoopStep ELSE Newest!LoopStep
SenderRuns(s, t) == scenario = s /\ IF s = "block" THEN SenderStep(t) ELSE Newest!SenderStep(t)

\* The loop thread and every sender keep running, as in FairSpec.
PoliciesSpec ==
  /\ PoliciesInit /\ [][PoliciesNext]_<<scenario, vars>>
  /\ \A s \in {"block", "drop_newest"} :
       WF_vars(LoopRuns(s)) /\ \A t \in Threads : WF_vars(SenderRuns(s, t))
=============================================================================
