------------------------------- MODULE Scope -------------------------------
(***************************************************************************)
(* scope(), nursery, handle and helper_group (kernel/scope.hpp): a block   *)
(* spawns helper threads, joins some of them through their handles, and    *)
(* returns or throws; scope() leaves only when every helper is joined.     *)
(*                                                                         *)
(* A handle and a helper_group differ only in how many helpers they stand  *)
(* for: both are a "group" here.  The block is the program's: it may do    *)
(* any sequence of these calls, and end in a return or a throw.            *)
(***************************************************************************)
EXTENDS Naturals, Sequences, SequencesExt

CONSTANTS MaxHelpers,   \* bound: helpers of one nursery
          Stubborn      \* helpers (by index) that only end when asked to stop

VARIABLES stop,         \* nursery::stop_ has been requested
          ent,          \* entries_: each helper's thread, error, observed flag and group
          groups,       \* the live handles: their helpers, and taken_
          block,        \* the owner: where it is, its exception, what it joins next
          thrown,       \* helpers whose error a join() rethrew into the block (history)
          ret           \* what scope() returned: "none" while it has not

cvars == <<stop, ent, groups, block, thrown, ret>>

ScopeInit ==
    /\ stop = FALSE /\ ent = <<>> /\ groups = <<>> /\ thrown = {} /\ ret = "none"
    /\ block = [pc |-> "block", exc |-> "none", joins |-> 0, todo |-> <<>>]

(* nursery::start(), add(): a new entry, with or without its thread. *)
Entry(started, g) == [th |-> IF started THEN "run" ELSE "none", err |-> FALSE,
                      observed |-> FALSE, group |-> g]

(* An exception reaches the block, which handles it and goes on, or lets   *)
(* it out.                                                                 *)
IntoBlock == block' \in {[block EXCEPT !.pc = "block"],
                         [block EXCEPT !.pc = "destroy", !.exc = "block"]}

(* spawn() and spawn_n(): the helpers start, and the handle is on the      *)
(* block's stack.                                                          *)
Spawn(n) ==
    /\ block.pc = "block" /\ Len(ent) + n <= MaxHelpers
    /\ ent' = ent \o [i \in 1..n |-> Entry(TRUE, Len(groups) + 1)]
    /\ groups' = Append(groups, [es |-> [i \in 1..n |-> Len(ent) + i], taken |-> FALSE])
    /\ UNCHANGED <<stop, block, thrown, ret>>

(* A thread cannot be started after k of them were: spawn_n() asks for     *)
(* stop, joins those and rethrows, and there is no group; spawn() throws.  *)
SpawnFails(k, single) ==
    /\ block.pc = "block" /\ Len(ent) + k < MaxHelpers /\ (single => k = 0)
    /\ ent' = ent \o [i \in 1..(k + 1) |-> Entry(i <= k, 0)]
    /\ stop' = (stop \/ ~single)
    /\ block' = [block EXCEPT !.pc = "spawn_failed", !.todo = [i \in 1..k |-> Len(ent) + i]]
    /\ UNCHANGED <<groups, thrown, ret>>

SpawnRethrows ==
    /\ block.pc = "spawn_failed" /\ block.todo = <<>> /\ IntoBlock
    /\ UNCHANGED <<stop, ent, groups, thrown, ret>>

(* handle::join() and helper_group::join(): at most once. *)
Join(g) ==
    /\ block.pc = "block"
    /\ IF groups[g].taken
         THEN IntoBlock /\ UNCHANGED <<ent, groups>>
         ELSE /\ groups' = [groups EXCEPT ![g].taken = TRUE]
              /\ ent' = [i \in DOMAIN ent |-> [ent[i] EXCEPT !.observed = @ \/ Contains(groups[g].es, i)]]
              /\ block' = [block EXCEPT !.pc = "join", !.joins = g, !.todo = groups[g].es]
    /\ UNCHANGED <<stop, thrown, ret>>

(* The owner joins the next thread it has to, if that is still joinable. *)
JoinThread ==
    /\ block.todo # <<>>
    /\ LET i == Head(block.todo)
       IN  /\ ent[i].th \in {"done", "joined", "none"}
           /\ ent' = [ent EXCEPT ![i].th = IF @ = "done" THEN "joined" ELSE @]
    /\ block' = [block EXCEPT !.todo = Tail(@)]
    /\ UNCHANGED <<stop, groups, thrown, ret>>

Failed(es) == SelectSeq(es, LAMBDA i : ent[i].err)

(* All joined: the first error is taken from its slot and rethrown. *)
JoinReturns ==
    /\ block.pc = "join" /\ block.todo = <<>>
    /\ LET bad == Failed(groups[block.joins].es)
       IN  IF bad = <<>>
             THEN block' = [block EXCEPT !.pc = "block"] /\ UNCHANGED <<ent, thrown>>
             ELSE /\ ent' = [ent EXCEPT ![bad[1]].err = FALSE]
                  /\ thrown' = thrown \cup {bad[1]}
                  /\ IntoBlock
    /\ UNCHANGED <<stop, groups, ret>>

(* The block is left, by return or by a throw. *)
LeaveBlock(e) ==
    /\ block.pc = "block"
    /\ block' = [block EXCEPT !.pc = "destroy", !.exc = e]
    /\ UNCHANGED <<stop, ent, groups, thrown, ret>>

(* Variant: a handle destroyed during unwinding does not ask for stop. *)
DestroyHandle_Quiet ==
    /\ block.pc = "destroy" /\ block.todo = <<>> /\ groups # <<>>
    /\ groups' = Front(groups)
    /\ block' = [block EXCEPT !.todo = IF Last(groups).taken THEN <<>> ELSE Last(groups).es]
    /\ UNCHANGED <<stop, ent, thrown, ret>>

(* A handle that was not joined and still has a helper to join. *)
Unjoined(g) ==
    ~g.taken /\ \E i \in 1..Len(g.es) : ent[g.es[i]].th \in {"run", "failing", "done"}

(* The handles die in reverse order; one that was not joined joins its     *)
(* helpers, after asking for stop if the frame is unwinding.               *)
DestroyHandle ==
    /\ block.pc = "destroy" /\ block.todo = <<>> /\ groups # <<>>
    /\ LET g == Last(groups)
       IN  /\ stop' = (stop \/ (Unjoined(g) /\ block.exc # "none"))
           /\ block' = [block EXCEPT !.todo = IF g.taken THEN <<>> ELSE g.es]
    /\ groups' = Front(groups)
    /\ UNCHANGED <<ent, thrown, ret>>

(* scope() has the block's outcome: it asks for stop if that is an         *)
(* exception, and joins every helper.                                      *)
JoinAll ==
    /\ block.pc = "destroy" /\ block.todo = <<>> /\ groups = <<>>
    /\ stop' = (stop \/ block.exc # "none")
    /\ block' = [block EXCEPT !.pc = "join_all", !.todo = [i \in DOMAIN ent |-> i]]
    /\ UNCHANGED <<ent, groups, thrown, ret>>

(* Variant: scope() looks for a helper's error only when the block threw. *)
Outcome_Dropped == IF block.exc # "none" THEN "error" ELSE "value"

(* The block's exception, or the first error nobody observed, or a value. *)
Outcome ==
    IF block.exc # "none" \/ \E i \in DOMAIN ent : ent[i].err /\ ~ent[i].observed
    THEN "error" ELSE "value"

ScopeReturns ==
    /\ block.pc = "join_all" /\ block.todo = <<>>
    /\ ret' = Outcome
    /\ block' = [block EXCEPT !.pc = "end"]
    /\ UNCHANGED <<stop, ent, groups, thrown>>

(* A helper: it ends, or throws: the error goes to its slot first, then    *)
(* the siblings are asked to stop.                                         *)
HelperEnds(i) ==
    /\ ent[i].th = "run" /\ (i \in Stubborn => stop)
    /\ ent' = [ent EXCEPT ![i].th = "done"]
    /\ UNCHANGED <<stop, groups, block, thrown, ret>>
HelperThrows(i) ==
    /\ ent[i].th = "run"
    /\ ent' = [ent EXCEPT ![i].th = "failing", ![i].err = TRUE]
    /\ UNCHANGED <<stop, groups, block, thrown, ret>>
HelperStops(i) ==
    /\ ent[i].th = "failing"
    /\ stop' = TRUE /\ ent' = [ent EXCEPT ![i].th = "done"]
    /\ UNCHANGED <<groups, block, thrown, ret>>

(* on_parent_stop_: the parent's stop reaches the nursery while it lives. *)
ParentStops ==
    /\ ret = "none" /\ ~stop /\ stop' = TRUE
    /\ UNCHANGED <<ent, groups, block, thrown, ret>>

OwnerStep == JoinThread \/ JoinReturns \/ SpawnRethrows \/ DestroyHandle \/ JoinAll \/ ScopeReturns
             \/ LeaveBlock("none") \/ LeaveBlock("block")
HelperStep(i) == i \in DOMAIN ent /\ (HelperEnds(i) \/ HelperStops(i))

ScopeNext ==
    \/ OwnerStep \/ ParentStops
    \/ \E n \in 1..MaxHelpers : Spawn(n)
    \/ \E k \in 0..MaxHelpers, single \in BOOLEAN : SpawnFails(k, single)
    \/ \E g \in DOMAIN groups : Join(g)
    \/ \E i \in 1..MaxHelpers : HelperStep(i) \/ (i \in DOMAIN ent /\ HelperThrows(i))

(* When scope() returns, no helper runs, and no helper's exception was     *)
(* swallowed: if it returns a value, every helper that threw was joined by *)
(* the block together with one whose error the block was given.            *)
JoinedAndHeard ==
    ret # "none" =>
      /\ \A i \in DOMAIN ent : ent[i].th \in {"joined", "none"}
      /\ ret = "value" => \A i \in DOMAIN ent :
            ent[i].err => \E j \in thrown : ent[j].group = ent[i].group

(* Once stop is requested, or the block has thrown, scope() returns: a     *)
(* helper that waits for stop cannot hold up the unwinding.                *)
ScopeEnds == (stop \/ block.exc # "none") ~> (ret # "none")
=============================================================================
