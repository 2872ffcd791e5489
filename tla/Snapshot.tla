------------------------------ MODULE Snapshot ------------------------------
(***************************************************************************)
(* published<T> (kernel/published.hpp), a slot holding a counted pointer,  *)
(* and snapshot<T> (kernel/snapshot.hpp), a lock-free read-modify-write on *)
(* top of it.  Cells are heap addresses: one whose last pointer is gone    *)
(* may be handed out again by the allocator, which is what makes the       *)
(* pointer comparison of publish_if() delicate.  Both builds of published  *)
(* (atomic shared_ptr, mutex) make each of its operations one step.        *)
(*                                                                         *)
(* A value is the set of the updates folded into it; store(v) starts over. *)
(***************************************************************************)
EXTENDS Naturals

CONSTANTS Writers, Cells, NoCell,
          MaxWrites     \* bound: stores and updates of one writer

VARIABLES slot,         \* the published cell
          cell,         \* cell[c]: its value, immutable while pointed to
          wr,           \* wr[w]: where w is, the cells it points to, its writes
          folded        \* the updates that returned since the last store (history)

pvars == <<slot, cell, wr, folded>>

(* Variant: update() keeps no pointer to the cell it read. *)
Pointed_Unowned == {slot} \cup {wr[w].next : w \in Writers}

(* Cells some shared_ptr points to, and those the allocator may hand out. *)
Pointed == {slot} \cup UNION {{wr[w].old, wr[w].next} : w \in Writers}
Fresh == Cells \ Pointed

SnapInit ==
    /\ slot = CHOOSE c \in Cells : TRUE
    /\ cell = [c \in Cells |-> {}]
    /\ wr = [w \in Writers |-> [pc |-> "idle", old |-> NoCell, next |-> NoCell,
                                writes |-> 0]]
    /\ folded = {}

Me(w) == <<w, wr[w].writes>>

(* store(): box() then replace(); the old cell is dropped by the caller. *)
Store(w) ==
    /\ wr[w].pc = "idle" /\ wr[w].writes < MaxWrites
    /\ \E c \in Fresh : slot' = c /\ cell' = [cell EXCEPT ![c] = {Me(w)}]
    /\ folded' = {Me(w)}
    /\ wr' = [wr EXCEPT ![w].writes = @ + 1]

(* update(): cur() takes a pointer to the current cell... *)
Begin(w) ==
    /\ wr[w].pc = "idle" /\ wr[w].writes < MaxWrites
    /\ wr' = [wr EXCEPT ![w].pc = "read", ![w].old = slot]
    /\ UNCHANGED <<slot, cell, folded>>

(* ...f runs on it and its result is boxed in a new cell... *)
Box(w) ==
    /\ wr[w].pc = "read"
    /\ \E c \in Fresh :
         /\ cell' = [cell EXCEPT ![c] = cell[wr[w].old] \cup {Me(w)}]
         /\ wr' = [wr EXCEPT ![w].pc = "boxed", ![w].next = c]
    /\ UNCHANGED <<slot, folded>>

(* ...and publish_if() puts it in the slot if the pointer there is still   *)
(* the one read; if not, everything is tried again.                        *)
Publish(w) ==
    LET done == [wr[w] EXCEPT !.pc = "idle", !.old = NoCell, !.next = NoCell]
    IN  /\ wr[w].pc = "boxed"
        /\ IF slot = wr[w].old
             THEN /\ slot' = wr[w].next /\ folded' = folded \cup {Me(w)}
                  /\ wr' = [wr EXCEPT ![w] = [done EXCEPT !.writes = @ + 1]]
             ELSE wr' = [wr EXCEPT ![w] = done] /\ UNCHANGED <<slot, folded>>
        /\ UNCHANGED cell

SnapNext == \E w \in Writers : Store(w) \/ Begin(w) \/ Box(w) \/ Publish(w)

(* No update is lost: the published value holds every update that returned *)
(* since the last store(), however the writers interleave and however the  *)
(* allocator reuses addresses.                                             *)
NoUpdateLost == cell[slot] = folded
=============================================================================
