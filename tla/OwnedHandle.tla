----------------------------- MODULE OwnedHandle -----------------------------
(***************************************************************************)
(* owned_handle (platform/handle.hpp) over the system's table of handles.  *)
(* A number that is closed is handed out again for something else, so a    *)
(* second close would land on someone else's handle: `openings` counts how *)
(* often each number was opened and `mine` says which opening an owner, or *)
(* the caller, was given.                                                  *)
(***************************************************************************)
EXTENDS Naturals

CONSTANTS Handles,
          Numbers,       \* handle values, naturals
          Invalid,       \* invalid_handle
          MaxOpenings    \* bound: openings of one number

VARIABLES h,             \* h[o]: the handle in owner o
          openNow,       \* the numbers that are open
          openings,
          mine,          \* mine[o]: the opening o was given (history)
          raw            \* <<number, opening>> pairs released to the caller

ovars == <<h, openNow, openings, mine, raw>>

is_valid(n) == n # Invalid

HandleInit ==
    /\ h = [o \in Handles |-> Invalid] /\ mine = [o \in Handles |-> 0]
    /\ openNow = {} /\ openings = [n \in Numbers |-> 0] /\ raw = {}

(* The system: opening any closed number (external), and closing one. *)
Opens(n) ==
    /\ n \notin openNow /\ openings[n] < MaxOpenings
    /\ openNow' = openNow \cup {n}
    /\ openings' = [openings EXCEPT ![n] = @ + 1]

close_handle(n) == openNow' = openNow \ {n}

(* owned_handle(h): a handle just opened, or one the caller had, is adopted. *)
Adopt(o, n, g) == h' = [h EXCEPT ![o] = n] /\ mine' = [mine EXCEPT ![o] = g]

OpenAndAdopt(o) ==
    /\ ~is_valid(h[o])
    /\ \E n \in Numbers : Opens(n) /\ Adopt(o, n, openings[n] + 1)
    /\ UNCHANGED raw

AdoptRaw(o) ==
    /\ ~is_valid(h[o])
    /\ \E x \in raw : Adopt(o, x[1], x[2]) /\ raw' = raw \ {x}
    /\ UNCHANGED <<openNow, openings>>

(* Variant: the source of a move keeps its handle. *)
Moved_Copied(a, b) ==
    /\ h' = [h EXCEPT ![a] = h[b]]
    /\ mine' = [mine EXCEPT ![a] = mine[b]]

(* The exchange of a move: a takes the handle of b, which is left invalid. *)
Moved(a, b) ==
    /\ h' = [h EXCEPT ![a] = h[b], ![b] = Invalid]
    /\ mine' = [mine EXCEPT ![a] = mine[b], ![b] = 0]

(* Closing what o has, if anything. *)
Closes(o) == IF is_valid(h[o]) THEN close_handle(h[o]) ELSE UNCHANGED openNow

MoveConstruct(a, b) ==
    /\ a # b /\ ~is_valid(h[a])
    /\ Moved(a, b)
    /\ UNCHANGED <<openNow, openings, raw>>

(* A self-move does nothing; any other closes what a had before. *)
MoveAssign(a, b) ==
    IF a = b THEN UNCHANGED ovars
    ELSE Closes(a) /\ Moved(a, b) /\ UNCHANGED <<openings, raw>>

(* reset(), which is also the destructor. *)
reset(o) ==
    /\ Closes(o)
    /\ h' = [h EXCEPT ![o] = Invalid] /\ mine' = [mine EXCEPT ![o] = 0]
    /\ UNCHANGED <<openings, raw>>

release(o) ==
    /\ is_valid(h[o])
    /\ raw' = raw \cup {<<h[o], mine[o]>>}
    /\ h' = [h EXCEPT ![o] = Invalid] /\ mine' = [mine EXCEPT ![o] = 0]
    /\ UNCHANGED <<openNow, openings>>

(* The caller closes a handle that was released to it. *)
CloseRaw ==
    /\ \E x \in raw : close_handle(x[1]) /\ raw' = raw \ {x}
    /\ UNCHANGED <<h, mine, openings>>

(* duplicate_handle: the second numbers the system may give; none is an    *)
(* error, as for what is no handle.                                        *)
duplicate_handle(n) == {d \in Numbers \ openNow : is_valid(n) /\ openings[d] < MaxOpenings}

(* duplicate(): o gets a handle of its own of what p has; nothing of       *)
(* nothing, and nothing when the system refuses.                           *)
duplicate(o, p) ==
    /\ o # p /\ ~is_valid(h[o])
    /\ \/ /\ is_valid(h[p])
          /\ \E n \in duplicate_handle(h[p]) : Opens(n) /\ Adopt(o, n, openings[n] + 1)
          /\ UNCHANGED raw
       \/ UNCHANGED ovars

HandleNext ==
    \/ CloseRaw
    \/ \E o \in Handles : OpenAndAdopt(o) \/ AdoptRaw(o) \/ reset(o) \/ release(o)
    \/ \E o, p \in Handles : MoveConstruct(o, p) \/ MoveAssign(o, p) \/ duplicate(o, p)

Holdings == {<<h[o], mine[o]>> : o \in {o \in Handles : is_valid(h[o])}} \cup raw

(* However owners are moved, assigned, duplicated, released and destroyed, *)
(* what an owner would close is open and is the very thing it was given,   *)
(* no two own it, and nothing is open that nobody owns.                    *)
ClosedOnce ==
    /\ \A x \in Holdings : x[1] \in openNow /\ openings[x[1]] = x[2]
    /\ \A o, p \in Handles : o # p /\ is_valid(h[o]) => h[o] # h[p] /\ <<h[o], mine[o]>> \notin raw
    /\ openNow = {x[1] : x \in Holdings}
=============================================================================
