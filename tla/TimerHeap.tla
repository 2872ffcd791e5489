----------------------------- MODULE TimerHeap -----------------------------
(***************************************************************************)
(* timer_heap (kernel/timer_heap.hpp): a binary heap of entries ordered by *)
(* deadline, a slot table that maps an id to the entry's place in the      *)
(* heap, and a free list of slots, each with a generation.  Positions and  *)
(* slot indices start at 1 here; position 0 is kFreePos.                   *)
(***************************************************************************)
EXTENDS Integers, Sequences, FiniteSets, SequencesExt

CONSTANTS MaxTick, None, NoId, Afters, Everys,
          MinTick,      \* the duration type's least value
          Plan,         \* Plan[n]: what the n-th timer may be armed with; bounds them
          Nows,         \* what the clock may read, below MaxTick
          MaxTouches    \* bound on the calls that cancel, replace or clear

VARIABLES now, heap, slots, free, issued, ret,
          touches       \* cancels, replacements and clears so far

hvars == <<now, heap, slots, free, issued, ret, touches>>

(* The representation the operators below thread through a call. *)
Rep == [heap |-> heap, slots |-> slots, free |-> free]

saturate_cast(a) ==
    IF a.d > 0 /\ a.d > MaxTick \div a.unit THEN MaxTick
    ELSE IF a.d < 0 /\ a.d < -((-MinTick) \div a.unit) THEN MinTick ELSE a.d * a.unit
saturate_add(t, ticks) == IF ticks > 0 /\ t > MaxTick - ticks THEN MaxTick ELSE t + ticks

later_than(a, b) == a.when > b.when

(* An id is a slot index and the slot's generation when it was handed out. *)
Id(ix, gen) == [ix |-> ix, gen |-> gen]

new_id(q) ==
    IF q.free # <<>>
      THEN [q |-> [q EXCEPT !.free = Front(@)], id |-> Id(Last(q.free), q.slots[Last(q.free)].gen)]
      ELSE [q |-> [q EXCEPT !.slots = Append(@, [pos |-> 0, gen |-> 0])],
            id |-> Id(Len(q.slots) + 1, 0)]

(* Variant: the generation is not bumped. *)
free_id_Reused(q, id) ==
    [q EXCEPT !.slots[id.ix].pos = 0, !.free = Append(@, id.ix)]
free_id(q, id) ==
    [q EXCEPT !.slots[id.ix] = [pos |-> 0, gen |-> @.gen + 1], !.free = Append(@, id.ix)]

slot_of(q, id) ==
    IF id.ix > Len(q.slots) \/ q.slots[id.ix].gen # id.gen THEN 0 ELSE q.slots[id.ix].pos

note(q, i) == [q EXCEPT !.slots[q.heap[i].id.ix].pos = i]

swap(q, i, j) ==
    LET s == [q EXCEPT !.heap[i] = q.heap[j], !.heap[j] = q.heap[i]] IN note(note(s, i), j)

RECURSIVE sift_up(_, _)
sift_up(q, i) ==
    IF i > 1 /\ later_than(q.heap[i \div 2], q.heap[i])
      THEN sift_up(swap(q, i, i \div 2), i \div 2) ELSE q

RECURSIVE sift_down(_, _)
sift_down(q, i) ==
    LET l == 2 * i
        r == l + 1
        b == IF l <= Len(q.heap) /\ later_than(q.heap[i], q.heap[l]) THEN l ELSE i
        best == IF r <= Len(q.heap) /\ later_than(q.heap[b], q.heap[r]) THEN r ELSE b
    IN IF best = i THEN q ELSE sift_down(swap(q, i, best), best)

(* sift(): climb while the parent is later, then down from there. *)
RECURSIVE sift(_, _)
sift(q, i) ==
    IF i > 1 /\ later_than(q.heap[i \div 2], q.heap[i])
      THEN sift(swap(q, i, i \div 2), i \div 2) ELSE sift_down(q, i)

push(q, e) ==
    LET p == [q EXCEPT !.heap = Append(@, e)] IN sift_up(note(p, Len(p.heap)), Len(p.heap))

(* The last entry fills the hole at i. *)
fill(q, i) == note([q EXCEPT !.heap = Front([@ EXCEPT ![i] = Last(q.heap)])], i)

pop_root(q) ==
    IF Len(q.heap) = 1 THEN [q EXCEPT !.heap = <<>>] ELSE sift_down(fill(q, 1), 1)

-----------------------------------------------------------------------------
Ret(op, id, ok, out) == [op |-> op, id |-> id, ok |-> ok, out |-> out]
Store(q) == heap' = q.heap /\ slots' = q.slots /\ free' = q.free

HeapInit ==
    /\ now = 0 /\ heap = <<>> /\ slots = <<>> /\ free = <<>> /\ issued = {}
    /\ touches = 0
    /\ ret = Ret("none", NoId, TRUE, <<>>)

(* Arming: the payload is the number of the call, so each is its own. *)
Armable(a) == Cardinality(issued) < Len(Plan) /\ a \in Plan[Cardinality(issued) + 1]
Arm(op, when, period) ==
    /\ LET n == new_id(Rep)
       IN /\ Store(push(n.q, [when |-> when, period |-> period, id |-> n.id,
                              payload |-> Cardinality(issued) + 1]))
          /\ issued' = issued \cup {n.id}
          /\ ret' = Ret(op, n.id, TRUE, <<>>)
    /\ UNCHANGED <<now, touches>>

after(a) == Armable(a) /\ Arm("after", saturate_add(now, saturate_cast(a)), 0)
every(a) ==
    LET per == IF saturate_cast(a) <= 0 THEN 1 ELSE saturate_cast(a)
    IN Armable(a) /\ Arm("every", saturate_add(now, per), per)

replace_payload(id) ==
    LET s == slot_of(Rep, id)
    IN /\ heap' = IF s = 0 THEN heap ELSE [heap EXCEPT ![s].payload = 0 - Cardinality(issued)]
       /\ ret' = Ret("replace", id, s # 0, <<>>)
       /\ touches' = touches + 1
       /\ UNCHANGED <<now, slots, free, issued>>

(* Variant: the entry moved into the hole is only sifted down. *)
cancel_Down(id) ==
    LET s == slot_of(Rep, id)
        f == free_id(Rep, id)
    IN /\ IF s = 0 THEN UNCHANGED <<heap, slots, free>>
          ELSE IF s = Len(heap) THEN Store([f EXCEPT !.heap = Front(@)])
          ELSE Store(sift_down(fill(f, s), s))
       /\ ret' = Ret("cancel", id, s # 0, <<>>)
       /\ touches' = touches + 1
       /\ UNCHANGED <<now, issued>>

cancel(id) ==
    LET s == slot_of(Rep, id)
        f == free_id(Rep, id)
    IN /\ IF s = 0 THEN UNCHANGED <<heap, slots, free>>
          ELSE IF s = Len(heap) THEN Store([f EXCEPT !.heap = Front(@)])
          ELSE Store(sift(fill(f, s), s))
       /\ ret' = Ret("cancel", id, s # 0, <<>>)
       /\ touches' = touches + 1
       /\ UNCHANGED <<now, issued>>

next_deadline == IF heap = <<>> THEN None ELSE heap[1].when

RECURSIVE collect(_, _)
collect(q, out) ==
    IF q.heap = <<>> \/ q.heap[1].when > now THEN [q |-> q, out |-> out]
    ELSE LET e == q.heap[1]
             step == saturate_add(e.when, e.period)
             when == IF step > now THEN step ELSE saturate_add(now, e.period)
         IN collect(IF e.period > 0 THEN push(pop_root(q), [e EXCEPT !.when = when])
                                    ELSE free_id(pop_root(q), e.id),
                    Append(out, e.payload))

collect_due ==
    LET c == collect(Rep, <<>>)
    IN Store(c.q) /\ ret' = Ret("due", NoId, TRUE, c.out) /\ UNCHANGED <<now, issued, touches>>

(* Every slot that is in use gets a new generation, in index order. *)
clear ==
    LET used == SelectSeq([i \in 1..Len(slots) |-> i], LAMBDA i : slots[i].pos # 0)
    IN /\ heap' = <<>>
       /\ slots' = [i \in DOMAIN slots |->
                      [pos |-> 0, gen |-> slots[i].gen + (IF slots[i].pos # 0 THEN 1 ELSE 0)]]
       /\ free' = free \o used
       /\ ret' = Ret("clear", NoId, TRUE, <<>>)
       /\ touches' = touches + 1
       /\ UNCHANGED <<now, issued>>

(* The kernel reads the clock once per step; time only moves on. *)
Tick == now' \in Nows /\ now' > now /\ UNCHANGED <<heap, slots, free, issued, ret, touches>>

HeapNext ==
    \/ \E a \in Afters : after(a)
    \/ \E a \in Everys : every(a)
    \/ touches < MaxTouches /\ (clear \/ \E id \in issued : cancel(id) \/ replace_payload(id))
    \/ collect_due \/ Tick

(* The heap, with its slot table, free list and generations, is a set of   *)
(* timers: a stale id cancels nothing, a kept timer keeps its phase, the   *)
(* deadline the reactor sleeps until is the earliest one, and one collect  *)
(* hands over every due timer once, in deadline order.                     *)
T == INSTANCE Timers WITH armed <- {heap[i] : i \in DOMAIN heap}, next <- next_deadline
ImplementsTimers == T!TimersSpec
=============================================================================
