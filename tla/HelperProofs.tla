---------------------------- MODULE HelperProofs ----------------------------
(***************************************************************************)
(* What the helpers that programs and workers hold promise, for any number *)
(* of threads and processes: stop_group, for any finite set of members and *)
(* any owners, with or without a grace; snapshot, for any writers and any  *)
(* allocator; the file lock, for any processes and calls; and owned_handle *)
(* for any handles and any handle numbers.                                 *)
(***************************************************************************)
EXTENDS StopGroup, Snapshot, FileLock, OwnedHandle, FiniteSetTheorems, TLAPS

-----------------------------------------------------------------------------
(* stop_group *)

StopSpec == StopInit /\ [][StopNext]_svars

\* The members that are counted.
In == {x \in Members : mem[x] = "in"}

\* The invariant: the count is the number of members inside (it never goes
\* below zero); an owner that closes keeps the group closed; one that returned 0
\* returned when nobody was inside, or does not know better; and whoever parks
\* has somebody to wake it.
StopInv ==
  /\ live \in Nat /\ closed \in BOOLEAN
  /\ mem \in [Members -> {"out", "in", "refused", "left", "notifying"}]
  /\ own \in [Owners -> [pc : {"idle", "ask", "callbacks", "check", "parked", "returned"},
                         left : Nat]]
  /\ live = Cardinality(In)
  /\ \A o \in Owners \ Natural : own[o].pc # "idle" => closed
  /\ \A o \in Owners \ Natural : own[o].pc = "returned" /\ own[o].left = 0 => live = 0
  /\ \A o \in Owners : own[o].pc = "parked" =>
       live > 0 \/ \E x \in Members : mem[x] = "notifying"

\* A member that joins is counted, in join()'s one critical section.
LEMMA CountJoins ==
  ASSUME IsFiniteSet(Members), StopInv, NEW x \in Members, mem[x] # "in",
         mem' = [mem EXCEPT ![x] = "in"]
  PROVE  Cardinality(In') = Cardinality(In) + 1
<1>1. In' = In \cup {x} /\ x \notin In
  BY DEF In, StopInv
<1>2. IsFiniteSet(In)
  BY FS_Subset DEF In
<1> QED
  BY <1>1, <1>2, FS_AddElement

\* A member that leaves is counted out, in leave()'s one critical section.
LEMMA CountLeaves ==
  ASSUME IsFiniteSet(Members), StopInv, NEW x \in Members, mem[x] = "in",
         NEW to \in {"left", "notifying"}, mem' = [mem EXCEPT ![x] = to]
  PROVE  /\ Cardinality(In') = Cardinality(In) - 1
         /\ Cardinality(In) > 0
<1>1. In' = In \ {x} /\ x \in In
  BY DEF In, StopInv
<1>2. IsFiniteSet(In)
  BY FS_Subset DEF In
<1>3. Cardinality(In') = Cardinality(In) - 1
  BY <1>1, <1>2, FS_RemoveElement, Zenon
<1>4. Cardinality(In) \in Nat /\ Cardinality(In) # 0
  BY <1>1, <1>2, FS_CardinalityType, FS_EmptySet
<1> QED
  BY <1>3, <1>4

\* A step of a member keeps the invariant.
LEMMA MemberStep ==
  ASSUME IsFiniteSet(Members), StopInv, NEW x \in Members,
         Join(x) \/ Leave(x) \/ Notify(x)
  PROVE  StopInv'
<1>1. CASE Join(x) /\ closed
  <2>1. mem' = [mem EXCEPT ![x] = "refused"] /\ mem[x] = "out"
        /\ UNCHANGED <<live, closed, stopped, own>>
    BY <1>1 DEF Join
  <2>2. In' = In
    BY <2>1 DEF In, StopInv
  <2> QED
    BY <2>1, <2>2 DEF StopInv
<1>2. CASE Join(x) /\ ~closed
  <2>1. mem' = [mem EXCEPT ![x] = "in"] /\ mem[x] = "out" /\ live' = live + 1
        /\ UNCHANGED <<closed, stopped, own>>
    BY <1>2 DEF Join
  <2>2. Cardinality(In') = Cardinality(In) + 1
    BY <2>1, CountJoins, Zenon
  <2>3. live' > 0 /\ live' = Cardinality(In') /\ live' \in Nat
    BY <2>1, <2>2 DEF StopInv
  <2>4. \A o \in Owners \ Natural : own[o].pc = "idle"
    BY <1>2 DEF StopInv
  <2> QED
    BY <2>1, <2>3, <2>4 DEF StopInv
<1>3. CASE Leave(x)
  <2>1. /\ mem[x] = "in" /\ live' = live - 1 /\ UNCHANGED <<closed, stopped, own>>
        /\ mem' = [mem EXCEPT ![x] = IF live' = 0 THEN "notifying" ELSE "left"]
    BY <1>3 DEF Leave
  <2>2. Cardinality(In') = Cardinality(In) - 1 /\ Cardinality(In) > 0
    BY <2>1, CountLeaves, Zenon
  <2>3. live' = Cardinality(In') /\ live' \in Nat /\ live > 0
    BY <2>1, <2>2 DEF StopInv
  <2>4. live' > 0 \/ mem'[x] = "notifying"
    BY <2>1, <2>3 DEF StopInv
  <2> QED
    BY <2>1, <2>3, <2>4 DEF StopInv
<1>4. CASE Notify(x)
  <2>1. /\ mem[x] = "notifying" /\ mem' = [mem EXCEPT ![x] = "left"] /\ own' = Woken
        /\ UNCHANGED <<live, closed, stopped>>
    BY <1>4 DEF Notify
  <2>2. In' = In
    BY <2>1 DEF In, StopInv
  <2>3. \A o \in Owners : /\ own'[o].pc # "parked"
                          /\ own'[o].left = own[o].left
                          /\ own'[o].pc = "idle" <=> own[o].pc = "idle"
                          /\ own'[o].pc = "returned" <=> own[o].pc = "returned"
                          /\ own'[o] \in [pc : {"idle", "ask", "callbacks", "check", "parked",
                                                "returned"}, left : Nat]
    BY <2>1 DEF Woken, StopInv
  <2>4. DOMAIN own' = Owners /\ own' = [o \in Owners |-> own'[o]]
    BY <2>1 DEF Woken
  <2> QED
    BY <2>1, <2>2, <2>3, <2>4 DEF StopInv
<1> QED
  BY <1>1, <1>2, <1>3, <1>4

\* A step of an owner keeps the invariant.
LEMMA OwnersStep ==
  ASSUME StopInv, NEW o \in Owners, Close(o) \/ OwnerStep(o)
  PROVE  StopInv'
<1>1. UNCHANGED <<live, mem>> /\ In' = In
  BY DEF Close, OwnerStep, Ask, Asked, Check, GraceOver, In
<1> DEFINE Moves(w, n) ==
        /\ own' = [own EXCEPT ![o] = [pc |-> w, left |-> n]]
        /\ w = "returned" => (n = 0 => live = 0)
        /\ w = "parked" => live > 0
        /\ closed' \in BOOLEAN
        /\ closed => closed'
        /\ o \notin Natural => closed'
<1>2. /\ own[o].left \in Nat /\ live \in Nat /\ closed \in BOOLEAN
      /\ o \notin Natural /\ own[o].pc # "idle" => closed
      /\ \A w : [own EXCEPT ![o].pc = w] = [own EXCEPT ![o] = [pc |-> w, left |-> own[o].left]]
  BY DEF StopInv
<1>3. \E w \in {"ask", "callbacks", "check", "parked", "returned"}, n \in Nat : Moves(w, n)
  <2>1. CASE Close(o)
    <3>1. Moves("check", own[o].left) \/ Moves("ask", own[o].left)
      BY <1>2, <2>1, Zenon DEF Close
    <3> QED
      BY <1>2, <3>1, Zenon
  <2>2. CASE Ask(o)
    <3>1. Moves("check", own[o].left) \/ Moves("callbacks", own[o].left)
      BY <1>2, <2>2, Zenon DEF Ask
    <3> QED
      BY <1>2, <3>1, Zenon
  <2>3. CASE Asked(o)
    <3>1. Moves("check", own[o].left)
      BY <1>2, <2>3, Zenon DEF Asked
    <3> QED
      BY <1>2, <3>1, Zenon
  <2>4. CASE Check(o)
    <3>1. \/ live = 0 /\ own' = [own EXCEPT ![o].pc = "returned"]
          \/ live > 0 /\ own' = [own EXCEPT ![o].pc = "parked"]
      <4>1. own' = [own EXCEPT ![o].pc = IF live = 0 THEN "returned" ELSE "parked"]
        BY <2>4, Zenon DEF Check
      <4>2. CASE live = 0
        BY <4>1, <4>2, Zenon
      <4>3. CASE live # 0
        <5>1. live > 0
          BY <4>3 DEF StopInv
        <5> QED
          BY <4>1, <4>3, <5>1, Zenon
      <4> QED
        BY <4>2, <4>3, Zenon
    <3>2. own[o].pc = "check" /\ closed' = closed
      BY <2>4 DEF Check
    <3>3. Moves("returned", own[o].left) \/ Moves("parked", own[o].left)
      BY <1>2, <3>1, <3>2, Zenon
    <3> QED
      BY <1>2, <3>3, Zenon
  <2>5. CASE GraceOver(o)
    <3>1. Moves("returned", live)
      BY <1>2, <2>5 DEF GraceOver
    <3> QED
      BY <1>2, <3>1, Zenon
  <2> QED
    BY <2>1, <2>2, <2>3, <2>4, <2>5 DEF OwnerStep
<1>4. PICK w \in {"ask", "callbacks", "check", "parked", "returned"}, n \in Nat : Moves(w, n)
  BY <1>3, Zenon
<1> QED
  BY <1>1, <1>4 DEF StopInv

\* The invariant holds throughout.
LEMMA StopInvariant ==
  ASSUME IsFiniteSet(Members)
  PROVE  StopSpec => []StopInv
<1>1. StopInit => StopInv
  <2> SUFFICES ASSUME StopInit PROVE StopInv
    OBVIOUS
  <2>1. In = {}
    BY DEF StopInit, In
  <2>2. Cardinality(In) = 0
    BY <2>1, FS_EmptySet
  <2> QED
    BY <2>2, Zenon DEF StopInit, StopInv
<1>2. StopInv /\ [StopNext]_svars => StopInv'
  <2> SUFFICES ASSUME StopInv, [StopNext]_svars PROVE StopInv'
    OBVIOUS
  <2>1. CASE UNCHANGED svars
    BY <2>1 DEF svars, StopInv, In
  <2> QED
    BY <2>1, MemberStep, OwnersStep DEF StopNext
<1> QED
  BY <1>1, <1>2, PTL DEF StopSpec

\* When stop_and_wait() has returned 0, no member is inside and none can get
\* in; and the count it reads is the number of members
\* (stop_group.hpp), for any members, owners and graces.
THEOREM NobodyIsLeftBehind ==
  ASSUME IsFiniteSet(Members)
  PROVE  StopSpec => []NoneLeftBehind
<1>1. StopInv => NoneLeftBehind
  <2> SUFFICES ASSUME StopInv PROVE NoneLeftBehind
    OBVIOUS
  <2>1. live = Cardinality({x \in Members : mem[x] = "in"})
    BY DEF StopInv, In
  <2>2. live = 0 => \A x \in Members : mem[x] # "in"
    <3>1. IsFiniteSet(In)
      BY FS_Subset DEF In
    <3>2. live = 0 => In = {}
      BY <3>1, FS_EmptySet, Zenon DEF StopInv
    <3> QED
      BY <3>2 DEF In
  <2> QED
    BY <2>1, <2>2 DEF StopInv, NoneLeftBehind
<1> QED
  BY <1>1, StopInvariant, PTL

\* Nobody sleeps through the end of a group: whoever waits in stop_and_wait() or
\* wait() while no member is inside has the notification of the last one out
\* still to come (member::leave() notifies after it lets the lock go,
\* stop_group.hpp).
THEOREM LastOneOutNotifies ==
  ASSUME IsFiniteSet(Members)
  PROVE  StopSpec => [](\A o \in Owners : own[o].pc = "parked" /\ live = 0
                           => \E x \in Members : mem[x] = "notifying")
<1>1. StopInv => (\A o \in Owners : own[o].pc = "parked" /\ live = 0
                    => \E x \in Members : mem[x] = "notifying")
  BY DEF StopInv
<1> QED
  BY <1>1, StopInvariant, PTL
-----------------------------------------------------------------------------
(* snapshot *)

SnapSpec == SnapInit /\ [][SnapNext]_pvars

WriterRecords == [pc : {"idle", "read", "boxed"}, old : Cells \cup {NoCell},
                  next : Cells \cup {NoCell}, writes : Nat]

\* What a writer boxed is the value it read, with its own update.
Boxed(w) ==
  wr[w].next \in Cells /\ cell[wr[w].next] = cell[wr[w].old] \cup {Me(w)}

\* The invariant: besides NoUpdateLost, that every writer's cells are such, which
\* holds because nobody can be handed a cell that is pointed to.
SnapInv ==
  /\ slot \in Cells /\ cell \in [Cells -> SUBSET (Writers \X Nat)]
  /\ wr \in [Writers -> WriterRecords]
  /\ NoUpdateLost
  /\ \A w \in Writers : wr[w].pc # "idle" => wr[w].old \in Cells
  /\ \A w \in Writers : wr[w].pc = "boxed" => Boxed(w)

\* One writer's step leaves the others where they are.
LEMMA WriterMoves ==
  ASSUME SnapInv, NEW w \in Writers, NEW r \in WriterRecords, wr' = [wr EXCEPT ![w] = r]
  PROVE  /\ wr' \in [Writers -> WriterRecords]
         /\ wr'[w] = r
         /\ \A u \in Writers : u # w => wr'[u] = wr[u] /\ Me(u)' = Me(u)
BY DEF SnapInv, Me

\* Filling a fresh cell changes no value that anybody points to.
LEMMA FreshUnseen ==
  ASSUME SnapInv, NEW c \in Fresh, NEW v \in SUBSET (Writers \X Nat),
         cell' = [cell EXCEPT ![c] = v]
  PROVE  /\ c \in Cells /\ c # slot
         /\ cell'[slot] = cell[slot] /\ cell'[c] = v
         /\ cell' \in [Cells -> SUBSET (Writers \X Nat)]
         /\ \A w \in Writers : /\ wr[w].old # c /\ wr[w].next # c
                               /\ wr[w].old \in Cells => cell'[wr[w].old] = cell[wr[w].old]
                               /\ wr[w].next \in Cells => cell'[wr[w].next] = cell[wr[w].next]
<1>1. c \in Cells /\ c # slot /\ \A w \in Writers : wr[w].old # c /\ wr[w].next # c
  BY DEF Fresh, Pointed
<1> QED
  BY <1>1 DEF SnapInv

\* Every step keeps the invariant.
LEMMA SnapStep ==
  ASSUME SnapInv, NEW w \in Writers, Store(w) \/ Begin(w) \/ Box(w) \/ Publish(w)
  PROVE  SnapInv'
<1>0. /\ wr[w] \in WriterRecords /\ wr[w].old \in Cells \cup {NoCell}
      /\ wr[w].next \in Cells \cup {NoCell} /\ wr[w].writes \in Nat
  BY DEF SnapInv, WriterRecords
<1>m. Me(w) \in Writers \X Nat /\ {Me(w)} \in SUBSET (Writers \X Nat)
  BY <1>0 DEF Me
<1>1. CASE Store(w)
  <2>1. PICK c \in Fresh : slot' = c /\ cell' = [cell EXCEPT ![c] = {Me(w)}]
    BY <1>1, Zenon DEF Store
  <2>2. /\ folded' = {Me(w)} /\ wr[w].pc = "idle"
        /\ wr' = [wr EXCEPT ![w] = [wr[w] EXCEPT !.writes = @ + 1]]
    BY <1>1 DEF Store
  <2> DEFINE r == [wr[w] EXCEPT !.writes = @ + 1]
  <2>3. r \in WriterRecords /\ r.pc = "idle"
    BY <1>0, <2>2 DEF WriterRecords
  <2> HIDE DEF r
  <2>4. /\ wr' \in [Writers -> WriterRecords] /\ wr'[w].pc = "idle"
        /\ \A u \in Writers : u # w => wr'[u] = wr[u] /\ Me(u)' = Me(u)
    BY <2>2, <2>3, WriterMoves, Zenon DEF r
  <2>5. /\ slot' \in Cells /\ cell' \in [Cells -> SUBSET (Writers \X Nat)]
        /\ cell'[slot'] = {Me(w)}
        /\ \A u \in Writers : /\ wr[u].old \in Cells => cell'[wr[u].old] = cell[wr[u].old]
                              /\ wr[u].next \in Cells => cell'[wr[u].next] = cell[wr[u].next]
    BY <1>m, <2>1, FreshUnseen, Zenon
  <2>6. ASSUME NEW u \in Writers, wr'[u].pc = "boxed" PROVE Boxed(u)'
    BY <2>4, <2>5, <2>6 DEF SnapInv, Boxed
  <2> QED
    BY <2>2, <2>4, <2>5, <2>6 DEF SnapInv, NoUpdateLost
<1>2. CASE Begin(w)
  <2>1. /\ wr' = [wr EXCEPT ![w] = [wr[w] EXCEPT !.pc = "read", !.old = slot]]
        /\ UNCHANGED <<slot, cell, folded>> /\ slot \in Cells
    BY <1>2, Zenon DEF Begin, SnapInv
  <2> DEFINE r == [wr[w] EXCEPT !.pc = "read", !.old = slot]
  <2>2. r \in WriterRecords /\ r.pc = "read" /\ r.old = slot
    BY <1>0, <2>1, Zenon DEF WriterRecords
  <2> HIDE DEF r
  <2>3. /\ wr' \in [Writers -> WriterRecords] /\ wr'[w].pc = "read" /\ wr'[w].old = slot
        /\ \A u \in Writers : u # w => wr'[u] = wr[u] /\ Me(u)' = Me(u)
    BY <2>1, <2>2, WriterMoves, Zenon DEF r
  <2>4. ASSUME NEW u \in Writers, wr'[u].pc = "boxed" PROVE Boxed(u)'
    BY <2>1, <2>3, <2>4 DEF SnapInv, Boxed
  <2> QED
    BY <2>1, <2>3, <2>4 DEF SnapInv, NoUpdateLost
<1>3. CASE Box(w)
  <2>1. PICK c \in Fresh : /\ cell' = [cell EXCEPT ![c] = cell[wr[w].old] \cup {Me(w)}]
                           /\ wr' = [wr EXCEPT ![w] = [wr[w] EXCEPT !.pc = "boxed", !.next = c]]
    BY <1>3, Zenon DEF Box
  <2>2. /\ wr[w].pc = "read" /\ UNCHANGED <<slot, folded>> /\ c \in Cells
        /\ wr[w].old \in Cells
    BY <1>3, <2>1, Zenon DEF Box, SnapInv, Fresh
  <2> DEFINE r == [wr[w] EXCEPT !.pc = "boxed", !.next = c]
  <2>3. /\ r \in WriterRecords /\ r.next = c
        /\ r.old = wr[w].old /\ r.writes = wr[w].writes
    BY <1>0, <2>2, Zenon DEF WriterRecords
  <2> HIDE DEF r
  <2>4. /\ wr' \in [Writers -> WriterRecords]
        /\ wr'[w].old = wr[w].old /\ wr'[w].next = c /\ wr'[w].writes = wr[w].writes
        /\ \A u \in Writers : u # w => wr'[u] = wr[u] /\ Me(u)' = Me(u)
    BY <2>1, <2>3, WriterMoves, Zenon DEF r
  <2>5. cell[wr[w].old] \cup {Me(w)} \in SUBSET (Writers \X Nat)
    BY <1>m, <2>2 DEF SnapInv
  <2>6. /\ cell' \in [Cells -> SUBSET (Writers \X Nat)] /\ cell'[slot] = cell[slot]
        /\ cell'[c] = cell[wr[w].old] \cup {Me(w)}
        /\ \A u \in Writers : /\ wr[u].old \in Cells => cell'[wr[u].old] = cell[wr[u].old]
                              /\ wr[u].next \in Cells => cell'[wr[u].next] = cell[wr[u].next]
    BY <2>1, <2>5, FreshUnseen, Zenon
  <2>7. ASSUME NEW u \in Writers, wr'[u].pc = "boxed" PROVE Boxed(u)'
    <3>1. CASE u = w
      BY <2>2, <2>4, <2>6, <3>1 DEF Boxed, Me
    <3>2. CASE u # w
      BY <2>4, <2>6, <2>7, <3>2 DEF SnapInv, Boxed
    <3> QED
      BY <3>1, <3>2
  <2>8. \A u \in Writers : wr'[u].pc # "idle" => wr'[u].old \in Cells
    BY <2>2, <2>4 DEF SnapInv
  <2> QED
    BY <2>2, <2>4, <2>6, <2>7, <2>8 DEF SnapInv, NoUpdateLost
<1>4. CASE Publish(w)
  <2>1. wr[w].pc = "boxed" /\ cell' = cell /\ Boxed(w)
    BY <1>4 DEF Publish, SnapInv
  <2> DEFINE done == [wr[w] EXCEPT !.pc = "idle", !.old = NoCell, !.next = NoCell]
             more == [done EXCEPT !.writes = @ + 1]
  <2>2. done \in WriterRecords /\ done.pc = "idle"
    BY <1>0, Zenon DEF WriterRecords
  <2>3. wr' = [wr EXCEPT ![w] = done] \/ wr' = [wr EXCEPT ![w] = more]
    BY <1>4 DEF Publish
  <2> HIDE DEF done
  <2>4. more \in WriterRecords /\ more.pc = "idle"
    BY <2>2 DEF WriterRecords
  <2> HIDE DEF more
  <2>5. /\ wr' \in [Writers -> WriterRecords] /\ wr'[w].pc = "idle"
        /\ \A u \in Writers : u # w => wr'[u] = wr[u] /\ Me(u)' = Me(u)
    BY <2>2, <2>3, <2>4, WriterMoves
  <2>6. slot' \in Cells /\ NoUpdateLost'
    <3>1. CASE slot = wr[w].old
      <4>1. slot' = wr[w].next /\ folded' = folded \cup {Me(w)}
        BY <1>4, <3>1 DEF Publish
      <4> QED
        BY <2>1, <3>1, <4>1 DEF SnapInv, NoUpdateLost, Boxed
    <3>2. CASE slot # wr[w].old
      <4>1. slot' = slot /\ folded' = folded
        BY <1>4, <3>2 DEF Publish
      <4> QED
        BY <2>1, <4>1 DEF SnapInv, NoUpdateLost
    <3> QED
      BY <3>1, <3>2
  <2>7. ASSUME NEW u \in Writers, wr'[u].pc = "boxed" PROVE Boxed(u)'
    BY <2>1, <2>5, <2>7 DEF SnapInv, Boxed
  <2> QED
    BY <2>1, <2>5, <2>6, <2>7 DEF SnapInv
<1> QED
  BY <1>1, <1>2, <1>3, <1>4

\* No update() is lost, however many writers interleave and whichever addresses
\* the allocator reuses: the published value holds every update that returned
\* since the last store() (snapshot.hpp, publish_if in published.hpp).
THEOREM NoUpdateIsLost ==
  ASSUME Cells # {}
  PROVE  SnapSpec => []NoUpdateLost
<1>1. SnapInit => SnapInv
  <2> SUFFICES ASSUME SnapInit PROVE SnapInv
    OBVIOUS
  <2>1. slot \in Cells
    BY DEF SnapInit
  <2> QED
    BY <2>1 DEF SnapInit, SnapInv, NoUpdateLost, WriterRecords
<1>2. SnapInv /\ [SnapNext]_pvars => SnapInv'
  <2> SUFFICES ASSUME SnapInv, [SnapNext]_pvars PROVE SnapInv'
    OBVIOUS
  <2>1. CASE UNCHANGED pvars
    BY <2>1 DEF pvars, SnapInv, NoUpdateLost, Boxed, Me
  <2> QED
    BY <2>1, SnapStep DEF SnapNext
<1>3. SnapInv => NoUpdateLost
  BY DEF SnapInv
<1> QED
  BY <1>1, <1>2, <1>3, PTL DEF SnapSpec

-----------------------------------------------------------------------------
(* The file lock.                                                          *)

LockSpec == LockInit /\ [][LockNext]_fvars

Modes == {"shared", "exclusive", "none"}

Places == {"idle", "open", "asking", "napping", "held", "read", "done", "answered", "dead"}

ProcRecords ==
  [pc : Places, fn : {"none", "acquire", "try", "within"}, mode : Modes, left : Nat, nap : Nat,
   step : Nat, copy : SUBSET Procs, got : {"none", "lock", "busy", "error"}]

\* Where a process has the lock.
Held == {"held", "read", "done"}

\* The invariant: a process that has the lock is in the kernel's table with the
\* mode it asked for, the table never holds an exclusive lock beside another
\* process's, and so a writer's copy stays what is in the file.
LockInv ==
  /\ pr \in [Procs -> ProcRecords] /\ file \in SUBSET Procs
  /\ table \in SUBSET [p : Procs, mode : Modes]
  /\ \A p \in Procs : pr[p].pc \in Held => [p |-> p, mode |-> pr[p].mode] \in table
  /\ \A k, l \in table : k.p # l.p => k.mode = "shared" /\ l.mode = "shared"
  /\ \A p \in Procs : pr[p].pc = "read" /\ pr[p].mode = "exclusive" => pr[p].copy = file
  /\ wrote = file

\* What Answers() makes of a process's record.
LEMMA Answered ==
  ASSUME NEW x \in ProcRecords, NEW pc \in Places, NEW a \in {"lock", "busy", "error"}
  PROVE  LET r == [x EXCEPT !.pc = pc, !.got = a, !.nap = 0]
         IN  r \in ProcRecords /\ r.pc = pc /\ r.mode = x.mode
BY Zenon DEF ProcRecords

\* A process's record after a step that only moves it...
LEMMA Stepped ==
  ASSUME NEW x \in ProcRecords, NEW pc \in Places
  PROVE  LET r == [x EXCEPT !.pc = pc]
         IN  r \in ProcRecords /\ r.pc = pc /\ r.mode = x.mode
BY DEF ProcRecords

\* ...after one that reads the file...
LEMMA HasRead ==
  ASSUME NEW x \in ProcRecords, NEW f \in SUBSET Procs
  PROVE  LET r == [x EXCEPT !.pc = "read", !.copy = f]
         IN  r \in ProcRecords /\ r.pc = "read" /\ r.mode = x.mode /\ r.copy = f
BY Zenon DEF ProcRecords, Places

\* ...and after one that goes to sleep.
LEMMA Naps ==
  ASSUME NEW x \in ProcRecords, NEW n \in Nat, NEW k \in Nat
  PROVE  LET r == [x EXCEPT !.pc = "napping", !.nap = n, !.step = k]
         IN  r \in ProcRecords /\ r.pc = "napping"
BY Zenon DEF ProcRecords, Places

\* A lock held in exclusive mode is the only one.
LEMMA OnlyWriter ==
  ASSUME LockInv, NEW p \in Procs, NEW q \in Procs, p # q,
         pr[p].pc \in Held, pr[p].mode = "exclusive"
  PROVE  pr[q].pc \notin Held
<1>1. ASSUME pr[q].pc \in Held PROVE FALSE
  <2>1. /\ [p |-> p, mode |-> pr[p].mode] \in table
        /\ [p |-> q, mode |-> pr[q].mode] \in table
    BY <1>1 DEF LockInv
  <2> QED
    BY <2>1 DEF LockInv
<1> QED
  BY <1>1

\* One process's step leaves the others where they are.
LEMMA ProcMoves ==
  ASSUME LockInv, NEW p \in Procs, NEW r \in ProcRecords, Goes(p, r)
  PROVE  /\ pr' \in [Procs -> ProcRecords] /\ pr'[p] = r
         /\ \A q \in Procs : q # p => pr'[q] = pr[q]
BY DEF LockInv, Goes

\* A step to where the lock is not held keeps the invariant, whatever locks of
\* its own the process gives up.
LEMMA QuietStep ==
  ASSUME LockInv, NEW p \in Procs, NEW r \in ProcRecords, Goes(p, r), r.pc \notin Held,
         table' = table \/ table' = Unlocked(p), UNCHANGED <<file, wrote>>
  PROVE  LockInv'
<1>1. /\ pr' \in [Procs -> ProcRecords] /\ pr'[p] = r
      /\ \A q \in Procs : q # p => pr'[q] = pr[q]
  BY ProcMoves
<1>2. table' \in SUBSET table /\ \A l \in table : l.p # p => l \in table'
  BY DEF Unlocked
<1>3. \A q \in Procs : pr'[q].pc \in Held => [p |-> q, mode |-> pr'[q].mode] \in table'
  <2>1. ASSUME NEW q \in Procs, pr'[q].pc \in Held
        PROVE  [p |-> q, mode |-> pr'[q].mode] \in table'
    <3>1. q # p /\ pr'[q] = pr[q]
      BY <1>1, <2>1
    <3>2. [p |-> q, mode |-> pr[q].mode] \in table
      BY <2>1, <3>1 DEF LockInv
    <3> QED
      BY <1>2, <3>1, <3>2
  <2> QED
    BY <2>1
<1>4. \A q \in Procs : pr'[q].pc = "read" /\ pr'[q].mode = "exclusive" => pr'[q].copy = file'
  BY <1>1 DEF LockInv, Held
<1> QED
  BY <1>1, <1>2, <1>3, <1>4 DEF LockInv

\* Taking the lock keeps the invariant: every other process's lock was found
\* compatible.
LEMMA TakesStep ==
  ASSUME LockInv, NEW p \in Procs, Takes(p, pr[p].mode), posix_grants(p) \/ lock_region(p),
         UNCHANGED <<file, wrote>>
  PROVE  LockInv'
<1> DEFINE r == [pr[p] EXCEPT !.pc = "held", !.got = "lock", !.nap = 0]
           taken == [p |-> p, mode |-> pr[p].mode]
<1>1. /\ r \in ProcRecords /\ r.pc = "held" /\ r.mode = pr[p].mode
      /\ pr[p].mode \in Modes
  <2>1. pr[p] \in ProcRecords /\ "held" \in Places
    BY DEF LockInv, Places
  <2>2. pr[p].mode \in Modes
    BY <2>1 DEF ProcRecords
  <2> QED
    BY <2>1, <2>2, Answered, Zenon
<1>2. Goes(p, r) /\ table' = table \cup {taken}
  <2>1. (IF "lock" = "lock" THEN "held" ELSE "answered") = "held"
    OBVIOUS
  <2> QED
    BY <2>1, Zenon DEF Takes, Answers
<1> HIDE DEF r
<1>3. /\ pr' \in [Procs -> ProcRecords] /\ pr'[p] = r
      /\ \A q \in Procs : q # p => pr'[q] = pr[q]
  BY <1>1, <1>2, ProcMoves
<1>4. \A l \in table : l.p # p => pr[p].mode = "shared" /\ l.mode = "shared"
  BY DEF posix_grants, lock_region, Compatible, whole_file
<1>5. table' \in SUBSET [p : Procs, mode : Modes]
  BY <1>1, <1>2 DEF LockInv
<1>6. \A k, l \in table' : k.p # l.p => k.mode = "shared" /\ l.mode = "shared"
  BY <1>2, <1>4 DEF LockInv
<1>7. \A q \in Procs : pr'[q].pc \in Held => [p |-> q, mode |-> pr'[q].mode] \in table'
  BY <1>1, <1>2, <1>3 DEF LockInv
<1>8. \A q \in Procs : pr'[q].pc = "read" /\ pr'[q].mode = "exclusive" => pr'[q].copy = file'
  BY <1>1, <1>3 DEF LockInv
<1> QED
  BY <1>3, <1>5, <1>6, <1>7, <1>8 DEF LockInv

\* A reader or a writer looks at the file.
LEMMA ReadsStep ==
  ASSUME LockInv, NEW p \in Procs, Reads(p)
  PROVE  LockInv'
<1> DEFINE r == [pr[p] EXCEPT !.pc = "read", !.copy = file]
<1>1. /\ pr[p].pc = "held" /\ Goes(p, r) /\ UNCHANGED <<table, file, wrote>>
      /\ pr[p] \in ProcRecords /\ file \in SUBSET Procs
  BY DEF Reads, LockInv
<1>2. r \in ProcRecords /\ r.pc = "read" /\ r.mode = pr[p].mode /\ r.copy = file
  BY <1>1, HasRead, Zenon
<1> HIDE DEF r
<1>3. /\ pr' \in [Procs -> ProcRecords] /\ pr'[p] = r
      /\ \A q \in Procs : q # p => pr'[q] = pr[q]
  BY <1>1, <1>2, ProcMoves
<1>4. \A q \in Procs : pr'[q].pc \in Held => [p |-> q, mode |-> pr'[q].mode] \in table'
  BY <1>1, <1>2, <1>3 DEF LockInv, Held
<1>5. \A q \in Procs : pr'[q].pc = "read" /\ pr'[q].mode = "exclusive" => pr'[q].copy = file'
  BY <1>1, <1>2, <1>3 DEF LockInv
<1> QED
  BY <1>1, <1>3, <1>4, <1>5 DEF LockInv

\* A writer writes: its copy was the file, and nobody else has one that is.
LEMMA WritesStep ==
  ASSUME LockInv, NEW p \in Procs, Writes(p)
  PROVE  LockInv'
<1> DEFINE r == [pr[p] EXCEPT !.pc = "done"]
<1>1. /\ pr[p].pc = "read" /\ Goes(p, r) /\ table' = table
      /\ pr[p] \in ProcRecords /\ "done" \in Places
  BY DEF Writes, LockInv, Places
<1>2. r \in ProcRecords /\ r.pc = "done" /\ r.mode = pr[p].mode
  BY <1>1, Stepped
<1> HIDE DEF r
<1>3. /\ pr' \in [Procs -> ProcRecords] /\ pr'[p] = r
      /\ \A q \in Procs : q # p => pr'[q] = pr[q]
  BY <1>1, <1>2, ProcMoves
<1>4. \A q \in Procs : pr'[q].pc \in Held => [p |-> q, mode |-> pr'[q].mode] \in table'
  BY <1>1, <1>2, <1>3 DEF LockInv, Held
<1>5. /\ wrote' = file' /\ file' \in SUBSET Procs
      /\ \A q \in Procs : pr'[q].pc = "read" /\ pr'[q].mode = "exclusive" => pr'[q].copy = file'
  <2>1. CASE pr[p].mode = "exclusive"
    <3>1. file' = file \cup {p} /\ wrote' = file \cup {p}
      BY <1>1, <2>1 DEF Writes, LockInv
    <3>2. \A q \in Procs : q # p => pr[q].pc # "read"
      BY <1>1, <2>1, OnlyWriter DEF Held
    <3> QED
      BY <1>2, <1>3, <3>1, <3>2 DEF LockInv
  <2>2. CASE pr[p].mode # "exclusive"
    <3>1. file' = file /\ wrote' = wrote
      BY <2>2 DEF Writes
    <3> QED
      BY <1>2, <1>3, <3>1 DEF LockInv
  <2> QED
    BY <2>1, <2>2
<1> QED
  BY <1>1, <1>3, <1>4, <1>5 DEF LockInv

\* Time passing changes nobody's place, mode or copy.
LEMMA TickStep ==
  ASSUME LockInv, Tick
  PROVE  LockInv'
<1> DEFINE r(x) == [x EXCEPT !.nap = IF @ > 0 THEN @ - 1 ELSE 0,
                             !.left = IF @ > 0 THEN @ - 1 ELSE 0]
<1>1. ASSUME NEW x \in ProcRecords
      PROVE  r(x) \in ProcRecords /\ r(x).pc = x.pc /\ r(x).mode = x.mode /\ r(x).copy = x.copy
  <2>1. \A n \in Nat : (IF n > 0 THEN n - 1 ELSE 0) \in Nat
    OBVIOUS
  <2> QED
    BY <2>1, Zenon DEF ProcRecords
<1>2. pr' = [p \in Procs |-> r(pr[p])] /\ UNCHANGED <<table, file, wrote>>
  BY Zenon DEF Tick
<1> HIDE DEF r
<1>3. /\ pr' \in [Procs -> ProcRecords]
      /\ \A p \in Procs : pr'[p].pc = pr[p].pc /\ pr'[p].mode = pr[p].mode /\ pr'[p].copy = pr[p].copy
  BY <1>1, <1>2 DEF LockInv
<1> QED
  BY <1>2, <1>3 DEF LockInv

\* The calls a program can make, and the backoff step: the constants of the code.
LockCalls ==
  /\ Calls \in SUBSET [fn : {"acquire", "try", "within"}, mode : {"shared", "exclusive"}, limit : Nat]
  /\ MaxStep \in Nat

\* An answer other than the lock is a quiet step.
LEMMA AnswersStep ==
  ASSUME LockInv, NEW p \in Procs, NEW a \in {"busy", "error"}, Answers(p, a),
         UNCHANGED <<table, file, wrote>>
  PROVE  LockInv'
<1> DEFINE r == [pr[p] EXCEPT !.pc = "answered", !.got = a, !.nap = 0]
<1>1. pr[p] \in ProcRecords /\ "answered" \in Places /\ a \in {"lock", "busy", "error"}
  BY DEF LockInv, Places
<1>2. Goes(p, r)
  <2>1. (IF a = "lock" THEN "held" ELSE "answered") = "answered"
    OBVIOUS
  <2> QED
    BY <2>1, Zenon DEF Answers
<1>3. r \in ProcRecords /\ r.pc = "answered"
  <2>1. \A x \in ProcRecords : \A y \in {"lock", "busy", "error"} :
          [x EXCEPT !.pc = "answered", !.got = y, !.nap = 0] \in ProcRecords
    BY <1>1, Answered, Zenon
  <2>2. r \in ProcRecords
    BY <1>1, <2>1, Zenon
  <2>3. r.pc = "answered"
    BY <1>1 DEF ProcRecords
  <2> QED
    BY <2>2, <2>3
<1> HIDE DEF r
<1> QED
  BY <1>2, <1>3, QuietStep DEF Held

\* Finding the lock taken is one: give up, or sleep.
LEMMA BusyStep ==
  ASSUME LockInv, LockCalls, NEW p \in Procs, Busy(p), UNCHANGED <<file, wrote>>
  PROVE  LockInv'
<1> DEFINE k == IF 2 * pr[p].step < MaxStep THEN 2 * pr[p].step ELSE MaxStep
           r == [pr[p] EXCEPT !.pc = "napping", !.nap = Nap(pr[p]), !.step = k]
<1>1. table' = table /\ (Answers(p, "busy") \/ Goes(p, r))
  BY Zenon DEF Busy
<1>2. pr[p] \in ProcRecords /\ pr[p].step \in Nat /\ pr[p].left \in Nat
  BY DEF LockInv, ProcRecords
<1>3. Nap(pr[p]) \in Nat /\ k \in Nat
  <2>1. \A m \in Nat : 2 * m \in Nat
    OBVIOUS
  <2>2. Nap(pr[p]) \in Nat
    BY <1>2 DEF Nap
  <2>3. MaxStep \in Nat /\ 2 * pr[p].step \in Nat
    BY <1>2, <2>1 DEF LockCalls
  <2> QED
    BY <2>2, <2>3, Zenon
<1> HIDE DEF k
<1>4. r \in ProcRecords /\ r.pc = "napping"
  BY <1>2, <1>3, Naps, Zenon
<1> HIDE DEF r
<1> QED
  BY <1>1, <1>4, AnswersStep, QuietStep DEF Held

\* One round of acquire() or try_acquire().
LEMMA AskStep ==
  ASSUME LockInv, LockCalls, Backend # "sim", NEW p \in Procs, Acquire(p) \/ TryAcquire(p)
  PROVE  LockInv'
<1>1. UNCHANGED <<file, wrote>>
  BY DEF Acquire, TryAcquire
<1>2. \/ Takes(p, pr[p].mode) /\ (posix_grants(p) \/ lock_region(p))
      \/ Refused(p) \/ Busy(p)
  BY DEF Acquire, TryAcquire, posix_acquire, windows_acquire, posix_try_acquire,
         windows_try_acquire, whole_file
<1>3. CASE Refused(p)
  BY <1>1, <1>3, AnswersStep DEF Refused
<1>4. CASE Busy(p)
  BY <1>1, <1>4, BusyStep
<1> QED
  BY <1>1, <1>2, <1>3, <1>4, TakesStep

\* Every step of a process keeps the invariant.
LEMMA LockStep ==
  ASSUME LockInv, LockCalls, Backend # "sim", NEW p \in Procs,
         \/ InCall(p) \/ Reads(p) \/ Writes(p) \/ Release(p) \/ Dies(p)
         \/ \E c \in Calls : Call(p, c)
  PROVE  LockInv'
<1>1. pr[p] \in ProcRecords /\ Entered \in Places /\ Entered \notin Held /\ "asking" \in Places
  BY DEF LockInv, Entered, Places, Held
<1>2. CASE Open(p)
  <2> DEFINE r == [pr[p] EXCEPT !.pc = "asking"]
  <2>1. (Goes(p, r) /\ table' = table) \/ Refused(p)
    BY <1>2 DEF Open
  <2>2. r \in ProcRecords /\ r.pc = "asking"
    BY <1>1, Stepped
  <2> HIDE DEF r
  <2>3. UNCHANGED <<file, wrote>>
    BY <1>2 DEF Open
  <2>4. CASE Refused(p)
    BY <2>3, <2>4, AnswersStep DEF Refused
  <2> QED
    BY <2>1, <2>2, <2>3, <2>4, QuietStep DEF Held
<1>3. CASE Wakes(p)
  <2> DEFINE r == [pr[p] EXCEPT !.pc = Entered]
  <2>1. Goes(p, r) /\ UNCHANGED <<table, file, wrote>>
    BY <1>3 DEF Wakes
  <2>2. r \in ProcRecords /\ r.pc = Entered
    BY <1>1, Stepped
  <2> HIDE DEF r
  <2> QED
    BY <1>1, <2>1, <2>2, QuietStep
<1>4. Blank \in ProcRecords /\ Blank.pc = "idle"
  BY DEF Blank, ProcRecords, Places, Modes
<1>5. CASE Release(p)
  <2>1. Goes(p, Blank) /\ table' = Unlocked(p) /\ UNCHANGED <<file, wrote>>
    BY <1>5 DEF Release, posix_release, windows_release
  <2> QED
    BY <1>4, <2>1, QuietStep DEF Held
<1>6. CASE Dies(p)
  <2> DEFINE r == [Blank EXCEPT !.pc = "dead"]
  <2>1. Goes(p, r) /\ table' = Unlocked(p) /\ UNCHANGED <<file, wrote>>
    BY <1>6 DEF Dies
  <2>2. r \in ProcRecords /\ r.pc = "dead"
    BY <1>4, Stepped, Zenon DEF Places
  <2> HIDE DEF r
  <2> QED
    BY <2>1, <2>2, QuietStep DEF Held
<1>7. ASSUME NEW c \in Calls, Call(p, c) PROVE LockInv'
  <2> DEFINE r == [Blank EXCEPT !.pc = Entered, !.fn = c.fn, !.mode = c.mode, !.left = c.limit]
  <2>1. Goes(p, r) /\ UNCHANGED <<table, file, wrote>>
    BY <1>7, Zenon DEF Call
  <2>2. /\ c.fn \in {"acquire", "try", "within"} /\ c.mode \in {"shared", "exclusive"}
        /\ c.limit \in Nat
    BY DEF LockCalls
  <2>3. r \in ProcRecords /\ r.pc = Entered
    BY <1>1, <1>4, <2>2, Zenon DEF ProcRecords, Modes
  <2> HIDE DEF r
  <2> QED
    BY <1>1, <2>1, <2>3, QuietStep
<1> QED
  BY <1>2, <1>3, <1>5, <1>6, <1>7, AskStep, ReadsStep, WritesStep DEF InCall

\* No update of a locked file is lost and nobody reads it beside a writer, for
\* any number of copies of the program, whatever they ask of the lock and
\* wherever one of them dies (src/platform/*/file_lock.cpp).
THEOREM LockedUpdatesAreKept ==
  ASSUME LockCalls
  PROVE  LockSpec => []UpdatesKept
<1>1. CASE Backend = "sim"
  <2>1. UpdatesKept
    BY <1>1 DEF UpdatesKept
  <2> QED
    BY <2>1, PTL
<1>2. CASE Backend # "sim"
  <2>1. LockInit => LockInv
    <3>1. ASSUME LockInit PROVE LockInv
      <4>1. Blank \in ProcRecords /\ Blank.pc = "idle"
        BY DEF Blank, ProcRecords, Places, Modes
      <4>2. pr \in [Procs -> ProcRecords] /\ \A p \in Procs : pr[p].pc = "idle"
        BY <3>1, <4>1 DEF LockInit
      <4> QED
        BY <3>1, <4>2 DEF LockInit, LockInv, Held
    <3> QED
      BY <3>1
  <2>2. LockInv /\ [LockNext]_fvars => LockInv'
    <3>1. ASSUME LockInv, LockNext PROVE LockInv'
      BY <1>2, <3>1, LockStep, TickStep DEF LockNext, Scripted
    <3>2. ASSUME LockInv, UNCHANGED fvars PROVE LockInv'
      BY <3>2 DEF fvars, LockInv
    <3> QED
      BY <3>1, <3>2
  <2>3. LockInv => UpdatesKept
    <3>1. ASSUME LockInv PROVE UpdatesKept
      BY <3>1, OnlyWriter DEF LockInv, UpdatesKept, Held
    <3> QED
      BY <3>1
  <2> QED
    BY <2>1, <2>2, <2>3, PTL DEF LockSpec
<1> QED
  BY <1>1, <1>2

-----------------------------------------------------------------------------
(* The owning handle.                                                      *)

HandleSpec == HandleInit /\ [][HandleNext]_ovars

\* Who has a number: an owner, or the caller.
Owned(n) == \E o \in Handles : h[o] = n
Raw(n) == <<n, openings[n]>> \in raw

\* The invariant says ClosedOnce number by number: what an owner or the caller
\* has is open, is the opening it was given, and is nobody else's.
HandleInv ==
  /\ h \in [Handles -> Numbers \cup {Invalid}] /\ mine \in [Handles -> Nat]
  /\ openNow \in SUBSET Numbers /\ openings \in [Numbers -> Nat]
  /\ raw \in SUBSET (Numbers \X Nat)
  /\ \A o \in Handles : h[o] # Invalid => h[o] \in openNow /\ mine[o] = openings[h[o]]
  /\ \A n \in Numbers : \A g \in Nat : <<n, g>> \in raw => n \in openNow /\ g = openings[n]
  /\ \A o, p \in Handles : o # p /\ h[o] # Invalid => h[o] # h[p]
  /\ \A o \in Handles : h[o] # Invalid => ~Raw(h[o])
  /\ \A n \in openNow : Owned(n) \/ Raw(n)

\* What was released to the caller is a number and the opening it is of
\* (owned_handle::release, handle.hpp).
LEMMA RawPairs ==
  ASSUME raw \in SUBSET (Numbers \X Nat)
  PROVE  \A x \in raw : x[1] \in Numbers /\ x[2] \in Nat /\ x = <<x[1], x[2]>>
<1>1. \A x \in Numbers \X Nat : x[1] \in Numbers /\ x[2] \in Nat /\ x = <<x[1], x[2]>>
  OBVIOUS
<1> QED
  BY <1>1, Zenon

\* The invariant is what ClosedOnce says.
LEMMA HandleInvSays ==
  ASSUME Invalid \notin Numbers, HandleInv
  PROVE  ClosedOnce
<1>1. \A x \in raw : x = <<x[1], x[2]>> /\ x[1] \in Numbers /\ x[2] \in Nat
  BY RawPairs, Zenon DEF HandleInv
<1>2. \A x \in raw : x[1] \in openNow /\ openings[x[1]] = x[2]
  BY <1>1 DEF HandleInv
<1>3. \A o \in Handles : is_valid(h[o]) => h[o] \in openNow /\ openings[h[o]] = mine[o]
  BY DEF HandleInv, is_valid
<1>4. \A x \in Holdings : x[1] \in openNow /\ openings[x[1]] = x[2]
  BY <1>2, <1>3 DEF Holdings
<1>5. \A o, p \in Handles : o # p /\ is_valid(h[o]) => h[o] # h[p] /\ <<h[o], mine[o]>> \notin raw
  BY <1>3 DEF HandleInv, is_valid, Raw
<1>6. ASSUME NEW n \in openNow PROVE \E x \in Holdings : x[1] = n
  <2>1. CASE Raw(n)
    BY <2>1 DEF Raw, Holdings
  <2>2. ASSUME NEW o \in Handles, h[o] = n PROVE \E x \in Holdings : x[1] = n
    <3>1. is_valid(h[o])
      BY <2>2 DEF HandleInv, is_valid
    <3>2. <<h[o], mine[o]>> \in Holdings
      BY <3>1 DEF Holdings
    <3> QED
      BY <2>2, <3>2
  <2> QED
    BY <2>1, <2>2 DEF HandleInv, Owned
<1>7. openNow = {x[1] : x \in Holdings}
  BY <1>4, <1>6
<1> QED
  BY <1>4, <1>5, <1>7 DEF ClosedOnce

\* Opening a number, for an owner that had nothing: nobody can have had it.
LEMMA OpenStep ==
  ASSUME Invalid \notin Numbers, HandleInv, NEW o \in Handles, NEW n \in Numbers,
         ~is_valid(h[o]), Opens(n), Adopt(o, n, openings[n] + 1), raw' = raw
  PROVE  HandleInv'
<1>1. /\ h[o] = Invalid /\ n \notin openNow /\ openNow' = openNow \cup {n}
      /\ openings[n] + 1 \in Nat
      /\ h' \in [Handles -> Numbers \cup {Invalid}] /\ mine' \in [Handles -> Nat]
      /\ openings' \in [Numbers -> Nat] /\ openNow' \in SUBSET Numbers
  BY DEF HandleInv, Opens, Adopt, is_valid
<1>2. /\ h'[o] = n /\ mine'[o] = openings'[n]
      /\ \A p \in Handles : p # o => h'[p] = h[p] /\ mine'[p] = mine[p]
      /\ \A m \in Numbers : m # n => openings'[m] = openings[m]
  BY DEF HandleInv, Opens, Adopt
<1>3. /\ \A p \in Handles : h[p] # n
      /\ \A g \in Nat : <<n, g>> \notin raw
  BY <1>1 DEF HandleInv
<1>4. \A p \in Handles : h'[p] # Invalid => h'[p] \in openNow' /\ mine'[p] = openings'[h'[p]]
  BY <1>1, <1>2, <1>3 DEF HandleInv
<1>5. \A m \in Numbers : \A g \in Nat : <<m, g>> \in raw' => m \in openNow' /\ g = openings'[m]
  BY <1>1, <1>2, <1>3 DEF HandleInv
<1>6. \A p, q \in Handles : p # q /\ h'[p] # Invalid => h'[p] # h'[q]
  BY <1>2, <1>3 DEF HandleInv
<1>7. \A p \in Handles : h'[p] # Invalid => <<h'[p], openings'[h'[p]]>> \notin raw'
  <2>1. openings'[n] \in Nat
    BY <1>1
  <2>2. ASSUME NEW p \in Handles, p # o, h'[p] # Invalid
        PROVE  <<h'[p], openings'[h'[p]]>> \notin raw'
    BY <1>2, <1>3, <2>2 DEF HandleInv, Raw
  <2> QED
    BY <1>2, <1>3, <2>1, <2>2
<1>8. \A m \in openNow' : (\E p \in Handles : h'[p] = m) \/ <<m, openings'[m]>> \in raw'
  <2>1. ASSUME NEW m \in openNow, m # n
        PROVE  (\E p \in Handles : h'[p] = m) \/ <<m, openings'[m]>> \in raw'
    <3>1. m \in Numbers /\ m # Invalid /\ (Owned(m) \/ Raw(m))
      BY DEF HandleInv
    <3>2. CASE Raw(m)
      BY <1>2, <2>1, <3>1, <3>2 DEF Raw
    <3>3. ASSUME NEW p \in Handles, h[p] = m PROVE h'[p] = m
      BY <1>1, <1>2, <3>1, <3>3
    <3> QED
      BY <3>1, <3>2, <3>3 DEF Owned
  <2> QED
    BY <1>1, <1>2, <2>1
<1> QED
  BY <1>1, <1>4, <1>5, <1>6, <1>7, <1>8 DEF HandleInv, Raw, Owned

\* Closing what an owner has leaves every other handle as it is: nobody else has
\* that number.
LEMMA CloseStep ==
  ASSUME Invalid \notin Numbers, HandleInv, NEW o \in Handles, reset(o)
  PROVE  HandleInv'
<1>1. /\ h' \in [Handles -> Numbers \cup {Invalid}] /\ mine' \in [Handles -> Nat]
      /\ h'[o] = Invalid /\ \A p \in Handles : p # o => h'[p] = h[p] /\ mine'[p] = mine[p]
      /\ UNCHANGED <<openings, raw>>
  BY DEF HandleInv, reset
<1>2. openNow' = openNow \ {h[o]}
  <2>1. CASE h[o] = Invalid
    BY <2>1 DEF reset, Closes, is_valid, HandleInv
  <2>2. CASE h[o] # Invalid
    BY <2>2 DEF reset, Closes, is_valid, close_handle
  <2> QED
    BY <2>1, <2>2
<1>3. \A p \in Handles : h'[p] # Invalid => h'[p] \in openNow' /\ mine'[p] = openings'[h'[p]]
  BY <1>1, <1>2 DEF HandleInv
<1>4. \A m \in Numbers : \A g \in Nat : <<m, g>> \in raw' => m \in openNow' /\ g = openings'[m]
  BY <1>1, <1>2 DEF HandleInv, Raw
<1>5. \A p, q \in Handles : p # q /\ h'[p] # Invalid => h'[p] # h'[q]
  BY <1>1 DEF HandleInv
<1>6. \A p \in Handles : h'[p] # Invalid => <<h'[p], openings'[h'[p]]>> \notin raw'
  BY <1>1 DEF HandleInv, Raw
<1>7. \A m \in openNow' : Owned(m)' \/ Raw(m)'
  <2>1. ASSUME NEW m \in openNow' PROVE Owned(m)' \/ Raw(m)'
    <3>1. m \in openNow /\ m # h[o] /\ (Owned(m) \/ Raw(m))
      BY <1>2 DEF HandleInv
    <3> QED
      BY <1>1, <3>1 DEF Owned, Raw
  <2> QED
    BY <2>1
<1> QED
  BY <1>1, <1>2, <1>3, <1>4, <1>5, <1>6, <1>7 DEF HandleInv, Raw

\* A move closes what the target had and hands over what the source had.
LEMMA MoveStep ==
  ASSUME Invalid \notin Numbers, HandleInv, NEW a \in Handles, NEW b \in Handles, a # b,
         Closes(a), Moved(a, b), UNCHANGED <<openings, raw>>
  PROVE  HandleInv'
<1>1. /\ h' \in [Handles -> Numbers \cup {Invalid}] /\ mine' \in [Handles -> Nat]
      /\ h'[a] = h[b] /\ mine'[a] = mine[b] /\ h'[b] = Invalid
      /\ \A p \in Handles : p # a /\ p # b => h'[p] = h[p] /\ mine'[p] = mine[p]
  BY DEF HandleInv, Moved
<1>2. openNow' = openNow \ {h[a]}
  <2>1. CASE h[a] = Invalid
    BY <2>1 DEF Closes, is_valid, HandleInv
  <2>2. CASE h[a] # Invalid
    BY <2>2 DEF Closes, is_valid, close_handle
  <2> QED
    BY <2>1, <2>2
<1>3. \A p \in Handles : h'[p] # Invalid =>
        \E q \in Handles : q # a /\ h'[p] = h[q] /\ mine'[p] = mine[q] /\ (p = a <=> q = b)
                        /\ (p # a => q = p)
  BY <1>1
<1>4. \A p \in Handles : h'[p] # Invalid => h'[p] \in openNow' /\ mine'[p] = openings'[h'[p]]
  BY <1>2, <1>3 DEF HandleInv
<1>5. \A m \in Numbers : \A g \in Nat : <<m, g>> \in raw' => m \in openNow' /\ g = openings'[m]
  BY <1>2 DEF HandleInv, Raw
<1>6. \A p, q \in Handles : p # q /\ h'[p] # Invalid => h'[p] # h'[q]
  BY <1>1 DEF HandleInv
<1>7. \A p \in Handles : h'[p] # Invalid => <<h'[p], openings'[h'[p]]>> \notin raw'
  BY <1>3 DEF HandleInv, Raw
<1>8. \A m \in openNow' : Owned(m)' \/ Raw(m)'
  <2>1. ASSUME NEW m \in openNow' PROVE Owned(m)' \/ Raw(m)'
    <3>1. m \in openNow /\ m # h[a] /\ (Owned(m) \/ Raw(m))
      BY <1>2 DEF HandleInv
    <3>2. CASE Raw(m)
      BY <3>2 DEF Raw
    <3>3. ASSUME NEW p \in Handles, h[p] = m PROVE \E q \in Handles : h'[q] = m
      BY <1>1, <3>1, <3>3
    <3> QED
      BY <3>1, <3>2, <3>3 DEF Owned
  <2> QED
    BY <2>1
<1> QED
  BY <1>1, <1>2, <1>4, <1>5, <1>6, <1>7, <1>8, Zenon DEF HandleInv, Raw

\* release() hands a number to the caller...
LEMMA ReleaseStep ==
  ASSUME Invalid \notin Numbers, HandleInv, NEW o \in Handles, release(o)
  PROVE  HandleInv'
<1>1. /\ h' \in [Handles -> Numbers \cup {Invalid}] /\ mine' \in [Handles -> Nat]
      /\ h'[o] = Invalid /\ \A p \in Handles : p # o => h'[p] = h[p] /\ mine'[p] = mine[p]
      /\ UNCHANGED <<openNow, openings>>
  BY DEF HandleInv, release
<1>2. /\ h[o] # Invalid /\ h[o] \in Numbers /\ h[o] \in openNow /\ mine[o] = openings[h[o]]
      /\ raw' = raw \cup {<<h[o], openings[h[o]]>>} /\ openings[h[o]] \in Nat
  BY DEF HandleInv, release, is_valid
<1>3. \A p \in Handles : h'[p] # Invalid => h'[p] \in openNow' /\ mine'[p] = openings'[h'[p]]
  BY <1>1 DEF HandleInv
<1>4. \A m \in Numbers : \A g \in Nat : <<m, g>> \in raw' => m \in openNow' /\ g = openings'[m]
  BY <1>1, <1>2 DEF HandleInv
<1>5. \A p, q \in Handles : p # q /\ h'[p] # Invalid => h'[p] # h'[q]
  BY <1>1 DEF HandleInv
<1>6. \A p \in Handles : h'[p] # Invalid => <<h'[p], openings'[h'[p]]>> \notin raw'
  BY <1>1, <1>2 DEF HandleInv, Raw
<1>7. \A m \in openNow' : Owned(m)' \/ Raw(m)'
  <2>1. ASSUME NEW m \in openNow PROVE Owned(m)' \/ Raw(m)'
    <3>1. CASE m = h[o]
      BY <1>1, <1>2, <3>1 DEF Raw
    <3>2. CASE m # h[o]
      BY <1>1, <1>2, <3>2 DEF HandleInv, Owned, Raw
    <3> QED
      BY <3>1, <3>2
  <2> QED
    BY <1>1, <2>1
<1>8. /\ openNow' \in SUBSET Numbers /\ openings' \in [Numbers -> Nat]
      /\ raw' \in SUBSET (Numbers \X Nat)
  BY <1>1, <1>2 DEF HandleInv
<1> QED
  BY <1>1, <1>3, <1>4, <1>5, <1>6, <1>7, <1>8, Zenon DEF HandleInv, Raw

\* ...who closes it...
LEMMA CloseRawStep ==
  ASSUME Invalid \notin Numbers, HandleInv, CloseRaw
  PROVE  HandleInv'
<1>1. PICK n \in Numbers, g \in Nat : /\ <<n, g>> \in raw /\ raw' = raw \ {<<n, g>>}
                                     /\ openNow' = openNow \ {n}
  <2>1. PICK x \in raw : openNow' = openNow \ {x[1]} /\ raw' = raw \ {x}
    BY DEF CloseRaw, close_handle
  <2>2. x[1] \in Numbers /\ x[2] \in Nat /\ x = <<x[1], x[2]>>
    BY RawPairs, Zenon DEF HandleInv
  <2> QED
    BY <2>1, <2>2, Zenon
<1>2. UNCHANGED <<h, mine, openings>> /\ g = openings[n]
  BY <1>1 DEF HandleInv, CloseRaw
<1>3. \A p \in Handles : h[p] # n
  <2>1. Raw(n) /\ n # Invalid
    BY <1>1, <1>2, Zenon DEF Raw
  <2>2. \A p \in Handles : h[p] # Invalid => ~Raw(h[p])
    BY Zenon DEF HandleInv
  <2>3. ASSUME NEW p \in Handles, h[p] = n PROVE FALSE
    <3>1. h[p] # Invalid /\ Raw(h[p])
      BY <2>1, <2>3
    <3> QED
      BY <2>2, <3>1
  <2> QED
    BY <2>3, Zenon
<1>4. \A m \in Numbers : \A k \in Nat : <<m, k>> \in raw' => m \in openNow' /\ k = openings'[m]
  BY <1>1, <1>2 DEF HandleInv
<1>5. \A m \in openNow' : Owned(m)' \/ Raw(m)'
  BY <1>1, <1>2 DEF HandleInv, Owned, Raw
<1> QED
  BY <1>1, <1>2, <1>3, <1>4, <1>5 DEF HandleInv, Raw

\* ...or gives it to an owner again.
LEMMA AdoptStep ==
  ASSUME Invalid \notin Numbers, HandleInv, NEW o \in Handles, AdoptRaw(o)
  PROVE  HandleInv'
<1>1. PICK n \in Numbers, g \in Nat : <<n, g>> \in raw /\ raw' = raw \ {<<n, g>>} /\ Adopt(o, n, g)
  <2>1. PICK x \in raw : Adopt(o, x[1], x[2]) /\ raw' = raw \ {x}
    BY DEF AdoptRaw
  <2>2. x[1] \in Numbers /\ x[2] \in Nat /\ x = <<x[1], x[2]>>
    BY RawPairs, Zenon DEF HandleInv
  <2> QED
    BY <2>1, <2>2, Zenon
<1>2. /\ UNCHANGED <<openNow, openings>> /\ g = openings[n] /\ n \in openNow /\ h[o] = Invalid
      /\ h' \in [Handles -> Numbers \cup {Invalid}] /\ mine' \in [Handles -> Nat]
      /\ h'[o] = n /\ mine'[o] = g
      /\ \A p \in Handles : p # o => h'[p] = h[p] /\ mine'[p] = mine[p]
  BY <1>1 DEF HandleInv, AdoptRaw, Adopt, is_valid
<1>3. \A p \in Handles : h[p] # n
  <2>1. Raw(n) /\ n # Invalid
    BY <1>1, <1>2, Zenon DEF Raw
  <2>2. \A p \in Handles : h[p] # Invalid => ~Raw(h[p])
    BY Zenon DEF HandleInv
  <2>3. ASSUME NEW p \in Handles, h[p] = n PROVE FALSE
    <3>1. h[p] # Invalid /\ Raw(h[p])
      BY <2>1, <2>3
    <3> QED
      BY <2>2, <3>1
  <2> QED
    BY <2>3, Zenon
<1>4. \A m \in Numbers : \A k \in Nat : <<m, k>> \in raw' => m \in openNow' /\ k = openings'[m]
  BY <1>1, <1>2 DEF HandleInv
<1>5. \A p \in Handles : h'[p] # Invalid => <<h'[p], openings'[h'[p]]>> \notin raw'
  BY <1>1, <1>2 DEF HandleInv, Raw
<1>6. \A m \in openNow' : Owned(m)' \/ Raw(m)'
  <2>1. ASSUME NEW m \in openNow PROVE Owned(m)' \/ Raw(m)'
    <3>1. CASE m = n
      BY <1>2, <3>1 DEF Owned
    <3>2. CASE m # n
      <4>1. CASE Raw(m)
        BY <1>1, <1>2, <3>2, <4>1 DEF Raw
      <4>2. ASSUME NEW p \in Handles, h[p] = m PROVE h'[p] = m
        BY <1>2, <4>2 DEF HandleInv
      <4> QED
        BY <4>1, <4>2 DEF HandleInv, Owned
    <3> QED
      BY <3>1, <3>2
  <2> QED
    BY <1>2, <2>1
<1>7. \A p, q \in Handles : p # q /\ h'[p] # Invalid => h'[p] # h'[q]
  BY <1>2, <1>3 DEF HandleInv
<1>8. \A p \in Handles : h'[p] # Invalid => h'[p] \in openNow' /\ mine'[p] = openings'[h'[p]]
  BY <1>2 DEF HandleInv
<1> QED
  BY <1>1, <1>2, <1>4, <1>5, <1>6, <1>7, <1>8, Zenon DEF HandleInv, Raw

\* However owned handles are moved, assigned, duplicated, released, adopted and
\* destroyed, each is closed exactly once, by the one that has it: nothing an
\* owner would close is somebody else's, and nothing is left open that nobody
\* has (platform/handle.hpp).  For any number of owners and handles.
THEOREM HandlesAreClosedOnce ==
  ASSUME Invalid \notin Numbers
  PROVE  HandleSpec => []ClosedOnce
<1>1. HandleInit => HandleInv
  BY DEF HandleInit, HandleInv
<1>2. HandleInv /\ [HandleNext]_ovars => HandleInv'
  <2>1. ASSUME HandleInv, UNCHANGED ovars PROVE HandleInv'
    BY <2>1 DEF ovars, HandleInv, Owned, Raw
  <2>2. ASSUME HandleInv, NEW o \in Handles, OpenAndAdopt(o) PROVE HandleInv'
    BY <2>2, OpenStep DEF OpenAndAdopt
  <2>3. ASSUME HandleInv, NEW o \in Handles, NEW p \in Handles, duplicate(o, p) PROVE HandleInv'
    <3>1. \/ UNCHANGED ovars
          \/ /\ ~is_valid(h[o]) /\ raw' = raw
             /\ \E n \in Numbers : Opens(n) /\ Adopt(o, n, openings[n] + 1)
      BY <2>3 DEF duplicate, duplicate_handle
    <3> QED
      BY <2>1, <2>3, <3>1, OpenStep
  <2>4. ASSUME HandleInv, NEW a \in Handles, NEW b \in Handles, MoveConstruct(a, b) PROVE HandleInv'
    <3>1. a # b /\ Closes(a) /\ Moved(a, b) /\ UNCHANGED <<openings, raw>>
      BY <2>4 DEF MoveConstruct, Closes
    <3> QED
      BY <2>4, <3>1, MoveStep
  <2>5. ASSUME HandleInv, NEW a \in Handles, NEW b \in Handles, MoveAssign(a, b) PROVE HandleInv'
    <3>1. UNCHANGED ovars \/ (a # b /\ Closes(a) /\ Moved(a, b) /\ UNCHANGED <<openings, raw>>)
      BY <2>5 DEF MoveAssign
    <3> QED
      BY <2>1, <2>5, <3>1, MoveStep
  <2>6. ASSUME HandleInv, HandleNext PROVE HandleInv'
    BY <2>2, <2>3, <2>4, <2>5, <2>6, CloseStep, ReleaseStep, AdoptStep, CloseRawStep DEF HandleNext
  <2> QED
    BY <2>1, <2>6
<1> QED
  BY <1>1, <1>2, HandleInvSays, PTL DEF HandleSpec
=============================================================================
