---------------------------- MODULE SignalsProofs ----------------------------
(***************************************************************************)
(* Signal sources on POSIX (platform/posix/signals.cpp), for any number of *)
(* slots, signals, sources and handlers that run at once.                  *)
(***************************************************************************)
EXTENDS Signals, FiniteSetTheorems, NaturalsInduction, WellFoundedInduction, TLAPS

SigSpec == SigInit /\ [][SigNext]_sgvars

\* The constants of the posix build: kSlots slots, found by their index, and
\* dispositions that are not this handler's before the first install.
PosixConstants ==
  /\ ~Console
  /\ Slots \subseteq Nat /\ 1 \in Slots /\ 0 \notin Slots
  /\ Sigs # {} /\ IsFiniteSet(Handlers) /\ IsFiniteSet(Clients)
  /\ Wanted \in [Clients -> SUBSET Sigs]
  /\ Inherited = [s \in Sigs |-> Inherited[s]] /\ \A s \in Sigs : Inherited[s] # "ours"

SlotRecords == [fd : Nat, wants : SUBSET Sigs, pending : SUBSET Sigs, own : Nat, used : BOOLEAN]
Runs == [pc : {"idle", "entered", "wants", "load", "bit", "write", "leaving"},
         sig : Sigs, at : Nat, fd : Nat]
Phases == {"none", "failed", "adding", "wants", "fd", "live", "taking", "unpublish", "restore",
           "spin", "close", "unlock"}
Sources == [pc : Phases, slot : Nat, got : SUBSET Sigs]

SigTypes ==
  /\ slot \in [Slots -> SlotRecords] /\ h \in [Handlers -> Runs] /\ c \in [Clients -> Sources]
  /\ signalled \in SUBSET Nat /\ open \in SUBSET Nat /\ made \in Nat /\ running \in Nat
  /\ buffered = FALSE

-----------------------------------------------------------------------------
(* Handlers, slots and handles.                                            *)

Has(x) == c[x].pc \notin {"none", "failed"}
Locked(x) == c[x].pc \notin {"none", "failed", "live", "taking"}
Serving(x) == c[x].pc \in {"live", "taking", "unpublish"}
Reachable(x) == c[x].pc \in {"live", "taking", "unpublish", "restore", "spin"}
Mine(x) == slot[c[x].slot]

Inside(t) == h[t].pc \in {"wants", "load", "bit", "write", "leaving"}
Aiming(t) == h[t].pc \in {"bit", "write"}

\* A source has a slot and an open handle of its own, published while it serves.
SlotsInv ==
  /\ \A x \in Clients : Has(x) =>
       /\ c[x].slot \in Slots /\ Mine(x).used /\ 0 < Mine(x).own /\ Mine(x).own <= made
       /\ c[x].pc # "unlock" => Mine(x).own \in open
       /\ Serving(x) => Mine(x).fd = Mine(x).own
       /\ ~Serving(x) => Mine(x).fd = 0
       /\ c[x].pc \in {"adding", "wants", "fd"} => Mine(x).pending = {}
  /\ \A x, y \in Clients : x # y /\ Has(x) /\ Has(y) =>
       c[x].slot # c[y].slot /\ Mine(x).own # Mine(y).own
  /\ \A i \in Slots : slot[i].used => \E x \in Clients : Has(x) /\ c[x].slot = i
  /\ \A i \in Slots : ~slot[i].used => slot[i].fd = 0 /\ slot[i].own = 0
  /\ \A x \in Clients : Locked(x) => mu = {x}

\* A handler about to write has the handle of a source that did not see the
\* handlers gone yet.
Target(t, x) == Reachable(x) /\ c[x].slot = h[t].at /\ h[t].fd = Mine(x).own
AimInv ==
  /\ \A t \in Handlers : h[t].pc # "idle" => h[t].at \in Slots
  /\ \A t \in Handlers : Aiming(t) => \E x \in Clients : Target(t, x)

\* g_in_handler counts the handlers between their first and their last step.
CountInv == running = Cardinality({t \in Handlers : Inside(t)})

HandlersInv == SigTypes /\ SlotsInv /\ AimInv /\ CountInv /\ NoSignalLost /\ NoStrayWrite

-----------------------------------------------------------------------------
(* Dispositions.                                                           *)

Counted(x) == c[x].pc \in {"wants", "fd", "live", "taking", "unpublish", "restore"}
Users(s) == {x \in Clients : Counted(x) /\ s \in c[x].got}

\* g_refs counts the sources that have a signal, and the disposition is ours
\* exactly while there are any; g_prev then has the inherited one.
DispInv ==
  /\ refs \in [Sigs -> Nat]
  /\ \A s \in Sigs : refs[s] = Cardinality(Users(s))
  /\ disp = [s \in Sigs |-> IF refs[s] > 0 THEN "ours" ELSE Inherited[s]]
  /\ DOMAIN prev = Sigs /\ \A s \in Sigs : refs[s] > 0 => prev[s] = Inherited[s]
  /\ \A s \in Sigs : s \in Stopping /\ Inherited[s] = "ignored" => refs[s] = 0

-----------------------------------------------------------------------------
(* One step changes one record of each kind.                               *)

\* A client's call changes its own record only (c[x] is the frame of its call).
LEMMA SourceMoves ==
  ASSUME SigTypes, NEW x \in Clients, NEW r \in Sources, c' = [c EXCEPT ![x] = r]
  PROVE  /\ c' \in [Clients -> Sources] /\ c'[x] = r
         /\ \A y \in Clients : y # x => c'[y] = c[y]
BY DEF SigTypes

\* ...and no slot but the one it names...
LEMMA SlotMoves ==
  ASSUME SigTypes, NEW i \in Slots, NEW q \in SlotRecords, slot' = [slot EXCEPT ![i] = q]
  PROVE  /\ slot' \in [Slots -> SlotRecords] /\ slot'[i] = q
         /\ \A j \in Slots : j # i => slot'[j] = slot[j]
BY DEF SigTypes

\* ...and a handler run its own frame.
LEMMA RunMoves ==
  ASSUME SigTypes, NEW t \in Handlers, NEW r \in Runs, h' = [h EXCEPT ![t] = r]
  PROVE  /\ h' \in [Handlers -> Runs] /\ h'[t] = r
         /\ \A u \in Handlers : u # t => h'[u] = h[u]
BY DEF SigTypes

\* Two sources with one slot are one source.
LEMMA OneSource ==
  ASSUME SlotsInv, NEW x \in Clients, NEW y \in Clients, Has(x), Has(y), c[x].slot = c[y].slot
  PROVE  x = y
BY DEF SlotsInv

\* A handler aims at no slot whose source is out of its reach.
LEMMA NobodyAims ==
  ASSUME HandlersInv, NEW i \in Slots,
         \A x \in Clients : Has(x) /\ c[x].slot = i => ~Reachable(x)
  PROVE  \A t \in Handlers : ~(Aiming(t) /\ h[t].at = i)
BY DEF HandlersInv, AimInv, Target, Reachable, Has

\* What the step of source x must show of its slot i, whose record becomes q, and
\* of its own record, which becomes r.
Keeps(x, r, i, q) ==
  /\ Has(x) => c[x].slot = i
  /\ ~Has(x) => ~slot[i].used
  /\ q.own \in {0, slot[i].own, made + 1}
  /\ \A t \in Handlers : Aiming(t) /\ h[t].at = i =>
       /\ q.own = slot[i].own
       /\ r.pc \in {"live", "taking", "unpublish", "restore", "spin"}
\* The source's own part of the invariant after it: it gave the slot up, or...
Gone(r, q) == r.pc = "none" /\ ~q.used /\ q.fd = 0 /\ q.own = 0
\* ...the slot is its own.
Holds(r, i, q, opn, mk, sgn) ==
  /\ r.pc \notin {"none", "failed"} /\ r.slot = i /\ q.used /\ 0 < q.own /\ q.own <= mk
  /\ r.pc # "unlock" => q.own \in opn
  /\ r.pc \in {"live", "taking", "unpublish"} => q.fd = q.own
  /\ r.pc \notin {"live", "taking", "unpublish"} => q.fd = 0
  /\ r.pc \in {"adding", "wants", "fd"} => q.pending = {}
  /\ r.pc = "live" /\ q.pending # {} =>
       q.own \in sgn \/ \E t \in Handlers : h[t].pc = "write" /\ h[t].at = i

LEMMA SourceStep ==
  ASSUME HandlersInv, NEW x \in Clients, NEW r \in Sources, c' = [c EXCEPT ![x] = r],
         NEW i \in Slots, NEW q \in SlotRecords, slot' = [slot EXCEPT ![i] = q],
         Keeps(x, r, i, q), Gone(r, q) \/ Holds(r, i, q, open', made', signalled'),
         UNCHANGED <<h, running, stray>>, buffered' = FALSE,
         signalled' \in SUBSET Nat, open' \in SUBSET Nat, made' \in Nat,
         made' = made \/ (made' = made + 1),
         q.own = made + 1 => made' = made + 1,
         \A n \in Nat : n # slot[i].own /\ n \in open => n \in open',
         \A n \in Nat : n # slot[i].own /\ n \in signalled => n \in signalled',
         \A y \in Clients : y # x /\ Locked(y) => mu' = {y},
         Locked(x)' => mu' = {x}
  PROVE  HandlersInv'
<1>0. SigTypes /\ SlotsInv /\ AimInv /\ CountInv /\ NoSignalLost /\ NoStrayWrite
  BY DEF HandlersInv
<1>1. /\ c' \in [Clients -> Sources] /\ c'[x] = r /\ \A y \in Clients : y # x => c'[y] = c[y]
      /\ slot' \in [Slots -> SlotRecords] /\ slot'[i] = q
      /\ \A j \in Slots : j # i => slot'[j] = slot[j]
  BY <1>0, SourceMoves, SlotMoves, Zenon
<1>2. SigTypes'
  BY <1>0, <1>1 DEF SigTypes
<1>3. ASSUME NEW y \in Clients, y # x, Has(y)
      PROVE  c'[y] = c[y] /\ c[y].slot \in Slots /\ c[y].slot # i /\ Mine(y)' = Mine(y)
  <2>1. c[y].slot \in Slots /\ slot[c[y].slot].used
    BY <1>0, <1>3 DEF SlotsInv, Mine
  <2>2. c[y].slot # i
    BY <1>0, <1>3, <2>1 DEF SlotsInv, Keeps
  <2> QED
    BY <1>1, <1>3, <2>1, <2>2 DEF Mine
<1>4. \A y \in Clients : y # x => Has(y)' = Has(y) /\ Serving(y)' = Serving(y)
                              /\ Reachable(y)' = Reachable(y) /\ Locked(y)' = Locked(y)
  BY <1>1 DEF Has, Serving, Reachable, Locked
<1>5. ASSUME NEW y \in Clients, y # x, Has(y)
      PROVE  /\ Mine(y).own \in Nat /\ 0 < Mine(y).own /\ Mine(y).own <= made
             /\ Mine(y).own # slot[i].own /\ Mine(y).own # q.own
  <2>1. Mine(y).own \in Nat /\ 0 < Mine(y).own /\ Mine(y).own <= made
    BY <1>0, <1>3, <1>5 DEF SlotsInv, SigTypes, SlotRecords, Mine
  <2>2. Mine(y).own # slot[i].own
    <3>1. CASE Has(x)
      BY <1>0, <1>5, <3>1 DEF SlotsInv, Mine, Keeps
    <3>2. CASE ~Has(x)
      BY <1>0, <2>1, <3>2 DEF SlotsInv, Keeps
    <3> QED
      BY <3>1, <3>2
  <2>3. made \in Nat
    BY <1>0 DEF SigTypes
  <2> QED
    BY <2>1, <2>2, <2>3 DEF Keeps
<1>6. ASSUME NEW y \in Clients, y # x, Has(y)
      PROVE  /\ c'[y].slot \in Slots /\ Mine(y)'.used /\ 0 < Mine(y)'.own /\ Mine(y)'.own <= made'
             /\ c'[y].pc # "unlock" => Mine(y)'.own \in open'
             /\ Serving(y)' => Mine(y)'.fd = Mine(y)'.own
             /\ ~Serving(y)' => Mine(y)'.fd = 0
             /\ c'[y].pc \in {"adding", "wants", "fd"} => Mine(y)'.pending = {}
  <2>1. Mine(y).own <= made'
    BY <1>0, <1>5, <1>6 DEF SigTypes
  <2> QED
    BY <1>0, <1>3, <1>4, <1>5, <1>6, <2>1 DEF SlotsInv
<1>7. Has(x)' => Holds(r, i, q, open', made', signalled')
  BY <1>1 DEF Has, Gone
<1>8. ASSUME Has(x)'
      PROVE  /\ c'[x].slot \in Slots /\ Mine(x)'.used /\ 0 < Mine(x)'.own /\ Mine(x)'.own <= made'
             /\ c'[x].pc # "unlock" => Mine(x)'.own \in open'
             /\ Serving(x)' => Mine(x)'.fd = Mine(x)'.own
             /\ ~Serving(x)' => Mine(x)'.fd = 0
             /\ c'[x].pc \in {"adding", "wants", "fd"} => Mine(x)'.pending = {}
  BY <1>1, <1>7, <1>8 DEF Holds, Serving, Mine
<1>9. ASSUME NEW y \in Clients, NEW z \in Clients, y # z, Has(y)', Has(z)'
      PROVE  c'[y].slot # c'[z].slot /\ Mine(y)'.own # Mine(z)'.own
  <2>1. ASSUME NEW w \in Clients, w # x, Has(w), Has(x)'
        PROVE  c'[w].slot # c'[x].slot /\ Mine(w)'.own # Mine(x)'.own
    BY <1>1, <1>3, <1>5, <1>7, <2>1 DEF Holds, Mine
  <2>2. CASE y = x
    BY <1>4, <1>9, <2>1, <2>2
  <2>3. CASE z = x
    BY <1>4, <1>9, <2>1, <2>3
  <2>4. CASE y # x /\ z # x
    BY <1>0, <1>3, <1>4, <1>9, <2>4 DEF SlotsInv
  <2> QED
    BY <2>2, <2>3, <2>4
<1>10. ASSUME NEW j \in Slots
       PROVE  /\ slot'[j].used => \E y \in Clients : Has(y)' /\ c'[y].slot = j
              /\ ~slot'[j].used => slot'[j].fd = 0 /\ slot'[j].own = 0
  <2>1. CASE j = i
    <3>1. CASE Gone(r, q)
      BY <1>1, <2>1, <3>1 DEF Gone
    <3>2. CASE Holds(r, i, q, open', made', signalled')
      BY <1>1, <2>1, <3>2 DEF Holds, Has
    <3> QED
      BY <3>1, <3>2
  <2>2. CASE j # i
    <3>1. slot'[j] = slot[j]
      BY <1>1, <2>2
    <3>2. ASSUME slot[j].used PROVE \E y \in Clients : Has(y)' /\ c'[y].slot = j
      <4>1. PICK y \in Clients : Has(y) /\ c[y].slot = j
        BY <1>0, <3>2 DEF SlotsInv
      <4>2. y # x
        BY <2>2, <4>1 DEF Keeps
      <4> QED
        BY <1>1, <1>4, <4>1, <4>2
    <3> QED
      BY <1>0, <3>1, <3>2 DEF SlotsInv
  <2> QED
    BY <2>1, <2>2
<1>11. SlotsInv'
  <2>1. \A y \in Clients : Locked(y)' => mu' = {y}
    BY <1>4
  <2>2. ASSUME NEW y \in Clients, Has(y)'
        PROVE  /\ c'[y].slot \in Slots /\ Mine(y)'.used /\ 0 < Mine(y)'.own /\ Mine(y)'.own <= made'
               /\ c'[y].pc # "unlock" => Mine(y)'.own \in open'
               /\ Serving(y)' => Mine(y)'.fd = Mine(y)'.own
               /\ ~Serving(y)' => Mine(y)'.fd = 0
               /\ c'[y].pc \in {"adding", "wants", "fd"} => Mine(y)'.pending = {}
    BY <1>4, <1>6, <1>8, <2>2
  <2> QED
    BY <1>9, <1>10, <2>1, <2>2, Zenon DEF SlotsInv
<1>12. AimInv'
  <2>1. ASSUME NEW t \in Handlers, Aiming(t)' PROVE \E y \in Clients : Target(t, y)'
    <3>1. Aiming(t) /\ h'[t] = h[t]
      BY <2>1 DEF Aiming
    <3>2. PICK y \in Clients : Target(t, y)
      BY <1>0, <3>1 DEF AimInv
    <3>3. CASE y # x
      <4>1. Has(y)
        BY <3>2 DEF Target, Reachable, Has
      <4> QED
        BY <1>3, <1>4, <3>1, <3>2, <3>3, <4>1 DEF Target
    <3>4. CASE y = x
      <4>1. Has(x) /\ h[t].at = i /\ h[t].fd = slot[i].own
        BY <3>2, <3>4 DEF Target, Reachable, Has, Keeps, Mine
      <4>2. q.own = slot[i].own /\ r.pc \in {"live", "taking", "unpublish", "restore", "spin"}
        BY <3>1, <4>1 DEF Keeps
      <4>3. r.slot = i
        BY <4>2 DEF Gone, Holds
      <4> QED
        BY <1>1, <3>1, <3>4, <4>1, <4>2, <4>3 DEF Target, Reachable, Mine
    <3> QED
      BY <3>3, <3>4
  <2> QED
    BY <1>0, <2>1 DEF AimInv, Inside
<1>13. CountInv' /\ NoStrayWrite'
  BY <1>0 DEF CountInv, Inside, NoStrayWrite
<1>14. NoSignalLost'
  <2>1. ASSUME NEW y \in Clients, c'[y].pc = "live", slot'[c'[y].slot].pending # {}
        PROVE  \/ slot'[c'[y].slot].own \in signalled'
               \/ \E t \in Handlers : h'[t].pc = "write" /\ h'[t].at = c'[y].slot
    <3>1. CASE y = x
      BY <1>1, <1>7, <2>1, <3>1 DEF Has, Holds
    <3>2. CASE y # x
      <4>1. Has(y) /\ c'[y] = c[y] /\ slot'[c'[y].slot] = Mine(y) /\ c[y].pc = "live"
        BY <1>1, <1>3, <2>1, <3>2 DEF Has, Mine
      <4>2. \/ Mine(y).own \in signalled
            \/ \E t \in Handlers : h[t].pc = "write" /\ h[t].at = c[y].slot
        BY <1>0, <2>1, <4>1 DEF NoSignalLost, At, Mine
      <4> QED
        BY <1>5, <3>2, <4>1, <4>2
    <3> QED
      BY <3>1, <3>2
  <2> QED
    BY <2>1, Zenon DEF NoSignalLost, At
<1> QED
  BY <1>2, <1>11, <1>12, <1>13, <1>14 DEF HandlersInv

-----------------------------------------------------------------------------
(* The steps of a source.                                                  *)

\* A set of slots that is not empty has a first one.
LEMMA FirstSlot ==
  ASSUME NEW T \in SUBSET Nat, T # {}
  PROVE  \E x \in T : \A y \in T : x <= y
<1>1. IsWellFoundedOn(OpToRel(<,Nat), Nat)
  BY NatLessThanWellFounded, Zenon
<1>2. PICK x \in T : \A y \in T : ~(<<y,x>> \in OpToRel(<,Nat))
  BY <1>1, WFMin, Zenon
<1>3. ASSUME NEW y \in Nat, NEW z \in Nat, y < z PROVE <<y,z>> \in OpToRel(<,Nat)
  <2>1. <<y,z>> \in Nat \X Nat
    OBVIOUS
  <2>2. <<y,z>>[1] < <<y,z>>[2]
    BY <1>3, SMT
  <2>3. <<y,z>> \in {ss \in Nat \X Nat : ss[1] < ss[2]}
    BY <2>1, <2>2, Zenon
  <2> QED
    BY <2>3, Zenon DEF OpToRel
<1>4. \A y \in T : ~(y < x)
  <2> SUFFICES ASSUME NEW y \in T, y < x PROVE FALSE
    OBVIOUS
  <2>1. <<y,x>> \in OpToRel(<,Nat)
    BY <1>3, Zenon
  <2> QED
    BY <1>2, <2>1, Zenon
<1>5. \A y \in T : x <= y
  BY <1>4, SMT
<1> QED
  BY <1>5

\* What is known of a source with a slot.
LEMMA SourceFacts ==
  ASSUME HandlersInv, NEW x \in Clients, Has(x)
  PROVE  /\ c[x] \in Sources /\ c[x].slot \in Slots /\ Mine(x) \in SlotRecords
         /\ Mine(x).used /\ Mine(x).own \in Nat /\ 0 < Mine(x).own /\ Mine(x).own <= made
         /\ c[x].pc # "unlock" => Mine(x).own \in open
         /\ Serving(x) => Mine(x).fd = Mine(x).own
         /\ ~Serving(x) => Mine(x).fd = 0
         /\ c[x].pc \in {"adding", "wants", "fd"} => Mine(x).pending = {}
         /\ made \in Nat /\ signalled \in SUBSET Nat /\ open \in SUBSET Nat /\ buffered = FALSE
<1>1. c[x] \in Sources /\ c[x].slot \in Slots /\ Mine(x) \in SlotRecords
  BY DEF HandlersInv, SlotsInv, SigTypes, Mine
<1>2. Mine(x).own \in Nat
  BY <1>1 DEF SlotRecords
<1> QED
  BY <1>1, <1>2 DEF HandlersInv, SlotsInv, SigTypes

\* Whoever has g_mu has it alone.
LEMMA Alone ==
  ASSUME HandlersInv, NEW x \in Clients, NEW y \in Clients, x # y, Locked(x)
  PROVE  ~Locked(y) /\ mu = {x}
BY DEF HandlersInv, SlotsInv

\* Nobody aims at a source that is not published, unless it was just before.
LEMMA OutOfReach ==
  ASSUME HandlersInv, NEW x \in Clients, Has(x), ~Reachable(x)
  PROVE  \A t \in Handlers : ~(Aiming(t) /\ h[t].at = c[x].slot)
<1>1. c[x].slot \in Slots
  BY SourceFacts, Zenon
<1>2. \A y \in Clients : Has(y) /\ c[y].slot = c[x].slot => ~Reachable(y)
  BY OneSource DEF HandlersInv
<1> QED
  BY <1>1, <1>2, NobodyAims

\* install() takes a free slot and a new handle, and publishes neither yet.
LEMMA InstallStep ==
  ASSUME PosixConstants, HandlersInv, NEW x \in Clients, Install(x)
  PROVE  HandlersInv'
<1> DEFINE i == CHOOSE j \in FreeSlots : \A k \in FreeSlots : j <= k
           q == [slot[i] EXCEPT !.used = TRUE, !.own = made + 1, !.pending = {}]
           r == [pc |-> "adding", slot |-> i, got |-> {}]
<1>1. /\ c[x].pc = "none" /\ mu = {} /\ FreeSlots # {} /\ mu' = {x}
      /\ made' = made + 1 /\ open' = open \cup {made + 1}
      /\ slot' = [slot EXCEPT ![i] = q] /\ c' = [c EXCEPT ![x] = r]
      /\ UNCHANGED <<signalled, running, h, buffered, stray>>
  BY DEF Install, At, NoClient
<1>2. i \in FreeSlots
  <2>1. FreeSlots \in SUBSET Nat
    BY DEF FreeSlots, PosixConstants
  <2> QED
    BY <1>1, <2>1, FirstSlot
<1> HIDE DEF i
<1>3. /\ i \in Slots /\ i \in Nat /\ ~slot[i].used /\ slot[i] \in SlotRecords
      /\ slot[i].fd = 0 /\ slot[i].own = 0
      /\ made \in Nat /\ signalled \in SUBSET Nat /\ open \in SUBSET Nat /\ buffered = FALSE
  BY <1>2 DEF FreeSlots, PosixConstants, HandlersInv, SigTypes, SlotsInv
<1>4. /\ q \in SlotRecords /\ q.used /\ q.own = made + 1 /\ q.pending = {} /\ q.fd = 0
  <2>1. made + 1 \in Nat
    BY <1>3
  <2>2. q \in SlotRecords
    BY <1>3, <2>1, Zenon DEF SlotRecords
  <2>3. q.own = made + 1 /\ q.pending = {} /\ q.fd = slot[i].fd
    BY <1>3 DEF SlotRecords
  <2>4. q.used = TRUE
    BY <1>3 DEF SlotRecords
  <2> QED
    BY <1>3, <2>2, <2>3, <2>4
<1>5. r \in Sources /\ r.pc = "adding" /\ r.slot = i
  BY <1>3 DEF Sources, Phases
<1> HIDE DEF q, r
<1>6. \A t \in Handlers : ~(Aiming(t) /\ h[t].at = i)
  <2>1. \A y \in Clients : Has(y) => c[y].slot # i
    BY <1>3, SourceFacts, Zenon DEF Mine
  <2> QED
    BY <1>3, <2>1, NobodyAims
<1>7. Keeps(x, r, i, q)
  BY <1>1, <1>3, <1>4, <1>6 DEF Keeps, Has
<1>8. Holds(r, i, q, open', made', signalled')
  BY <1>1, <1>3, <1>4, <1>5 DEF Holds
<1>9. \A y \in Clients : ~Locked(y)
  BY <1>1 DEF HandlersInv, SlotsInv
<1>10. /\ signalled' \in SUBSET Nat /\ open' \in SUBSET Nat /\ made' \in Nat /\ buffered' = FALSE
       /\ \A n \in Nat : n \in open => n \in open'
       /\ \A n \in Nat : n \in signalled => n \in signalled'
  BY <1>1, <1>3
<1> QED
  BY <1>1, <1>3, <1>4, <1>5, <1>7, <1>8, <1>9, <1>10, SourceStep, Zenon

\* An install() that fails leaves nothing behind.
LEMMA InstallFailsStep ==
  ASSUME HandlersInv, NEW x \in Clients, InstallFails(x)
  PROVE  HandlersInv'
<1> DEFINE r == [c[x] EXCEPT !.pc = "failed"]
<1>1. /\ c[x].pc = "none" /\ c' = [c EXCEPT ![x] = r] /\ c[x] \in Sources
      /\ UNCHANGED <<slot, signalled, open, made, mu, running, h, buffered, stray>>
  BY DEF InstallFails, At, HandlersInv, SigTypes
<1>2. r \in Sources /\ r.pc = "failed"
  BY <1>1 DEF Sources, Phases
<1> HIDE DEF r
<1>3. /\ c' \in [Clients -> Sources] /\ c'[x] = r /\ \A y \in Clients : y # x => c'[y] = c[y]
  BY <1>1, <1>2, SourceMoves, Zenon DEF HandlersInv
<1>4. \A y \in Clients : /\ Has(y)' = Has(y) /\ Serving(y)' = Serving(y)
                         /\ Reachable(y)' = Reachable(y) /\ Locked(y)' = Locked(y)
                         /\ Has(y) => c'[y] = c[y] /\ Mine(y)' = Mine(y)
                         /\ c'[y].pc = "live" => c'[y] = c[y]
  BY <1>1, <1>2, <1>3 DEF Has, Serving, Reachable, Locked, Mine
<1>5. SigTypes' /\ CountInv' /\ NoStrayWrite'
  BY <1>1, <1>3 DEF HandlersInv, SigTypes, CountInv, NoStrayWrite, Inside
<1>6. SlotsInv'
  <2>0. SlotsInv /\ slot' = slot /\ open' = open /\ made' = made /\ mu' = mu
    BY <1>1 DEF HandlersInv
  <2>1. ASSUME NEW y \in Clients, Has(y)
        PROVE  /\ c'[y].slot \in Slots /\ Mine(y)'.used /\ 0 < Mine(y)'.own /\ Mine(y)'.own <= made'
               /\ c'[y].pc # "unlock" => Mine(y)'.own \in open'
               /\ Serving(y)' => Mine(y)'.fd = Mine(y)'.own
               /\ ~Serving(y)' => Mine(y)'.fd = 0
               /\ c'[y].pc \in {"adding", "wants", "fd"} => Mine(y)'.pending = {}
    BY <1>4, <2>0, <2>1, SourceFacts, Zenon
  <2>2. \A y, z \in Clients : y # z /\ Has(y)' /\ Has(z)' =>
          c'[y].slot # c'[z].slot /\ Mine(y)'.own # Mine(z)'.own
    <3>1. ASSUME NEW y \in Clients, NEW z \in Clients, y # z, Has(y), Has(z)
          PROVE  c'[y].slot # c'[z].slot /\ Mine(y)'.own # Mine(z)'.own
      <4>1. c[y].slot # c[z].slot /\ Mine(y).own # Mine(z).own
        BY <2>0, <3>1, Zenon DEF SlotsInv
      <4>2. c'[y] = c[y] /\ Mine(y)' = Mine(y) /\ c'[z] = c[z] /\ Mine(z)' = Mine(z)
        BY <1>4, <3>1, Zenon
      <4> QED
        BY <4>1, <4>2, Zenon
    <3> QED
      BY <1>4, <3>1, Zenon
  <2>3. \A j \in Slots : /\ slot'[j].used => \E y \in Clients : Has(y)' /\ c'[y].slot = j
                         /\ ~slot'[j].used => slot'[j].fd = 0 /\ slot'[j].own = 0
    BY <1>4, <2>0, Zenon DEF SlotsInv
  <2>4. \A y \in Clients : Locked(y)' => mu' = {y}
    BY <1>4, <2>0, Zenon DEF SlotsInv
  <2> QED
    BY <1>4, <2>1, <2>2, <2>3, <2>4, Zenon DEF SlotsInv
<1>7. AimInv'
  <2>1. \A t \in Handlers, y \in Clients : Target(t, y) => Target(t, y)'
    BY <1>1, <1>4 DEF Target, Has, Reachable
  <2>2. \A t \in Handlers : Aiming(t)' = Aiming(t) /\ Inside(t)' = Inside(t)
    BY <1>1 DEF Aiming, Inside
  <2> QED
    BY <1>1, <2>1, <2>2 DEF HandlersInv, AimInv
<1>8. NoSignalLost'
  BY <1>1, <1>4 DEF HandlersInv, NoSignalLost, At
<1> QED
  BY <1>5, <1>6, <1>7, <1>8 DEF HandlersInv
\* A source that goes from one phase to the next in its slot.
LEMMA PhaseStep ==
  ASSUME HandlersInv, NEW x \in Clients, Has(x),
         NEW r \in Sources, c' = [c EXCEPT ![x] = r], r.pc \notin {"none", "failed"}, r.slot = c[x].slot,
         NEW q \in SlotRecords, slot' = [slot EXCEPT ![c[x].slot] = q],
         q.own = Mine(x).own, q.used = TRUE,
         r.pc \in {"live", "taking", "unpublish"} => q.fd = q.own,
         r.pc \notin {"live", "taking", "unpublish"} => q.fd = 0,
         q.pending = {} \/ r.pc \notin {"adding", "wants", "fd", "live"},
         \/ ~Reachable(x) \/ r.pc \in {"live", "taking", "unpublish", "restore", "spin"}
         \/ \A t \in Handlers : ~Aiming(t),
         open' \in SUBSET Nat, open \ {Mine(x).own} \subseteq open',
         r.pc # "unlock" => open' = open,
         signalled' \in SUBSET Nat, signalled \ {Mine(x).own} \subseteq signalled',
         c[x].pc # "unlock", UNCHANGED <<made, h, running, stray, buffered>>,
         \A y \in Clients : y # x /\ Locked(y) => mu' = {y},
         Locked(x)' => mu' = {x}
  PROVE  HandlersInv'
<1> DEFINE i == c[x].slot
<1>1. /\ i \in Slots /\ slot[i].own = Mine(x).own /\ Mine(x).own \in Nat /\ 0 < Mine(x).own
      /\ Mine(x).own <= made /\ Mine(x).own \in open
      /\ made \in Nat /\ buffered = FALSE
  BY SourceFacts, Zenon DEF Mine
<1>2. Keeps(x, r, i, q)
  <2>1. ASSUME NEW t \in Handlers, Aiming(t), h[t].at = i
        PROVE  r.pc \in {"live", "taking", "unpublish", "restore", "spin"}
    BY <2>1, OutOfReach
  <2> QED
    BY <1>1, <2>1 DEF Keeps
<1>3. Holds(r, i, q, open', made', signalled')
  BY <1>1 DEF Holds
<1>4. /\ \A n \in Nat : n # slot[i].own /\ n \in open => n \in open'
      /\ \A n \in Nat : n # slot[i].own /\ n \in signalled => n \in signalled'
      /\ slot' = [slot EXCEPT ![i] = q] /\ made' = made /\ made' \in Nat /\ q.own # made + 1
      /\ buffered' = FALSE
  BY <1>1
<1> HIDE DEF i
<1> QED
  BY <1>1, <1>2, <1>3, <1>4, SourceStep, Zenon

\* A phase that leaves the slot alone.
LEMMA QuietPhase ==
  ASSUME HandlersInv, NEW x \in Clients, Has(x), c[x].pc # "unlock",
         NEW r \in Sources, c' = [c EXCEPT ![x] = r], r.pc \notin {"none", "failed"}, r.slot = c[x].slot,
         r.pc \in {"live", "taking", "unpublish"} <=> Serving(x),
         c[x].pc \in {"adding", "wants", "fd"} \/ r.pc \notin {"adding", "wants", "fd", "live"},
         \/ ~Reachable(x) \/ r.pc \in {"live", "taking", "unpublish", "restore", "spin"}
         \/ \A t \in Handlers : ~Aiming(t),
         open' \in SUBSET Nat, open \ {Mine(x).own} \subseteq open',
         r.pc # "unlock" => open' = open,
         signalled' \in SUBSET Nat, signalled \ {Mine(x).own} \subseteq signalled',
         UNCHANGED <<slot, made, h, running, stray, buffered>>,
         \A y \in Clients : y # x /\ Locked(y) => mu' = {y},
         Locked(x)' => mu' = {x}
  PROVE  HandlersInv'
<1> DEFINE q == Mine(x)
<1>1. /\ q \in SlotRecords /\ q.used = TRUE
      /\ r.pc \in {"live", "taking", "unpublish"} => q.fd = q.own
      /\ r.pc \notin {"live", "taking", "unpublish"} => q.fd = 0
      /\ q.pending = {} \/ r.pc \notin {"adding", "wants", "fd", "live"}
  BY SourceFacts, Zenon
<1>2. slot' = [slot EXCEPT ![c[x].slot] = q]
  BY DEF HandlersInv, SigTypes, Mine
<1> HIDE DEF q
<1>3. q.own = Mine(x).own
  BY DEF q
<1> QED
  BY <1>1, <1>2, <1>3, PhaseStep, Zenon

\* With g_in_handler at zero no handler is inside.
LEMMA NobodyInside ==
  ASSUME PosixConstants, HandlersInv, running = 0
  PROVE  \A t \in Handlers : ~Inside(t) /\ ~Aiming(t)
<1>1. IsFiniteSet({t \in Handlers : Inside(t)})
  BY FS_Subset DEF PosixConstants
<1>2. {t \in Handlers : Inside(t)} = {}
  BY <1>1, FS_EmptySet, Zenon DEF HandlersInv, CountInv
<1> QED
  BY <1>2 DEF Inside, Aiming

\* Every step of a source keeps the invariant: the phases that leave the slot...
LEMMA QuietPhases ==
  ASSUME PosixConstants, HandlersInv, NEW x \in Clients,
         add_handlers(x) \/ Drains(x) \/ Release(x) \/ drop_handlers(x) \/ Spin(x) \/ Closed(x)
  PROVE  HandlersInv'
<1>0. c[x].pc \notin {"none", "failed", "unlock"}
  BY DEF add_handlers, Drains, Release, drop_handlers, Spin, Closed, At
<1>1. Has(x) /\ c[x] \in Sources /\ open \in SUBSET Nat /\ signalled \in SUBSET Nat
  BY <1>0, SourceFacts, Zenon DEF Has
<1>2. CASE add_handlers(x)
  <2> DEFINE r == [c[x] EXCEPT !.pc = "wants", !.got = Granted(x)]
  <2>1. /\ c[x].pc = "adding" /\ c' = [c EXCEPT ![x] = r]
        /\ UNCHANGED <<slot, signalled, open, made, mu, running, h, buffered, stray>>
    BY <1>2 DEF add_handlers, At
  <2>2. Granted(x) \in SUBSET Sigs /\ "wants" \in Phases
    BY DEF Granted, PosixConstants, Phases
  <2>3. r \in Sources /\ r.pc = "wants" /\ r.slot = c[x].slot
    BY <1>1, <2>2, Zenon DEF Sources
  <2> HIDE DEF r
  <2>4. ~Serving(x) /\ ~Reachable(x) /\ Locked(x)
    BY <2>1 DEF Serving, Reachable, Locked
  <2>5. mu' = {x} /\ \A y \in Clients : y # x => ~Locked(y)
    BY <2>1, <2>4, Alone, Zenon DEF HandlersInv, SlotsInv
  <2> QED
    BY <1>0, <1>1, <2>1, <2>3, <2>4, <2>5, QuietPhase, Zenon
<1>3. CASE Drains(x)
  <2> DEFINE r == [c[x] EXCEPT !.pc = "taking"]
  <2>1. /\ c[x].pc = "live" /\ c' = [c EXCEPT ![x] = r] /\ signalled' = signalled \ {Mine(x).own}
        /\ UNCHANGED <<slot, open, made, mu, running, h, buffered, stray>>
    BY <1>3 DEF Drains, At, Mine
  <2>2. r \in Sources /\ r.pc = "taking" /\ r.slot = c[x].slot
    BY <1>1 DEF Sources, Phases
  <2> HIDE DEF r
  <2>3. Serving(x) /\ c'[x] = r /\ ~Locked(x)'
    BY <2>1, <2>2, SourceMoves, Zenon DEF Serving, Locked, HandlersInv
  <2>4. \A y \in Clients : Locked(y) => mu' = {y}
    BY <2>1, Zenon DEF HandlersInv, SlotsInv
  <2> QED
    BY <1>0, <1>1, <2>1, <2>2, <2>3, <2>4, QuietPhase, Zenon
<1>4. CASE Release(x)
  <2> DEFINE r == [c[x] EXCEPT !.pc = "unpublish"]
  <2>1. /\ c[x].pc = "live" /\ c' = [c EXCEPT ![x] = r] /\ mu = {} /\ mu' = {x}
        /\ UNCHANGED <<slot, signalled, open, made, running, h, buffered, stray>>
    BY <1>4 DEF Release, At, NoClient
  <2>2. r \in Sources /\ r.pc = "unpublish" /\ r.slot = c[x].slot
    BY <1>1 DEF Sources, Phases
  <2> HIDE DEF r
  <2>3. Serving(x) /\ \A y \in Clients : ~Locked(y)
    BY <2>1 DEF Serving, HandlersInv, SlotsInv
  <2> QED
    BY <1>0, <1>1, <2>1, <2>2, <2>3, QuietPhase, Zenon
<1>5. CASE drop_handlers(x)
  <2> DEFINE r == [c[x] EXCEPT !.pc = "spin"]
  <2>1. /\ c[x].pc = "restore" /\ c' = [c EXCEPT ![x] = r]
        /\ UNCHANGED <<slot, signalled, open, made, mu, running, h, buffered, stray>>
    BY <1>5 DEF drop_handlers, At
  <2>2. r \in Sources /\ r.pc = "spin" /\ r.slot = c[x].slot
    BY <1>1 DEF Sources, Phases
  <2> HIDE DEF r
  <2>3. ~Serving(x) /\ Locked(x)
    BY <2>1 DEF Serving, Locked
  <2>4. mu' = {x} /\ \A y \in Clients : y # x => ~Locked(y)
    BY <2>1, <2>3, Alone, Zenon DEF HandlersInv, SlotsInv
  <2> QED
    BY <1>0, <1>1, <2>1, <2>2, <2>3, <2>4, QuietPhase, Zenon
<1>6. CASE Spin(x)
  <2> DEFINE r == [c[x] EXCEPT !.pc = "close"]
  <2>1. /\ c[x].pc = "spin" /\ running = 0 /\ c' = [c EXCEPT ![x] = r]
        /\ UNCHANGED <<slot, signalled, open, made, mu, running, h, buffered, stray>>
    BY <1>6 DEF Spin, At
  <2>2. r \in Sources /\ r.pc = "close" /\ r.slot = c[x].slot
    BY <1>1 DEF Sources, Phases
  <2> HIDE DEF r
  <2>3. ~Serving(x) /\ Locked(x) /\ \A t \in Handlers : ~Aiming(t)
    BY <2>1, NobodyInside DEF Serving, Locked
  <2>4. mu' = {x} /\ \A y \in Clients : y # x => ~Locked(y)
    BY <2>1, <2>3, Alone, Zenon DEF HandlersInv, SlotsInv
  <2> QED
    BY <1>0, <1>1, <2>1, <2>2, <2>3, <2>4, QuietPhase, Zenon
<1>7. CASE Closed(x)
  <2> DEFINE r == [c[x] EXCEPT !.pc = "unlock"]
  <2>1. /\ c[x].pc = "close" /\ c' = [c EXCEPT ![x] = r]
        /\ open' = open \ {Mine(x).own} /\ signalled' = signalled \ {Mine(x).own}
        /\ UNCHANGED <<slot, made, mu, running, h, buffered, stray>>
    BY <1>7 DEF Closed, At, Mine
  <2>2. r \in Sources /\ r.pc = "unlock" /\ r.slot = c[x].slot
    BY <1>1 DEF Sources, Phases
  <2> HIDE DEF r
  <2>3. ~Serving(x) /\ ~Reachable(x) /\ Locked(x)
    BY <2>1 DEF Serving, Reachable, Locked
  <2>4. mu' = {x} /\ \A y \in Clients : y # x => ~Locked(y)
    BY <2>1, <2>3, Alone, Zenon DEF HandlersInv, SlotsInv
  <2> QED
    BY <1>0, <1>1, <2>1, <2>2, <2>3, <2>4, QuietPhase, Zenon
<1> QED
  BY <1>2, <1>3, <1>4, <1>5, <1>6, <1>7

\* ...and those that change it.
LEMMA SlotPhases ==
  ASSUME PosixConstants, HandlersInv, NEW x \in Clients,
         PublishWants(x) \/ PublishHandle(x) \/ TakesBits(x) \/ Unpublish(x)
  PROVE  HandlersInv'
<1>0. c[x].pc \notin {"none", "failed", "unlock"}
  BY DEF PublishWants, PublishHandle, TakesBits, Unpublish, At
<1>1. Has(x) /\ c[x] \in Sources /\ open \in SUBSET Nat /\ signalled \in SUBSET Nat
  BY <1>0, SourceFacts, Zenon DEF Has
<1>2. Mine(x) \in SlotRecords /\ Mine(x).used = TRUE /\ Mine(x).own \in Nat /\ c[x].got \in SUBSET Sigs
  BY <1>1, SourceFacts, Zenon DEF Sources
<1>3. CASE PublishWants(x)
  <2> DEFINE r == [c[x] EXCEPT !.pc = "fd"]
             q == [Mine(x) EXCEPT !.wants = c[x].got]
  <2>1. /\ c[x].pc = "wants" /\ c' = [c EXCEPT ![x] = r]
        /\ slot' = [slot EXCEPT ![c[x].slot] = q]
        /\ UNCHANGED <<signalled, open, made, mu, running, h, buffered, stray>>
    BY <1>3 DEF PublishWants, At, Mine
  <2>2. r \in Sources /\ r.pc = "fd" /\ r.slot = c[x].slot
    BY <1>1 DEF Sources, Phases
  <2>3. ~Serving(x) /\ ~Reachable(x) /\ Locked(x)
    BY <2>1 DEF Serving, Reachable, Locked
  <2>4. /\ q \in SlotRecords /\ q.own = Mine(x).own /\ q.used = TRUE /\ q.fd = Mine(x).fd
        /\ q.pending = Mine(x).pending
    BY <1>2 DEF SlotRecords
  <2> HIDE DEF r, q
  <2>5. q.fd = 0 /\ q.pending = {}
    BY <1>1, <2>1, <2>3, <2>4, SourceFacts, Zenon
  <2>6. mu' = {x} /\ \A y \in Clients : y # x => ~Locked(y)
    BY <2>1, <2>3, Alone, Zenon DEF HandlersInv, SlotsInv
  <2> QED
    BY <1>0, <1>1, <2>1, <2>2, <2>3, <2>4, <2>5, <2>6, PhaseStep, Zenon
<1>4. CASE PublishHandle(x)
  <2> DEFINE r == [c[x] EXCEPT !.pc = "live"]
             q == [Mine(x) EXCEPT !.fd = Mine(x).own]
  <2>1. /\ c[x].pc = "fd" /\ c' = [c EXCEPT ![x] = r] /\ mu' = {}
        /\ slot' = [slot EXCEPT ![c[x].slot] = q]
        /\ UNCHANGED <<signalled, open, made, running, h, buffered, stray>>
    BY <1>4 DEF PublishHandle, At, Mine, NoClient
  <2>2. r \in Sources /\ r.pc = "live" /\ r.slot = c[x].slot
    BY <1>1 DEF Sources, Phases
  <2>3. ~Reachable(x) /\ Locked(x)
    BY <2>1 DEF Reachable, Locked
  <2>4. /\ q \in SlotRecords /\ q.own = Mine(x).own /\ q.used = TRUE /\ q.fd = q.own
        /\ q.pending = Mine(x).pending
    BY <1>2 DEF SlotRecords
  <2> HIDE DEF r, q
  <2>5. q.pending = {}
    BY <1>1, <2>1, <2>4, SourceFacts, Zenon
  <2>6. \A y \in Clients : y # x => ~Locked(y)
    BY <2>3, Alone
  <2>7. ~Locked(x)'
    BY <2>1, <2>2, SourceMoves, Zenon DEF HandlersInv, Locked
  <2> QED
    BY <1>0, <1>1, <2>1, <2>2, <2>3, <2>4, <2>5, <2>6, <2>7, PhaseStep, Zenon
<1>5. CASE TakesBits(x)
  <2> DEFINE r == [c[x] EXCEPT !.pc = "live"]
             q == [Mine(x) EXCEPT !.pending = {}]
  <2>1. /\ c[x].pc = "taking" /\ c' = [c EXCEPT ![x] = r]
        /\ slot' = [slot EXCEPT ![c[x].slot] = q]
        /\ UNCHANGED <<signalled, open, made, mu, running, h, buffered, stray>>
    BY <1>5 DEF TakesBits, At, Mine
  <2>2. r \in Sources /\ r.pc = "live" /\ r.slot = c[x].slot
    BY <1>1 DEF Sources, Phases
  <2>3. /\ q \in SlotRecords /\ q.own = Mine(x).own /\ q.used = TRUE /\ q.fd = Mine(x).fd
        /\ q.pending = {}
    BY <1>2 DEF SlotRecords
  <2> HIDE DEF r, q
  <2>4. q.fd = q.own
    BY <1>1, <2>1, <2>3, SourceFacts, Zenon DEF Serving
  <2>5. \A y \in Clients : Locked(y) => mu' = {y}
    BY <2>1 DEF HandlersInv, SlotsInv
  <2>6. ~Locked(x)'
    BY <2>1, <2>2, SourceMoves DEF HandlersInv, Locked
  <2> QED
    BY <1>0, <1>1, <2>1, <2>2, <2>3, <2>4, <2>5, <2>6, PhaseStep, Zenon
<1>6. CASE Unpublish(x)
  <2> DEFINE r == [c[x] EXCEPT !.pc = "restore"]
             q == [Mine(x) EXCEPT !.wants = {}, !.fd = 0]
  <2>1. /\ c[x].pc = "unpublish" /\ c' = [c EXCEPT ![x] = r] /\ slot' = Unpublished
        /\ UNCHANGED <<signalled, open, made, mu, running, h, buffered, stray>>
    BY <1>6 DEF Unpublish, At
  <2>2. mu = {x} /\ \A y \in Clients : y # x => ~Locked(y)
    BY <2>1, Alone DEF HandlersInv, SlotsInv, Locked
  <2>3. slot' = [slot EXCEPT ![c[x].slot] = q]
    <3>1. (CHOOSE y \in mu : TRUE) = x
      BY <2>2
    <3> QED
      BY <2>1, <3>1, Zenon DEF Unpublished, Mine
  <2>4. r \in Sources /\ r.pc = "restore" /\ r.slot = c[x].slot
    BY <1>1 DEF Sources, Phases
  <2>5. /\ q \in SlotRecords /\ q.own = Mine(x).own /\ q.used = TRUE /\ q.fd = 0
    BY <1>2, Zenon DEF SlotRecords
  <2> HIDE DEF r, q
  <2> QED
    BY <1>0, <1>1, <2>1, <2>2, <2>3, <2>4, <2>5, PhaseStep, Zenon
<1> QED
  BY <1>3, <1>4, <1>5, <1>6

\* The end of release(): the slot is given back.
LEMMA UnlockStep ==
  ASSUME PosixConstants, HandlersInv, NEW x \in Clients, Unlock(x)
  PROVE  HandlersInv'
<1> DEFINE i == c[x].slot
           r == [pc |-> "none", slot |-> 0, got |-> {}]
           q == [fd |-> 0, wants |-> {}, pending |-> {}, own |-> 0, used |-> FALSE]
<1>1. /\ c[x].pc = "unlock" /\ mu' = {} /\ buffered' = FALSE
      /\ slot' = [slot EXCEPT ![i] = q] /\ c' = [c EXCEPT ![x] = r]
      /\ UNCHANGED <<signalled, open, made, running, h, stray>>
  BY DEF Unlock, At, NoClient
<1>2. r \in Sources /\ r.pc = "none"
  BY DEF Sources, Phases
<1>3. q \in SlotRecords /\ q.fd = 0 /\ q.own = 0 /\ q.used = FALSE
  BY DEF SlotRecords
<1> HIDE DEF r, q
<1>4. Has(x) /\ ~Reachable(x) /\ Locked(x)
  BY <1>1 DEF Has, Reachable, Locked
<1>5. /\ i \in Slots /\ made \in Nat /\ signalled \in SUBSET Nat /\ open \in SUBSET Nat
  BY <1>4, SourceFacts, Zenon
<1>6. Keeps(x, r, i, q) /\ Gone(r, q)
  BY <1>2, <1>3, <1>4, OutOfReach DEF Keeps, Gone
<1>7. ~Locked(x)' /\ \A y \in Clients : y # x => ~Locked(y)
  BY <1>1, <1>2, <1>4, SourceMoves, Alone, Zenon DEF HandlersInv, Locked
<1>8. q.own # made + 1
  BY <1>3, <1>5
<1> HIDE DEF i
<1> QED
  BY <1>1, <1>2, <1>3, <1>5, <1>6, <1>7, <1>8, SourceStep, Zenon

-----------------------------------------------------------------------------
(* The steps of a handler.                                                 *)

Within(r) == r.pc \in {"wants", "load", "bit", "write", "leaving"}

\* What the step of handler t must show of its record, which becomes r.
LEMMA RunStep ==
  ASSUME HandlersInv, NEW t \in Handlers, NEW r \in Runs, h' = [h EXCEPT ![t] = r],
         UNCHANGED <<c, mu, open, made, buffered>>, stray' = FALSE,
         slot' \in [Slots -> SlotRecords],
         \A j \in Slots : /\ slot'[j].own = slot[j].own /\ slot'[j].fd = slot[j].fd
                          /\ slot'[j].used = slot[j].used
                          /\ \/ slot'[j].pending = slot[j].pending
                             \/ j = h[t].at /\ Aiming(t) /\ r.pc = "write" /\ r.at = h[t].at,
         signalled \subseteq signalled', signalled' \in SUBSET Nat,
         h[t].pc = "write" => h[t].fd \in signalled',
         r.pc # "idle" => r.at \in Slots,
         r.pc \in {"bit", "write"} =>
           \E y \in Clients : Reachable(y) /\ c[y].slot = r.at /\ r.fd = Mine(y).own,
         running' \in Nat, CountInv'
  PROVE  HandlersInv'
<1>0. SigTypes /\ SlotsInv /\ AimInv /\ NoSignalLost
  BY DEF HandlersInv
<1>1. /\ h' \in [Handlers -> Runs] /\ h'[t] = r /\ \A u \in Handlers : u # t => h'[u] = h[u]
  BY <1>0, RunMoves, Zenon
<1>2. SigTypes'
  BY <1>0, <1>1 DEF SigTypes
<1>3. \A y \in Clients : /\ Has(y)' = Has(y) /\ Serving(y)' = Serving(y)
                         /\ Reachable(y)' = Reachable(y) /\ Locked(y)' = Locked(y)
  BY DEF Has, Serving, Reachable, Locked
<1>4. ASSUME NEW y \in Clients, Has(y)
      PROVE  /\ c[y].slot \in Slots /\ Mine(y)'.own = Mine(y).own /\ Mine(y)'.fd = Mine(y).fd
             /\ Mine(y)'.used = Mine(y).used
             /\ Mine(y)'.pending = Mine(y).pending \/ (c[y].slot = h[t].at /\ Aiming(t))
  <2>1. c[y].slot \in Slots
    BY <1>4, SourceFacts, Zenon
  <2> QED
    BY <2>1 DEF Mine
<1>5. ASSUME NEW y \in Clients, Has(y), c[y].slot = h[t].at, Aiming(t)
      PROVE  Reachable(y) /\ h[t].fd = Mine(y).own
  <2>1. PICK z \in Clients : Target(t, z)
    BY <1>0, <1>5 DEF AimInv
  <2>2. Has(z) /\ c[z].slot = c[y].slot
    BY <1>5, <2>1 DEF Target, Reachable, Has
  <2>3. z = y
    BY <1>0, <1>5, <2>2, OneSource
  <2> QED
    BY <2>1, <2>3 DEF Target
<1>6. SlotsInv'
  <2>1. ASSUME NEW y \in Clients, Has(y)
        PROVE  /\ c'[y].slot \in Slots /\ Mine(y)'.used /\ 0 < Mine(y)'.own /\ Mine(y)'.own <= made'
               /\ c'[y].pc # "unlock" => Mine(y)'.own \in open'
               /\ Serving(y)' => Mine(y)'.fd = Mine(y)'.own
               /\ ~Serving(y)' => Mine(y)'.fd = 0
               /\ c'[y].pc \in {"adding", "wants", "fd"} => Mine(y)'.pending = {}
    <3>1. c[y].pc \in {"adding", "wants", "fd"} => ~Reachable(y)
      BY Zenon DEF Reachable
    <3> QED
      BY <1>3, <1>4, <1>5, <2>1, <3>1, SourceFacts, Zenon
  <2>2. \A x, y \in Clients : x # y /\ Has(x)' /\ Has(y)' =>
          c'[x].slot # c'[y].slot /\ Mine(x)'.own # Mine(y)'.own
    <3>1. ASSUME NEW x \in Clients, NEW y \in Clients, x # y, Has(x), Has(y)
          PROVE  c'[x].slot # c'[y].slot /\ Mine(x)'.own # Mine(y)'.own
      <4>1. c[x].slot # c[y].slot /\ Mine(x).own # Mine(y).own
        BY <1>0, <3>1, Zenon DEF SlotsInv
      <4>2. c'[x] = c[x] /\ c'[y] = c[y] /\ Mine(x)'.own = Mine(x).own /\ Mine(y)'.own = Mine(y).own
        BY <1>3, <1>4, <3>1, Zenon
      <4> QED
        BY <4>1, <4>2, Zenon
    <3> QED
      BY <1>3, <3>1, Zenon
  <2>3. \A j \in Slots : /\ slot'[j].used => \E x \in Clients : Has(x)' /\ c'[x].slot = j
                         /\ ~slot'[j].used => slot'[j].fd = 0 /\ slot'[j].own = 0
    BY <1>0, <1>3, Zenon DEF SlotsInv
  <2>4. \A x \in Clients : Locked(x)' => mu' = {x}
    BY <1>0, <1>3, Zenon DEF SlotsInv
  <2> QED
    BY <1>3, <2>1, <2>2, <2>3, <2>4, Zenon DEF SlotsInv
<1>7. AimInv'
  <2>1. ASSUME NEW u \in Handlers, Aiming(u)' PROVE \E y \in Clients : Target(u, y)'
    <3>1. CASE u = t
      <4>1. PICK y \in Clients : Reachable(y) /\ c[y].slot = r.at /\ r.fd = Mine(y).own
        BY <1>1, <2>1, <3>1 DEF Aiming
      <4>2. Has(y)
        BY <4>1 DEF Reachable, Has
      <4>3. Target(u, y)'
        BY <1>1, <1>3, <1>4, <3>1, <4>1, <4>2, Zenon DEF Target
      <4> QED
        BY <4>3
    <3>2. CASE u # t
      <4>1. h'[u] = h[u] /\ Aiming(u)
        BY <1>1, <2>1, <3>2, Zenon DEF Aiming
      <4>2. PICK y \in Clients : Target(u, y)
        BY <1>0, <4>1, Zenon DEF AimInv
      <4>3. Has(y)
        BY <4>2, Zenon DEF Target, Reachable, Has
      <4>4. Target(u, y)'
        BY <1>3, <1>4, <4>1, <4>2, <4>3, Zenon DEF Target
      <4> QED
        BY <4>4
    <3> QED
      BY <3>1, <3>2, Zenon
  <2>2. \A u \in Handlers : h'[u].pc # "idle" => h'[u].at \in Slots
    BY <1>0, <1>1, Zenon DEF AimInv
  <2> QED
    BY <2>1, <2>2, Zenon DEF AimInv
<1>8. NoSignalLost'
  <2>1. ASSUME NEW y \in Clients, c[y].pc = "live", Mine(y)'.pending # {}
        PROVE  \/ Mine(y)'.own \in signalled'
               \/ \E u \in Handlers : h'[u].pc = "write" /\ h'[u].at = c[y].slot
    <3>0. Has(y) /\ c[y].slot \in Slots
      BY <1>4, <2>1 DEF Has
    <3>1. CASE Mine(y)'.pending = Mine(y).pending
      <4>1. \/ Mine(y).own \in signalled
            \/ \E u \in Handlers : h[u].pc = "write" /\ h[u].at = c[y].slot
        BY <1>0, <2>1, <3>1, Zenon DEF NoSignalLost, At, Mine
      <4>2. CASE Mine(y).own \in signalled
        BY <1>4, <3>0, <4>2, Zenon
      <4>3. ASSUME NEW u \in Handlers, h[u].pc = "write", h[u].at = c[y].slot, u = t
            PROVE  Mine(y)'.own \in signalled'
        BY <1>4, <1>5, <3>0, <4>3 DEF Aiming
      <4> QED
        BY <1>1, <4>1, <4>2, <4>3
    <3>2. CASE Mine(y)'.pending # Mine(y).pending
      <4>1. r.pc = "write" /\ r.at = c[y].slot
        BY <3>0, <3>2 DEF Mine
      <4> QED
        BY <1>1, <4>1, Zenon
    <3> QED
      BY <3>1, <3>2
  <2>2. \A y \in Clients : c'[y].pc = "live" /\ slot'[c'[y].slot].pending # {} =>
          \/ slot'[c'[y].slot].own \in signalled'
          \/ \E u \in Handlers : h'[u].pc = "write" /\ h'[u].at = c'[y].slot
    <3>1. c' = c
      OBVIOUS
    <3>2. ASSUME NEW y \in Clients, c'[y].pc = "live", slot'[c'[y].slot].pending # {}
          PROVE  \/ slot'[c'[y].slot].own \in signalled'
                 \/ \E u \in Handlers : h'[u].pc = "write" /\ h'[u].at = c'[y].slot
      <4>1. c[y].pc = "live" /\ Mine(y)' = slot'[c'[y].slot]
        BY <3>1, <3>2 DEF Mine
      <4>2. Mine(y)'.pending # {}
        BY <3>2, <4>1, Zenon
      <4>3. \/ Mine(y)'.own \in signalled'
            \/ \E u \in Handlers : h'[u].pc = "write" /\ h'[u].at = c[y].slot
        BY <2>1, <4>1, <4>2, Zenon
      <4> QED
        BY <3>1, <4>1, <4>3, Zenon
    <3> QED
      BY <3>2, Zenon
  <2> QED
    BY <2>2, Zenon DEF NoSignalLost, At
<1> QED
  BY <1>2, <1>6, <1>7, <1>8 DEF HandlersInv, NoStrayWrite

\* A handler that stays inside, or outside, is counted as before.
LEMMA CountKept ==
  ASSUME HandlersInv, NEW t \in Handlers, NEW r \in Runs, h' = [h EXCEPT ![t] = r],
         Within(r) <=> Inside(t), running' = running
  PROVE  CountInv' /\ running' \in Nat
<1>1. \A u \in Handlers : Inside(u)' <=> Inside(u)
  BY RunMoves DEF HandlersInv, Inside, Within
<1>2. {u \in Handlers : Inside(u)}' = {u \in Handlers : Inside(u)}
  BY <1>1
<1> QED
  BY <1>2 DEF HandlersInv, CountInv, SigTypes

\* The next slot, or the way out.
LEMMA NextSlotType ==
  ASSUME PosixConstants, HandlersInv, NEW t \in Handlers, Inside(t)
  PROVE  LET r == NextSlot(t)
         IN  r \in Runs /\ Within(r) /\ r.pc \in {"wants", "leaving"} /\ r.at \in Slots
<1>1. h[t] \in Runs /\ h[t].at \in Slots /\ h[t].at \in Nat
  BY DEF HandlersInv, SigTypes, AimInv, Runs, Inside
<1> DEFINE a == [h[t] EXCEPT !.pc = "wants", !.at = h[t].at + 1, !.fd = 0]
           b == [h[t] EXCEPT !.pc = "leaving", !.fd = 0]
<1>2. a \in Runs /\ a.pc = "wants" /\ a.at = h[t].at + 1
  <2>1. h[t].at + 1 \in Nat
    BY <1>1
  <2> QED
    BY <1>1, <2>1, Zenon DEF Runs
<1>3. b \in Runs /\ b.pc = "leaving" /\ b.at = h[t].at
  BY <1>1, Zenon DEF Runs
<1>4. NextSlot(t) = IF h[t].at + 1 \in Slots THEN a ELSE b
  BY DEF NextSlot
<1> HIDE DEF a, b
<1>5. CASE h[t].at + 1 \in Slots
  BY <1>2, <1>4, <1>5 DEF Within
<1>6. CASE h[t].at + 1 \notin Slots
  BY <1>1, <1>3, <1>4, <1>6 DEF Within
<1> QED
  BY <1>5, <1>6

\* A step that neither aims, notes nor writes.
LEMMA IdleRun ==
  ASSUME HandlersInv, NEW t \in Handlers, NEW r \in Runs, h' = [h EXCEPT ![t] = r],
         UNCHANGED <<slot, signalled, open, made, mu, c, buffered, stray>>,
         h[t].pc # "write", r.pc \notin {"bit", "write"}, r.pc # "idle" => r.at \in Slots,
         running' \in Nat, CountInv'
  PROVE  HandlersInv'
<1>1. /\ stray' = FALSE /\ slot' \in [Slots -> SlotRecords] /\ signalled' \in SUBSET Nat
      /\ signalled \subseteq signalled'
  BY DEF HandlersInv, SigTypes, NoStrayWrite
<1> QED
  BY <1>1, RunStep, Zenon

\* Where a slot has a handle published, its source serves.
LEMMA Published ==
  ASSUME HandlersInv, NEW i \in Slots, slot[i].fd # 0
  PROVE  \E y \in Clients : Reachable(y) /\ c[y].slot = i /\ slot[i].fd = Mine(y).own
<1>1. PICK y \in Clients : Has(y) /\ c[y].slot = i
  BY DEF HandlersInv, SlotsInv
<1>2. Serving(y) /\ Mine(y).fd = Mine(y).own
  BY <1>1, SourceFacts, Zenon DEF Mine
<1> QED
  BY <1>1, <1>2 DEF Serving, Reachable, Mine

\* A signal whose disposition is ours starts a run of on_signal().
LEMMA ArrivesStep ==
  ASSUME PosixConstants, HandlersInv, NEW t \in Handlers, NEW s \in Sigs, Arrives(t, s)
  PROVE  HandlersInv'
<1> DEFINE r == [pc |-> "entered", sig |-> s, at |-> 1, fd |-> 0]
<1>1. /\ h[t].pc = "idle" /\ h' = [h EXCEPT ![t] = r]
      /\ UNCHANGED <<slot, signalled, open, made, mu, running, c, buffered, stray>>
  BY DEF Arrives
<1>2. r \in Runs /\ ~Within(r) /\ r.pc = "entered" /\ ~Inside(t) /\ r.at \in Slots
  BY <1>1 DEF Runs, Within, Inside, PosixConstants
<1> HIDE DEF r
<1>3. CountInv' /\ running' \in Nat
  BY <1>1, <1>2, CountKept, Zenon
<1> QED
  BY <1>1, <1>2, <1>3, IdleRun, Zenon

\* on_signal() counts itself in g_in_handler before it looks at a slot...
LEMMA CountInStep ==
  ASSUME PosixConstants, HandlersInv, NEW t \in Handlers, CountIn(t)
  PROVE  HandlersInv'
<1> DEFINE r == [h[t] EXCEPT !.pc = "wants"]
           In == {u \in Handlers : Inside(u)}
<1>1. /\ h[t].pc = "entered" /\ h' = [h EXCEPT ![t] = r] /\ running' = running + 1
      /\ UNCHANGED <<slot, signalled, open, made, mu, c, buffered, stray>> /\ h[t] \in Runs
  BY DEF CountIn, HandlersInv, SigTypes
<1>2. r \in Runs /\ r.pc = "wants" /\ r.at = h[t].at
  BY <1>1 DEF Runs
<1> HIDE DEF r
<1>3. In' = In \cup {t} /\ t \notin In
  BY <1>1, <1>2, RunMoves, Zenon DEF HandlersInv, Inside
<1>4. IsFiniteSet(In) /\ Cardinality(In) \in Nat
  BY FS_Subset, FS_CardinalityType DEF PosixConstants
<1>5. running = Cardinality(In)
  BY DEF HandlersInv, CountInv
<1>6. running' = Cardinality(In') /\ running' \in Nat
  <2> HIDE DEF In
  <2>1. Cardinality(In \cup {t}) = Cardinality(In) + 1
    BY <1>3, <1>4, FS_AddElement
  <2> QED
    BY <1>1, <1>3, <1>4, <1>5, <2>1
<1>7. CountInv'
  BY <1>6 DEF CountInv
<1>8. h[t].at \in Slots
  BY <1>1 DEF HandlersInv, AimInv
<1> QED
  BY <1>1, <1>2, <1>6, <1>7, <1>8, IdleRun, Zenon

\* ...and out after the last one.
LEMMA CountOutStep ==
  ASSUME PosixConstants, HandlersInv, NEW t \in Handlers, CountOut(t)
  PROVE  HandlersInv'
<1> DEFINE r == [h[t] EXCEPT !.pc = "idle"]
           In == {u \in Handlers : Inside(u)}
<1>1. /\ h[t].pc = "leaving" /\ h' = [h EXCEPT ![t] = r] /\ running' = running - 1
      /\ UNCHANGED <<slot, signalled, open, made, mu, c, buffered, stray>> /\ h[t] \in Runs
  BY DEF CountOut, HandlersInv, SigTypes
<1>2. r \in Runs /\ r.pc = "idle"
  BY <1>1 DEF Runs
<1> HIDE DEF r
<1>3. In' = In \ {t} /\ t \in In
  BY <1>1, <1>2, RunMoves, Zenon DEF HandlersInv, Inside
<1>4. IsFiniteSet(In)
  BY FS_Subset DEF PosixConstants
<1>5. running = Cardinality(In)
  BY DEF HandlersInv, CountInv
<1>6. running' = Cardinality(In') /\ running' \in Nat
  <2> HIDE DEF In
  <2>1. Cardinality(In \ {t}) = Cardinality(In) - 1 /\ IsFiniteSet(In \ {t})
    BY <1>3, <1>4, FS_RemoveElement
  <2>2. Cardinality(In \ {t}) \in Nat
    BY <2>1, FS_CardinalityType
  <2> QED
    BY <1>1, <1>3, <1>5, <2>1, <2>2
<1>7. CountInv'
  BY <1>6 DEF CountInv
<1> QED
  BY <1>1, <1>2, <1>6, <1>7, IdleRun, Zenon

\* Every step of a handler keeps the invariant.
LEMMA HandlerKeeps ==
  ASSUME PosixConstants, HandlersInv, NEW t \in Handlers, on_signal(t)
  PROVE  HandlersInv'
<1>0. h[t] \in Runs /\ signalled \in SUBSET Nat /\ open \in SUBSET Nat /\ stray = FALSE
  BY DEF HandlersInv, SigTypes, NoStrayWrite
<1>1. ASSUME Inside(t)
      PROVE  /\ NextSlot(t) \in Runs /\ Within(NextSlot(t)) /\ NextSlot(t).pc \notin {"bit", "write"}
             /\ NextSlot(t).at \in Slots /\ h[t].at \in Slots
  <2>1. h[t].at \in Slots
    BY <1>1 DEF HandlersInv, AimInv, Inside
  <2> QED
    BY <1>1, <2>1, NextSlotType
<1>2. CASE LoadWants(t)
  <2> DEFINE r == IF h[t].sig \in slot[h[t].at].wants THEN [h[t] EXCEPT !.pc = "load"] ELSE NextSlot(t)
  <2>1. /\ h[t].pc = "wants" /\ h' = [h EXCEPT ![t] = r]
        /\ UNCHANGED <<slot, signalled, open, made, mu, running, c, buffered, stray>>
    BY <1>2 DEF LoadWants
  <2>2. Inside(t)
    BY <2>1 DEF Inside
  <2>3. r \in Runs /\ Within(r) /\ r.pc \notin {"bit", "write"} /\ r.at \in Slots
    <3> DEFINE a == [h[t] EXCEPT !.pc = "load"]
    <3>1. a \in Runs /\ a.pc = "load" /\ a.at = h[t].at
      BY <1>0 DEF Runs
    <3>2. r = a \/ r = NextSlot(t)
      OBVIOUS
    <3> HIDE DEF a, r
    <3> QED
      BY <1>1, <2>2, <3>1, <3>2 DEF Within
  <2> HIDE DEF r
  <2>4. CountInv' /\ running' \in Nat
    BY <2>1, <2>2, <2>3, CountKept, Zenon
  <2> QED
    BY <2>1, <2>3, <2>4, IdleRun, Zenon
<1>3. CASE LoadFd(t)
  <2> DEFINE f == slot[h[t].at].fd
             a == [h[t] EXCEPT !.pc = "bit", !.fd = f]
             r == IF f = 0 THEN NextSlot(t) ELSE a
  <2>1. /\ h[t].pc = "load" /\ h' = [h EXCEPT ![t] = r]
        /\ UNCHANGED <<slot, signalled, open, made, mu, running, c, buffered, stray>>
    BY <1>3 DEF LoadFd
  <2>2. Inside(t) /\ h[t].at \in Slots
    BY <1>1, <2>1 DEF Inside
  <2>3. f \in Nat
    BY <2>2 DEF HandlersInv, SigTypes, SlotRecords
  <2>4. a \in Runs /\ a.pc = "bit" /\ a.at = h[t].at /\ a.fd = f
    BY <1>0, <2>3, Zenon DEF Runs
  <2>5. (f = 0 /\ r = NextSlot(t)) \/ (f # 0 /\ r = a)
    OBVIOUS
  <2> HIDE DEF r, a
  <2>6. r \in Runs /\ Within(r) /\ r.at \in Slots /\ r.pc # "write"
    BY <1>1, <2>2, <2>4, <2>5 DEF Within
  <2>7. CountInv' /\ running' \in Nat
    BY <2>1, <2>2, <2>6, CountKept, Zenon
  <2>8. r.pc \in {"bit", "write"} =>
          \E y \in Clients : Reachable(y) /\ c[y].slot = r.at /\ r.fd = Mine(y).own
    BY <1>1, <2>2, <2>4, <2>5, Published
  <2>9. stray' = FALSE /\ slot' \in [Slots -> SlotRecords] /\ signalled' \in SUBSET Nat
    BY <1>0, <2>1 DEF HandlersInv, SigTypes
  <2> HIDE DEF f
  <2> QED
    BY <2>1, <2>6, <2>7, <2>8, <2>9, RunStep, Zenon
<1>4. CASE SetBit(t)
  <2> DEFINE r == [h[t] EXCEPT !.pc = "write"]
             i == h[t].at
             q == [slot[i] EXCEPT !.pending = @ \cup {h[t].sig}]
  <2>1. /\ h[t].pc = "bit" /\ h' = [h EXCEPT ![t] = r] /\ slot' = [slot EXCEPT ![i] = q]
        /\ UNCHANGED <<signalled, open, made, mu, running, c, buffered, stray>>
    BY <1>4 DEF SetBit
  <2>2. Inside(t) /\ i \in Slots /\ Aiming(t)
    BY <1>1, <2>1 DEF Inside, Aiming
  <2>3. r \in Runs /\ r.pc = "write" /\ r.at = i /\ r.fd = h[t].fd
    BY <1>0 DEF Runs
  <2>4. q \in SlotRecords /\ q.own = slot[i].own /\ q.fd = slot[i].fd /\ q.used = slot[i].used
    <3>1. slot[i] \in SlotRecords /\ h[t].sig \in Sigs
      BY <1>0, <2>2 DEF HandlersInv, SigTypes, Runs
    <3> QED
      BY <3>1 DEF SlotRecords
  <2>5. Within(r)
    BY <2>3 DEF Within
  <2> HIDE DEF r, q
  <2>6. CountInv' /\ running' \in Nat
    BY <2>1, <2>2, <2>3, <2>5, CountKept, Zenon
  <2>7. \E y \in Clients : Reachable(y) /\ c[y].slot = r.at /\ r.fd = Mine(y).own
    BY <2>2, <2>3 DEF HandlersInv, AimInv, Target
  <2>8. /\ slot' \in [Slots -> SlotRecords]
        /\ \A j \in Slots : /\ slot'[j].own = slot[j].own /\ slot'[j].fd = slot[j].fd
                            /\ slot'[j].used = slot[j].used
                            /\ slot'[j].pending = slot[j].pending \/ j = i
    BY <2>1, <2>2, <2>4, SlotMoves, Zenon DEF HandlersInv
  <2>9. /\ stray' = FALSE /\ signalled' \in SUBSET Nat /\ signalled \subseteq signalled'
        /\ UNCHANGED <<c, mu, open, made, buffered>> /\ h[t].pc # "write" /\ r.at \in Slots
    BY <1>0, <2>1, <2>2, <2>3
  <2>10. \A j \in Slots : /\ slot'[j].own = slot[j].own /\ slot'[j].fd = slot[j].fd
                          /\ slot'[j].used = slot[j].used
                          /\ \/ slot'[j].pending = slot[j].pending
                             \/ j = h[t].at /\ Aiming(t) /\ r.pc = "write" /\ r.at = h[t].at
    BY <2>2, <2>3, <2>8
  <2>11. /\ h[t].pc = "write" => h[t].fd \in signalled'
         /\ r.pc # "idle" => r.at \in Slots
         /\ r.pc \in {"bit", "write"} =>
              \E y \in Clients : Reachable(y) /\ c[y].slot = r.at /\ r.fd = Mine(y).own
    BY <2>7, <2>9
  <2>12. /\ r \in Runs /\ h' = [h EXCEPT ![t] = r] /\ slot' \in [Slots -> SlotRecords]
         /\ UNCHANGED <<c, mu, open, made, buffered>> /\ stray' = FALSE
         /\ signalled \subseteq signalled' /\ signalled' \in SUBSET Nat
         /\ running' \in Nat /\ CountInv'
    BY <2>1, <2>3, <2>6, <2>8, <2>9
  <2> HIDE DEF i
  <2> QED
    BY <2>10, <2>11, <2>12, RunStep, Zenon
<1>5. CASE Write(t)
  <2> DEFINE r == NextSlot(t)
  <2>1. /\ h[t].pc = "write" /\ h' = [h EXCEPT ![t] = r]
        /\ signalled' = signalled \cup ({h[t].fd} \cap open)
        /\ stray' = (stray \/ h[t].fd \notin open)
        /\ UNCHANGED <<slot, open, made, mu, running, c, buffered>>
    BY <1>5 DEF Write
  <2>2. Inside(t) /\ Aiming(t)
    BY <2>1 DEF Inside, Aiming
  <2>3. h[t].fd \in open
    <3>1. PICK y \in Clients : Target(t, y)
      BY <2>2, Zenon DEF HandlersInv, AimInv
    <3>2. Has(y) /\ c[y].pc # "unlock"
      BY <3>1 DEF Target, Reachable, Has
    <3> QED
      BY <3>1, <3>2, SourceFacts, Zenon DEF Target
  <2>4. r \in Runs /\ Within(r) /\ r.pc \notin {"bit", "write"} /\ r.at \in Slots
    BY <1>1, <2>2
  <2> HIDE DEF r
  <2>5. CountInv' /\ running' \in Nat
    BY <2>1, <2>2, <2>4, CountKept, Zenon
  <2>6. /\ stray' = FALSE /\ signalled' \in SUBSET Nat /\ signalled \subseteq signalled'
        /\ h[t].fd \in signalled' /\ slot' \in [Slots -> SlotRecords]
    BY <1>0, <2>1, <2>3, Zenon DEF HandlersInv, SigTypes
  <2> QED
    BY <2>1, <2>4, <2>5, <2>6, RunStep, Zenon
<1> QED
  BY <1>2, <1>3, <1>4, <1>5, CountInStep, CountOutStep DEF on_signal

-----------------------------------------------------------------------------
(* Dispositions.                                                           *)

\* The sources that have a signal can be counted.
LEMMA UsersFinite ==
  ASSUME PosixConstants, NEW s \in Sigs
  PROVE  IsFiniteSet(Users(s)) /\ Cardinality(Users(s)) \in Nat
BY FS_Subset, FS_CardinalityType DEF PosixConstants, Users

\* A step that leaves the tables alone and no source in or out of the count.
LEMMA DispSame ==
  ASSUME DispInv, UNCHANGED tables, \A s \in Sigs : Users(s)' = Users(s)
  PROVE  DispInv'
BY DEF DispInv, tables

\* The steps that do so: all but those that add and drop handlers.
LEMMA DispQuiet ==
  ASSUME PosixConstants, SigTypes, DispInv, NEW x \in Clients, NEW r \in Sources,
         c' = [c EXCEPT ![x] = r], UNCHANGED tables,
         \/ ~Counted(x) /\ r.pc \notin {"wants", "fd", "live", "taking", "unpublish", "restore"}
         \/ /\ Counted(x) /\ r.pc \in {"wants", "fd", "live", "taking", "unpublish", "restore"}
            /\ r.got = c[x].got
  PROVE  DispInv'
<1>1. c'[x] = r /\ \A y \in Clients : y # x => c'[y] = c[y]
  BY SourceMoves, Zenon
<1>2. ASSUME NEW s \in Sigs, NEW y \in Clients
      PROVE  (Counted(y)' /\ s \in c'[y].got) <=> (Counted(y) /\ s \in c[y].got)
  BY <1>1 DEF Counted
<1>3. \A s \in Sigs : Users(s)' = Users(s)
  BY <1>2 DEF Users
<1> QED
  BY <1>3, DispSame

\* The first source of a signal saves what was there.
LEMMA AddsStep ==
  ASSUME PosixConstants, SigTypes, DispInv, NEW x \in Clients, add_handlers(x)
  PROVE  DispInv'
<1> DEFINE G == Granted(x)
           r == [c[x] EXCEPT !.pc = "wants", !.got = G]
<1>1. /\ c[x].pc = "adding" /\ c' = [c EXCEPT ![x] = r] /\ c[x] \in Sources
      /\ refs' = [s \in Sigs |-> refs[s] + (IF s \in G THEN 1 ELSE 0)]
      /\ prev' = [s \in Sigs |-> IF s \in G /\ refs[s] = 0 THEN disp[s] ELSE prev[s]]
      /\ disp' = [s \in Sigs |-> IF s \in G THEN "ours" ELSE disp[s]]
  BY DEF add_handlers, At, SigTypes
<1>2. G \in SUBSET Sigs
  BY DEF Granted, PosixConstants
<1>3. \A s \in G : s \in Stopping => Inherited[s] # "ignored"
  <2>1. ASSUME NEW s \in G, s \in Stopping, Inherited[s] = "ignored" PROVE FALSE
    <3>1. s \in Sigs /\ refs[s] = 0 /\ disp[s] = "ignored"
      BY <1>2, <2>1 DEF DispInv
    <3> QED
      BY <2>1, <3>1 DEF Granted, Ours
  <2> QED
    BY <2>1
<1> HIDE DEF G
<1>4. r \in Sources /\ r.pc = "wants" /\ r.got = G
  BY <1>1, <1>2, Zenon DEF Sources, Phases
<1> HIDE DEF r
<1>5. c'[x] = r /\ \A y \in Clients : y # x => c'[y] = c[y]
  BY <1>1, <1>4, SourceMoves, Zenon
<1>6. ASSUME NEW s \in Sigs
      PROVE  /\ refs[s] \in Nat /\ refs'[s] = Cardinality(Users(s)') /\ refs'[s] \in Nat
             /\ s \in G => refs'[s] > 0
             /\ s \notin G => refs'[s] = refs[s]
  <2>0. refs[s] \in Nat /\ refs[s] = Cardinality(Users(s)) /\ x \notin Users(s)
    BY <1>1 DEF DispInv, Users, Counted
  <2>1. CASE s \in G
    <3>1. Users(s)' = Users(s) \cup {x}
      BY <1>4, <1>5, <2>1 DEF Users, Counted
    <3>2. Cardinality(Users(s) \cup {x}) = Cardinality(Users(s)) + 1
      BY <2>0, UsersFinite, FS_AddElement, Zenon
    <3>3. refs'[s] = refs[s] + 1
      BY <1>1, <2>1
    <3> QED
      BY <2>0, <2>1, <3>1, <3>2, <3>3
  <2>2. CASE s \notin G
    <3>1. Users(s)' = Users(s)
      BY <1>1, <1>4, <1>5, <2>2 DEF Users, Counted
    <3>2. refs'[s] = refs[s] + 0
      BY <1>1, <2>2
    <3> QED
      BY <2>0, <2>2, <3>1, <3>2
  <2> QED
    BY <2>1, <2>2
<1>7. refs' \in [Sigs -> Nat]
  <2>1. \A s \in Sigs : refs[s] + (IF s \in G THEN 1 ELSE 0) \in Nat
    BY <1>1, <1>6
  <2> QED
    BY <1>1, <2>1, Zenon
<1>8. disp' = [s \in Sigs |-> IF refs'[s] > 0 THEN "ours" ELSE Inherited[s]]
  <2>1. \A s \in Sigs : (IF s \in G THEN "ours" ELSE disp[s])
                        = (IF refs'[s] > 0 THEN "ours" ELSE Inherited[s])
    BY <1>6 DEF DispInv
  <2> QED
    BY <1>1, <2>1, Zenon
<1>9. DOMAIN prev' = Sigs /\ \A s \in Sigs : refs'[s] > 0 => prev'[s] = Inherited[s]
  <2>1. DOMAIN prev' = Sigs
    BY <1>1
  <2>2. ASSUME NEW s \in Sigs, refs'[s] > 0 PROVE prev'[s] = Inherited[s]
    <3>0. /\ prev'[s] = IF s \in G /\ refs[s] = 0 THEN disp[s] ELSE prev[s]
          /\ disp[s] = IF refs[s] > 0 THEN "ours" ELSE Inherited[s]
          /\ refs[s] > 0 => prev[s] = Inherited[s]
      BY <1>1, Zenon DEF DispInv
    <3>1. CASE refs[s] = 0
      BY <1>6, <2>2, <3>0, <3>1
    <3>2. CASE refs[s] # 0
      BY <1>6, <3>0, <3>2
    <3> QED
      BY <3>1, <3>2
  <2> QED
    BY <2>1, <2>2, Zenon
<1>10. \A s \in Sigs : s \in Stopping /\ Inherited[s] = "ignored" => refs'[s] = 0
  BY <1>3, <1>6 DEF DispInv
<1> QED
  BY <1>6, <1>7, <1>8, <1>9, <1>10 DEF DispInv

\* The last one puts it back.
LEMMA DropsStep ==
  ASSUME PosixConstants, SigTypes, DispInv, NEW x \in Clients, drop_handlers(x)
  PROVE  DispInv'
<1> DEFINE G == c[x].got
           r == [c[x] EXCEPT !.pc = "spin"]
<1>1. /\ c[x].pc = "restore" /\ c' = [c EXCEPT ![x] = r] /\ c[x] \in Sources
      /\ refs' = [s \in Sigs |-> refs[s] - (IF s \in G THEN 1 ELSE 0)]
      /\ disp' = [s \in Sigs |-> IF s \in G /\ refs[s] = 1 THEN prev[s] ELSE disp[s]]
      /\ prev' = prev
  BY DEF drop_handlers, At, SigTypes
<1>2. r \in Sources /\ r.pc = "spin"
  BY <1>1 DEF Sources, Phases
<1> HIDE DEF r
<1>3. c'[x] = r /\ \A y \in Clients : y # x => c'[y] = c[y]
  BY <1>1, <1>2, SourceMoves, Zenon
<1>4. ASSUME NEW s \in Sigs
      PROVE  /\ refs[s] \in Nat /\ refs'[s] = Cardinality(Users(s)') /\ refs'[s] \in Nat
             /\ s \in G => refs[s] > 0 /\ refs'[s] = refs[s] - 1
             /\ s \notin G => refs'[s] = refs[s]
  <2>0. refs[s] \in Nat /\ refs[s] = Cardinality(Users(s))
    BY DEF DispInv
  <2>1. CASE s \in G
    <3>1. Users(s)' = Users(s) \ {x} /\ x \in Users(s)
      BY <1>1, <1>2, <1>3, <2>1 DEF Users, Counted
    <3>2. Cardinality(Users(s) \ {x}) = Cardinality(Users(s)) - 1 /\ IsFiniteSet(Users(s) \ {x})
      BY <3>1, UsersFinite, FS_RemoveElement
    <3>3. Cardinality(Users(s) \ {x}) \in Nat
      BY <3>2, FS_CardinalityType
    <3>4. refs'[s] = refs[s] - 1
      BY <1>1, <2>1
    <3> QED
      BY <2>0, <2>1, <3>1, <3>2, <3>3, <3>4
  <2>2. CASE s \notin G
    <3>1. Users(s)' = Users(s)
      BY <1>2, <1>3, <2>2 DEF Users, Counted
    <3>2. refs'[s] = refs[s] - 0
      BY <1>1, <2>2
    <3> QED
      BY <2>0, <2>2, <3>1, <3>2
  <2> QED
    BY <2>1, <2>2
<1> HIDE DEF G
<1>5. refs' \in [Sigs -> Nat]
  <2>1. \A s \in Sigs : refs[s] - (IF s \in G THEN 1 ELSE 0) \in Nat
    BY <1>1, <1>4
  <2> QED
    BY <1>1, <2>1, Zenon
<1>6. disp' = [s \in Sigs |-> IF refs'[s] > 0 THEN "ours" ELSE Inherited[s]]
  <2>1. \A s \in Sigs : (IF s \in G /\ refs[s] = 1 THEN prev[s] ELSE disp[s])
                        = (IF refs'[s] > 0 THEN "ours" ELSE Inherited[s])
    BY <1>4 DEF DispInv
  <2> QED
    BY <1>1, <2>1, Zenon
<1>7. DOMAIN prev' = Sigs /\ \A s \in Sigs : refs'[s] > 0 => prev'[s] = Inherited[s]
  BY <1>1, <1>4, Zenon DEF DispInv
<1>8. \A s \in Sigs : s \in Stopping /\ Inherited[s] = "ignored" => refs'[s] = 0
  BY <1>4 DEF DispInv
<1> QED
  BY <1>4, <1>5, <1>6, <1>7, <1>8 DEF DispInv

\* Every step but those two leaves the count and the tables alone.
LEMMA DispStep ==
  ASSUME PosixConstants, SigTypes, DispInv, SigNext
  PROVE  DispInv'
<1>1. ASSUME NEW t \in Handlers, NEW s \in Sigs, HandlerStep(t) \/ Arrives(t, s) PROVE DispInv'
  <2>1. UNCHANGED <<c, tables>>
    BY <1>1 DEF HandlerStep, on_ctrl, on_signal, CountIn, LoadWants, LoadFd, SetBit, Write, CountOut,
                Arrives, tables
  <2> QED
    BY <2>1, DispSame DEF Users, Counted
<1>2. ASSUME NEW x \in Clients, ClientStep(x) \/ Install(x) \/ InstallFails(x) \/ Release(x)
      PROVE  DispInv'
  <2>0. c[x] \in Sources
    BY DEF SigTypes
  <2>1. CASE add_handlers(x)
    BY <2>1, AddsStep
  <2>2. CASE drop_handlers(x)
    BY <2>2, DropsStep
  <2>3. CASE Install(x)
    <3> DEFINE i == CHOOSE j \in FreeSlots : \A k \in FreeSlots : j <= k
               r == [pc |-> "adding", slot |-> i, got |-> {}]
    <3>1. c[x].pc = "none" /\ c' = [c EXCEPT ![x] = r] /\ UNCHANGED tables /\ FreeSlots # {}
      BY <2>3 DEF Install, At
    <3>2. i \in Nat
      <4>1. FreeSlots \in SUBSET Nat
        BY DEF FreeSlots, PosixConstants
      <4>2. \E j \in FreeSlots : \A k \in FreeSlots : j <= k
        BY <3>1, <4>1, FirstSlot
      <4>3. i \in FreeSlots
        BY <4>2
      <4> QED
        BY <4>1, <4>3, Zenon
    <3> HIDE DEF i
    <3>3. r \in Sources /\ r.pc = "adding"
      BY <3>2 DEF Sources, Phases
    <3> HIDE DEF r
    <3> QED
      BY <3>1, <3>3, DispQuiet, Zenon DEF Counted
  <2>4. CASE Unlock(x)
    <3> DEFINE r == [pc |-> "none", slot |-> 0, got |-> {}]
    <3>1. c[x].pc = "unlock" /\ c' = [c EXCEPT ![x] = r] /\ UNCHANGED tables
      BY <2>4 DEF Unlock, At
    <3>2. r \in Sources /\ r.pc = "none"
      BY DEF Sources, Phases
    <3> HIDE DEF r
    <3> QED
      BY <3>1, <3>2, DispQuiet, Zenon DEF Counted
  <2>5. ASSUME NEW p \in Phases, c' = [c EXCEPT ![x].pc = p], UNCHANGED tables,
               Counted(x) <=> p \in {"wants", "fd", "live", "taking", "unpublish", "restore"}
        PROVE  DispInv'
    <3> DEFINE r == [c[x] EXCEPT !.pc = p]
    <3>1. r \in Sources /\ r.pc = p /\ r.got = c[x].got
      BY <2>0 DEF Sources
    <3>2. c' = [c EXCEPT ![x] = r]
      BY <2>5
    <3> HIDE DEF r
    <3> QED
      BY <2>5, <3>1, <3>2, DispQuiet, Zenon
  <2>6. CASE InstallFails(x)
    <3>1. "failed" \in Phases /\ c' = [c EXCEPT ![x].pc = "failed"] /\ UNCHANGED tables /\ ~Counted(x)
      BY <2>6 DEF InstallFails, At, Counted, Phases
    <3> QED
      BY <2>5, <3>1, Zenon
  <2>7. CASE Release(x)
    <3>1. "unpublish" \in Phases /\ c' = [c EXCEPT ![x].pc = "unpublish"] /\ UNCHANGED tables /\ Counted(x)
      BY <2>7 DEF Release, At, Counted, Phases
    <3> QED
      BY <2>5, <3>1, Zenon
  <2>8. CASE PublishWants(x)
    <3>1. "fd" \in Phases /\ c' = [c EXCEPT ![x].pc = "fd"] /\ UNCHANGED tables /\ Counted(x)
      BY <2>8 DEF PublishWants, At, Counted, Phases
    <3> QED
      BY <2>5, <3>1, Zenon
  <2>9. CASE PublishHandle(x)
    <3>1. "live" \in Phases /\ c' = [c EXCEPT ![x].pc = "live"] /\ UNCHANGED tables /\ Counted(x)
      BY <2>9 DEF PublishHandle, At, Counted, Phases
    <3> QED
      BY <2>5, <3>1, Zenon
  <2>10. CASE Drains(x)
    <3>1. "taking" \in Phases /\ c' = [c EXCEPT ![x].pc = "taking"] /\ UNCHANGED tables /\ Counted(x)
      BY <2>10 DEF Drains, At, Counted, Phases
    <3> QED
      BY <2>5, <3>1, Zenon
  <2>11. CASE TakesBits(x)
    <3>1. "live" \in Phases /\ c' = [c EXCEPT ![x].pc = "live"] /\ UNCHANGED tables /\ Counted(x)
      BY <2>11 DEF TakesBits, At, Counted, Phases
    <3> QED
      BY <2>5, <3>1, Zenon
  <2>12. CASE Unpublish(x)
    <3>1. "restore" \in Phases /\ c' = [c EXCEPT ![x].pc = "restore"] /\ UNCHANGED tables /\ Counted(x)
      BY <2>12 DEF Unpublish, At, Counted, Phases
    <3> QED
      BY <2>5, <3>1, Zenon
  <2>13. CASE Spin(x)
    <3>1. "close" \in Phases /\ c' = [c EXCEPT ![x].pc = "close"] /\ UNCHANGED tables /\ ~Counted(x)
      BY <2>13 DEF Spin, At, Counted, Phases
    <3> QED
      BY <2>5, <3>1, Zenon
  <2>14. CASE Close(x)
    <3>1. "unlock" \in Phases /\ c' = [c EXCEPT ![x].pc = "unlock"] /\ UNCHANGED tables /\ ~Counted(x)
      BY <2>14 DEF Close, Closed, At, Counted, Phases, tables
    <3> QED
      BY <2>5, <3>1, Zenon
  <2>15. ~add_ctrl_handler(x) /\ ~console_unpublish(x) /\ ~console_close(x)
    BY DEF add_ctrl_handler, console_unpublish, console_close, PosixConstants
  <2>16. ClientStep(x) => \/ add_handlers(x) \/ PublishWants(x) \/ PublishHandle(x)
                          \/ Drains(x) \/ TakesBits(x) \/ Unpublish(x) \/ drop_handlers(x)
                          \/ Spin(x) \/ Close(x) \/ Unlock(x)
    BY <2>15 DEF ClientStep, Take, PosixConstants
  <2> QED
    BY <1>2, <2>1, <2>2, <2>3, <2>4, <2>6, <2>7, <2>8, <2>9, <2>10, <2>11, <2>12, <2>13, <2>14, <2>16
<1>3. ~Flush
  BY DEF Flush, SigTypes
<1>4. Sigs # {}
  BY DEF PosixConstants
<1> QED
  BY <1>1, <1>2, <1>3, <1>4 DEF SigNext

-----------------------------------------------------------------------------
(* The theorems.                                                           *)

\* The statics of signals.cpp: no slot used, no handler inside, no handle open.
LEMMA HandlersInit ==
  ASSUME PosixConstants, SigInit
  PROVE  HandlersInv
<1>1. (CHOOSE s \in Sigs : TRUE) \in Sigs
  BY DEF PosixConstants
<1>2. SigTypes
  <2>1. [fd |-> 0, wants |-> {}, pending |-> {}, own |-> 0, used |-> FALSE] \in SlotRecords
    BY DEF SlotRecords
  <2>2. [pc |-> "idle", sig |-> CHOOSE s \in Sigs : TRUE, at |-> 0, fd |-> 0] \in Runs
    BY <1>1 DEF Runs
  <2>3. [pc |-> "none", slot |-> 0, got |-> {}] \in Sources
    BY DEF Sources, Phases
  <2> QED
    BY <2>1, <2>2, <2>3, Zenon DEF SigInit, SigTypes
<1>3. \A x \in Clients : c[x].pc = "none"
  BY DEF SigInit
<1>4. \A i \in Slots : slot[i].used = FALSE /\ slot[i].fd = 0 /\ slot[i].own = 0
  BY DEF SigInit
<1>5. \A t \in Handlers : h[t].pc = "idle"
  BY DEF SigInit
<1>6. SlotsInv
  BY <1>3, <1>4 DEF SlotsInv, Has, Locked
<1>7. AimInv
  BY <1>5 DEF AimInv, Aiming
<1>8. CountInv
  <2>1. {t \in Handlers : Inside(t)} = {}
    BY <1>5 DEF Inside
  <2> QED
    BY <2>1, FS_EmptySet, Zenon DEF CountInv, SigInit
<1>9. NoSignalLost /\ NoStrayWrite
  BY <1>3 DEF NoSignalLost, NoStrayWrite, At, SigInit
<1> QED
  BY <1>2, <1>6, <1>7, <1>8, <1>9 DEF HandlersInv

\* Every step of signals.cpp keeps its slots, its handles and its count.
LEMMA HandlersStep ==
  ASSUME PosixConstants, HandlersInv, [SigNext]_sgvars
  PROVE  HandlersInv'
<1>1. ASSUME NEW t \in Handlers, HandlerStep(t) PROVE HandlersInv'
  BY <1>1, HandlerKeeps DEF HandlerStep, PosixConstants
<1>2. ASSUME NEW t \in Handlers, NEW s \in Sigs, Arrives(t, s) PROVE HandlersInv'
  BY <1>2, ArrivesStep
<1>3. ASSUME NEW x \in Clients, ClientStep(x) PROVE HandlersInv'
  <2>1. ~add_ctrl_handler(x) /\ ~console_unpublish(x) /\ ~console_close(x)
    BY DEF add_ctrl_handler, console_unpublish, console_close, PosixConstants
  <2>2. \/ add_handlers(x) \/ Drains(x) \/ drop_handlers(x) \/ Spin(x) \/ Closed(x)
        \/ PublishWants(x) \/ PublishHandle(x) \/ TakesBits(x) \/ Unpublish(x)
        \/ Unlock(x)
    BY <1>3, <2>1 DEF ClientStep, Take, Close, PosixConstants
  <2> QED
    BY <2>2, QuietPhases, SlotPhases, UnlockStep
<1>4. ASSUME NEW x \in Clients, Install(x) \/ InstallFails(x) \/ Release(x) PROVE HandlersInv'
  BY <1>4, InstallStep, InstallFailsStep, QuietPhases
<1>5. ~Flush
  BY DEF Flush, HandlersInv, SigTypes
<1>6. CASE UNCHANGED sgvars
  <2>1. /\ slot' = slot /\ signalled' = signalled /\ open' = open /\ made' = made /\ mu' = mu
        /\ running' = running /\ h' = h /\ c' = c /\ buffered' = buffered /\ stray' = stray
    BY <1>6 DEF sgvars
  <2>2. SigTypes'
    BY <2>1 DEF HandlersInv, SigTypes
  <2>3. SlotsInv'
    BY <2>1, Zenon DEF HandlersInv, SlotsInv, Has, Locked, Serving, Mine
  <2>4. AimInv'
    BY <2>1, Zenon DEF HandlersInv, AimInv, Reachable, Mine, Aiming, Target
  <2>5. CountInv'
    <3>1. {t \in Handlers : Inside(t)}' = {t \in Handlers : Inside(t)}
      BY <2>1 DEF Inside
    <3> QED
      BY <2>1, <3>1 DEF HandlersInv, CountInv
  <2>6. NoSignalLost' /\ NoStrayWrite'
    BY <2>1 DEF HandlersInv, NoSignalLost, NoStrayWrite, At
  <2> QED
    BY <2>2, <2>3, <2>4, <2>5, <2>6 DEF HandlersInv
<1> QED
  BY <1>1, <1>2, <1>3, <1>4, <1>5, <1>6 DEF SigNext

\* A signal that a handler noted is seen: a bit is never set in the slot of a live
\* source with neither a byte in its pipe nor a handler about to write one.
THEOREM NoSignalIsLost ==
  ASSUME PosixConstants
  PROVE  SigSpec => []NoSignalLost
<1>1. SigInit => HandlersInv
  BY HandlersInit
<1>2. HandlersInv /\ [SigNext]_sgvars => HandlersInv'
  BY HandlersStep
<1>3. HandlersInv => NoSignalLost
  BY DEF HandlersInv
<1> QED
  BY <1>1, <1>2, <1>3, PTL DEF SigSpec

\* release() closes a pipe only when no handler can write to it any more.
THEOREM NoHandlerStrays ==
  ASSUME PosixConstants
  PROVE  SigSpec => []NoStrayWrite
<1>1. SigInit => HandlersInv
  BY HandlersInit
<1>2. HandlersInv /\ [SigNext]_sgvars => HandlersInv'
  BY HandlersStep
<1>3. HandlersInv => NoStrayWrite
  BY DEF HandlersInv
<1> QED
  BY <1>1, <1>2, <1>3, PTL DEF SigSpec

\* With the last source of a signal gone its disposition is the inherited one, and
\* a stopping signal that was inherited ignored is never taken over.
THEOREM DispositionsRestored ==
  ASSUME PosixConstants, Stopping \subseteq Sigs
  PROVE  SigSpec => []PreviousRestored
<1>1. SigInit => HandlersInv /\ DispInv
  <2> SUFFICES ASSUME SigInit PROVE HandlersInv /\ DispInv
    OBVIOUS
  <2>1. HandlersInv
    BY HandlersInit
  <2>2. refs = [s \in Sigs |-> 0] /\ disp = Inherited /\ prev = Inherited
    BY DEF SigInit
  <2>3. \A s \in Sigs : Users(s) = {}
    BY DEF SigInit, Users, Counted
  <2>4. \A s \in Sigs : refs[s] = Cardinality(Users(s))
    BY <2>2, <2>3, FS_EmptySet
  <2>5. disp = [s \in Sigs |-> IF refs[s] > 0 THEN "ours" ELSE Inherited[s]]
    <3>1. \A s \in Sigs : (IF refs[s] > 0 THEN "ours" ELSE Inherited[s]) = Inherited[s]
      BY <2>2
    <3>2. disp = [s \in Sigs |-> Inherited[s]]
      BY <2>2 DEF PosixConstants
    <3> QED
      BY <3>1, <3>2, Zenon
  <2> QED
    BY <2>1, <2>2, <2>4, <2>5 DEF DispInv, PosixConstants
<1>2. HandlersInv /\ DispInv /\ [SigNext]_sgvars => (HandlersInv /\ DispInv)'
  <2> SUFFICES ASSUME HandlersInv, DispInv, [SigNext]_sgvars PROVE HandlersInv' /\ DispInv'
    OBVIOUS
  <2>1. HandlersInv'
    BY HandlersStep
  <2>2. CASE SigNext
    BY <2>1, <2>2, DispStep DEF HandlersInv
  <2>3. CASE UNCHANGED sgvars
    <3>1. UNCHANGED <<c, tables>>
      BY <2>3 DEF sgvars, tables
    <3> QED
      BY <2>1, <3>1, DispSame DEF Users, Counted
  <2> QED
    BY <2>2, <2>3
<1>3. HandlersInv /\ DispInv => PreviousRestored
  <2> SUFFICES ASSUME DispInv PROVE PreviousRestored
    OBVIOUS
  <2>1. ASSUME \A x \in Clients : c[x].pc \in {"none", "failed"} PROVE disp = Inherited
    <3>1. \A s \in Sigs : Users(s) = {}
      BY <2>1 DEF Users, Counted
    <3>2. \A s \in Sigs : refs[s] = 0
      BY <3>1, FS_EmptySet DEF DispInv
    <3>3. \A s \in Sigs : (IF refs[s] > 0 THEN "ours" ELSE Inherited[s]) = Inherited[s]
      BY <3>2
    <3> QED
      BY <3>3, Zenon DEF DispInv, PosixConstants
  <2>2. \A s \in Stopping : Inherited[s] = "ignored" => disp[s] = "ignored"
    BY DEF DispInv
  <2> QED
    BY <2>1, <2>2 DEF PreviousRestored
<1> QED
  BY <1>1, <1>2, <1>3, PTL DEF SigSpec
=============================================================================
