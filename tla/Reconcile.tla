----------------------------- MODULE Reconcile -----------------------------
(***************************************************************************)
(* include/jaal/kernel/reconcile.hpp: running_sources, the diff between    *)
(* one subscribe() result and what runs.                                   *)
(*                                                                         *)
(* One call of reconcile() is a sequence of steps: Begin, one TakeLeaf for *)
(* each leaf of the Sub, and Diff.  A key is <<base, ordinal>>; payloads   *)
(* are left out, since the diff never looks at them.  The open-addressed   *)
(* indexes are kept as they are, because what the diff decides depends on  *)
(* which index it probes.  A read outside a vector is undefined: it may    *)
(* look like a match or like a mismatch.                                   *)
(***************************************************************************)
EXTENDS Naturals, Sequences, FiniteSets, FiniteSetsExt, SequencesExt

CONSTANTS Numbered,         \* base keys of numbered sources (every)
          Plain,            \* keys of the other sources
          Hash(_),          \* key_hash
          IndexThreshold,   \* index_threshold, 16 in the code
          MinCap,           \* smallest table, 16 in the code
          MaxLeaves         \* bound: leaves of one Sub

ASSUME ReconcileAssumption ==
  /\ Numbered \cap Plain = {}
  /\ IndexThreshold \in Nat /\ MaxLeaves \in Nat
  /\ MinCap \in Nat \ {0}

\* A hash for instances whose base keys are integers: bases 1, 2 and 3 with their
\* ordinals share few places of a small table.
KeyHash(k) == k[1] + k[2]

VARIABLES running,      \* running_: keys, in the order of the last Sub
          want,         \* want_
          ordinals,     \* ordinals_: next ordinal of each base key
          wantIx,       \* want_ix_; <<>> = never allocated
          ordIx,        \* ord_ix_
          indexed, ordIndexed,
          plan,         \* plan_, as sets of keys and a number of duplicates
          taken,        \* the leaves of this Sub visited so far
          phase         \* inside or outside a call

vars == <<running, want, ordinals, wantIx, ordIx, indexed, ordIndexed, plan, taken, phase>>

Bases    == Numbered \cup Plain
Keys     == Bases \X (0..MaxLeaves)
NoPlan   == [start |-> {}, keep |-> {}, stop |-> {}, duplicates |-> 0]
kEmpty   == 0     \* slots are numbered from 1
-----------------------------------------------------------------------------
(* The flat hash index: a table of slots into a sequence of keys *)

\* The smallest power of two times MinCap with a load of at most one half.
Cap(n) == MinCap * 2 ^ Min({j \in 0..n : MinCap * 2 ^ j >= 2 * n})

Size(ix) == Cardinality(DOMAIN ix)

\* The d-th place a probe for k looks at.
Place(ix, k, d) == (Hash(k) + d) % Size(ix)

\* Variant: a taken place is overwritten.
Insert_NoProbe(ix, ks, i) == [ix EXCEPT ![Place(ix, ks[i], 0)] = i]

Insert(ix, ks, i) ==
  LET d == Min({e \in 0..(Size(ix) - 1) : ix[Place(ix, ks[i], e)] = kEmpty})
  IN  [ix EXCEPT ![Place(ix, ks[i], d)] = i]

index(ks) ==
  LET T[i \in 0..Len(ks)] ==
        IF i = 0 THEN [p \in 0..(Cap(Len(ks)) - 1) |-> kEmpty] ELSE Insert(T[i - 1], ks, i)
  IN  T[Len(ks)]

\* The new last key of ks joins the index, which grows past half load.
Add(ix, ks) == IF Len(ks) * 2 > Size(ix) THEN index(ks) ELSE Insert(ix, ks, Len(ks))

\* Where a probe for k ends if no slot points outside ks: at k or at a hole.
Ends(ix, ks, k) ==
  {d \in 0..(Size(ix) - 1) :
     LET slot == ix[Place(ix, k, d)]
     IN  slot = kEmpty \/ (slot <= Len(ks) /\ ks[slot] = k)}

SlotOf(ix, ks, k) == ix[Place(ix, k, Min(Ends(ix, ks, k)))]

\* What probe() != nullptr may be: both, once a slot outside ks is read.
probe(ix, ks, k) ==
  IF ix = <<>> THEN BOOLEAN
  ELSE LET last == Min(Ends(ix, ks, k))
       IN  {SlotOf(ix, ks, k) # kEmpty}
             \cup {TRUE : d \in {e \in 0..last : ix[Place(ix, k, e)] > Len(ks)}}

find(ks, k) == k \in ToSet(ks)
-----------------------------------------------------------------------------
(* take_leaf *)

BasesOf(ords) == [i \in 1..Len(ords) |-> <<ords[i].base, 0>>]

\* The crossing: the bases counted so far move into the index, once.
Crossing == ~ordIndexed /\ Len(ordinals) > IndexThreshold

OrdIxNow == IF Crossing THEN index(BasesOf(ordinals)) ELSE ordIx

\* The place of base in ordinals_, 0 if it has none.
OrdinalSlot(b) ==
  IF ordIndexed \/ Crossing
  THEN SlotOf(OrdIxNow, BasesOf(ordinals), <<b, 0>>)
  ELSE LET at == {i \in 1..Len(ordinals) : ordinals[i].base = b}
       IN  IF at = {} THEN 0 ELSE Min(at)

\* Variant: the counter of a base found through the index stays as it is.
next_ordinal_NotBumped(b) ==
  LET slot == OrdinalSlot(b) IN
  /\ ordIndexed' = (ordIndexed \/ Crossing)
  /\ IF slot # 0
     THEN /\ ordinals' = IF ordIndexed' THEN ordinals ELSE [ordinals EXCEPT ![slot].n = @ + 1]
          /\ ordIx' = OrdIxNow
     ELSE /\ ordinals' = Append(ordinals, [base |-> b, n |-> 1])
          /\ ordIx' = IF ordIndexed' THEN Add(OrdIxNow, BasesOf(ordinals')) ELSE ordIx

next_ordinal(b) ==
  LET slot == OrdinalSlot(b) IN
  /\ ordIndexed' = (ordIndexed \/ Crossing)
  /\ IF slot # 0
     THEN /\ ordinals' = [ordinals EXCEPT ![slot].n = @ + 1]
          /\ ordIx' = OrdIxNow
     ELSE /\ ordinals' = Append(ordinals, [base |-> b, n |-> 1])
          /\ ordIx' = IF ordIndexed' THEN Add(OrdIxNow, BasesOf(ordinals')) ELSE ordIx

OrdinalOf(b) == LET slot == OrdinalSlot(b) IN IF slot = 0 THEN 0 ELSE ordinals[slot].n

\* want_has builds the index of want_ when it finds it past the threshold.
Builds == ~indexed /\ Len(want) > IndexThreshold

WantIxNow == IF Builds THEN index(want) ELSE wantIx

want_has(k) ==
  IF indexed \/ Builds THEN TRUE \in probe(WantIxNow, want, k) ELSE find(want, k)

AddOrReport(k) ==
  /\ indexed' = (indexed \/ Builds)
  /\ IF want_has(k)
     THEN /\ plan' = [plan EXCEPT !.duplicates = @ + 1]
          /\ wantIx' = WantIxNow
          /\ UNCHANGED want
     ELSE /\ want' = Append(want, k)
          /\ wantIx' = IF indexed' THEN Add(WantIxNow, want') ELSE WantIxNow
          /\ UNCHANGED plan

TakeLeaf(b) ==
  /\ phase = "taking" /\ Len(taken) < MaxLeaves
  /\ taken' = Append(taken, b)
  /\ IF b \in Numbered
     THEN next_ordinal(b) /\ AddOrReport(<<b, OrdinalOf(b)>>)
     ELSE AddOrReport(<<b, 0>>) /\ UNCHANGED <<ordinals, ordIx, ordIndexed>>
  /\ UNCHANGED <<running, phase>>
-----------------------------------------------------------------------------
(* reconcile *)

Init ==
  /\ running = <<>> /\ want = <<>> /\ ordinals = <<>>
  /\ wantIx = <<>> /\ ordIx = <<>> /\ indexed = FALSE /\ ordIndexed = FALSE
  /\ plan = NoPlan /\ taken = <<>> /\ phase = "idle"

\* The scratch is cleared, but for the tables: an index is as old as its
\* last rebuild.
Begin ==
  /\ phase = "idle"
  /\ want' = <<>> /\ ordinals' = <<>> /\ plan' = NoPlan /\ taken' = <<>>
  /\ indexed' = FALSE /\ ordIndexed' = FALSE
  /\ phase' = "taking"
  /\ UNCHANGED <<running, wantIx, ordIx>>

Big == Len(want) > IndexThreshold \/ Len(running) > IndexThreshold

IsRunning(k) == IF Big THEN TRUE \in probe(index(running), running, k) ELSE find(running, k)

\* What the stop loop may take "k is still wanted" for.
StillWanted(k) == IF Big THEN probe(wantIx, want, k) ELSE {find(want, k)}

\* Variant: the two sides are swapped before the stop loop.
Diff_SwapFirst ==
  /\ phase = "taking"
  /\ plan' = [plan EXCEPT !.start = {k \in ToSet(want) : ~IsRunning(k)},
                          !.keep = {k \in ToSet(want) : IsRunning(k)}]
  /\ running' = want /\ want' = <<>>
  /\ phase' = "done"
  /\ UNCHANGED <<ordinals, wantIx, ordIx, indexed, ordIndexed, taken>>

\* want_ takes the old running_'s storage, and is cleared by the next call.
Diff ==
  /\ phase = "taking"
  /\ \E wanted \in [ToSet(running) -> BOOLEAN] :
       /\ \A k \in ToSet(running) : wanted[k] \in StillWanted(k)
       /\ plan' = [plan EXCEPT !.start = {k \in ToSet(want) : ~IsRunning(k)},
                               !.keep = {k \in ToSet(want) : IsRunning(k)},
                               !.stop = {k \in ToSet(running) : ~wanted[k]}]
  /\ running' = want /\ want' = <<>>
  /\ phase' = "done"
  /\ UNCHANGED <<ordinals, wantIx, ordIx, indexed, ordIndexed, taken>>

\* The kernel has acted on the plan.  The scratch the next call clears before
\* it reads it is cleared here already (index() assigns ord_ix_ afresh before
\* it is probed; want_ix_ is kept, since the stop loop may probe the old one).
Return ==
  /\ phase = "done"
  /\ phase' = "idle" /\ plan' = NoPlan /\ taken' = <<>> /\ ordinals' = <<>> /\ ordIx' = <<>>
  /\ indexed' = FALSE /\ ordIndexed' = FALSE
  /\ UNCHANGED <<running, want, wantIx>>

Next == Begin \/ (\E b \in Bases : TakeLeaf(b)) \/ Diff \/ Return

Spec == Init /\ [][Next]_vars
-----------------------------------------------------------------------------
(* same_sources *)

NthOf(s, i) == Cardinality({j \in 1..(i - 1) : s[j] = s[i]})

\* Variant: every ordinal is 0.
CollectKeys_NoOrdinals(s) == [i \in 1..Len(s) |-> <<s[i], 0>>]

\* The keys collect_key() lists for a Sub with these leaves.
CollectKeys(s) == [i \in 1..Len(s) |-> <<s[i], IF s[i] \in Numbered THEN NthOf(s, i) ELSE 0>>]

same_sources(s) ==
  LET seen == CollectKeys(s)
  IN  Len(seen) = Len(running) /\ \A i \in 1..Len(seen) : find(running, seen[i])
-----------------------------------------------------------------------------
(* Properties *)

\* The containers hold keys and slots of the right kind.
TypeOK ==
  /\ running \in Seq(Keys) /\ want \in Seq(Keys)
  /\ \A i \in DOMAIN ordinals : ordinals[i].base \in Numbered /\ ordinals[i].n \in 1..MaxLeaves
  /\ \A p \in DOMAIN wantIx : wantIx[p] \in 0..MaxLeaves
  /\ \A p \in DOMAIN ordIx : ordIx[p] \in 0..MaxLeaves
  /\ indexed \in BOOLEAN /\ ordIndexed \in BOOLEAN
  /\ plan.start \cup plan.keep \cup plan.stop \subseteq Keys
  /\ taken \in Seq(Bases) /\ phase \in {"idle", "taking", "done"}

\* The keys a Sub stands for, from its definition: the n-th numbered leaf of
\* a base has ordinal n, and a key that comes again counts once.
Wanted == {<<b, i>> \in Keys :
             LET times == Cardinality({j \in DOMAIN taken : taken[j] = b})
             IN  IF b \in Numbered THEN i < times ELSE times > 0 /\ i = 0}

\* Whatever the threshold switches on along the way, want_ holds each wanted
\* key once and everything else was reported as a duplicate
\* (reconcile.hpp:13-17, 308-312).
WantExact ==
  phase = "taking" =>
    /\ ToSet(want) = Wanted /\ IsInjective(want)
    /\ plan.duplicates = Len(taken) - Len(want)

\* An index in use answers exactly like the scan it replaces, and keeps a
\* hole, without which a probe would not end (reconcile.hpp:227-229).
IndexAgrees ==
  phase = "taking" =>
    /\ indexed => /\ \A k \in Keys : probe(wantIx, want, k) = {find(want, k)}
                  /\ 2 * Len(want) <= Size(wantIx)
    /\ ordIndexed => 2 * Len(ordinals) <= Size(ordIx)

\* The plan is the difference of the two sets (reconcile.hpp:8-12), whenever
\* the stop loop scans want_ or probes an index built in this call.
PlanExact ==
  [][phase = "taking" /\ phase' = "done" /\ (Big => indexed)
       => /\ plan'.start = Wanted \ ToSet(running)
          /\ plan'.keep = Wanted \cap ToSet(running)
          /\ plan'.stop = ToSet(running) \ Wanted]_vars

\* same_sources() tells whether reconcile() would change anything
\* (reconcile.hpp:155-157), for a Sub without duplicates.
SameSourcesExact ==
  phase = "taking" /\ plan.duplicates = 0
    => (same_sources(taken) <=> Wanted = ToSet(running))

\* What reconcile.hpp:12 says: "key only in old: STOP".
StopsWhatLeft ==
  [][phase = "taking" /\ phase' = "done" => plan'.stop = ToSet(running) \ Wanted]_vars
=============================================================================
