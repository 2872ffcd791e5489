--------------------------- MODULE EraseIfProofs ---------------------------
(***************************************************************************)
(* What the walk of std::erase_if keeps, for every sequence and every      *)
(* predicate.  The walk is a recursive function on the indexes; the        *)
(* induction over them is by the least index at which a claim fails, which *)
(* is the well-foundedness of the naturals.                                *)
(***************************************************************************)
EXTENDS EraseIf, FiniteSetTheorems, NaturalsInduction, WellFoundedInduction, TLAPS

\* A set of naturals that is not empty has a least element: the induction used
\* below for the indexes erase_if walks over.
LEMMA NatLeast ==
  ASSUME NEW T \in SUBSET Nat, T # {}
  PROVE  \E x \in T : \A y \in T : x <= y
<1>1. IsWellFoundedOn(OpToRel(<,Nat), Nat)
  BY NatLessThanWellFounded, Zenon
<1>2. PICK x \in T : \A y \in T : ~(<<y,x>> \in OpToRel(<,Nat))
  BY <1>1, WFMin, Zenon
<1>3. ASSUME NEW y \in Nat, NEW z \in Nat, y < z PROVE <<y,z>> \in OpToRel(<,Nat)
  <2>1. <<y,z>> \in Nat \X Nat
    OBVIOUS
  <2>2. <<y,z>>[1] < <<y,z>>[2]
    BY <1>3, SMT
  <2>3. <<y,z>> \in {ss \in Nat \X Nat : ss[1] < ss[2]}
    BY <2>1, <2>2, Zenon
  <2> QED
    BY <2>3, Zenon DEF OpToRel
<1>4. \A y \in T : ~(y < x)
  <2> SUFFICES ASSUME NEW y \in T, y < x PROVE FALSE
    OBVIOUS
  <2>1. <<y,x>> \in OpToRel(<,Nat)
    BY <1>3, Zenon
  <2> QED
    BY <1>2, <2>1, Zenon
<1>5. \A y \in T : x <= y
  BY <1>4, SMT
<1> QED
  BY <1>5

\* Induction from 0 up to n: a set that holds 0 and, with each index, the next
\* one holds them all.
LEMMA UpTo ==
  ASSUME NEW n \in Nat, NEW T \in SUBSET (0..n), 0 \in T,
         \A i \in 1..n : i - 1 \in T => i \in T
  PROVE  T = 0..n
<1> SUFFICES ASSUME (0..n) \ T # {} PROVE FALSE
  OBVIOUS
<1>0. (0..n) \ T \in SUBSET Nat
  OBVIOUS
<1>1. PICK x \in (0..n) \ T : \A y \in (0..n) \ T : x <= y
  BY <1>0, NatLeast, Zenon
<1>2. x # 0 /\ x \in 1..n /\ x - 1 \in 0..n /\ ~(x <= x - 1)
  OBVIOUS
<1>3. x - 1 \in T
  BY <1>1, <1>2
<1> QED
  BY <1>2, <1>3

\* What the walk of erase_if has kept at index i, given what it had kept at
\* the index before.
WalkStep(s, S, k, i) == IF i = 0 THEN <<>>
                    ELSE IF s[i] \in S THEN Append(k[i - 1], s[i]) ELSE k[i - 1]

\* The walks over the first m elements.
Walks(s, S, m) == {k \in [0..m -> Seq(S)] : \A i \in 0..m : k[i] = WalkStep(s, S, k, i)}

\* The recursive definition of the walk has a solution, so the function Keeping
\* chooses is one (erase_if visits every element of a finite vector).
LEMMA WalkExists ==
  ASSUME NEW E, NEW s \in Seq(E), NEW S
  PROVE  Walks(s, S, Len(s)) # {}
<1> DEFINE T == {m \in 0..Len(s) : Walks(s, S, m) # {}}
<1>1. 0 \in T
  <2> DEFINE k == [i \in 0..0 |-> <<>>]
  <2>1. k \in Walks(s, S, 0)
    BY DEF Walks, WalkStep
  <2> QED
    BY <2>1
<1>2. ASSUME NEW m \in 1..Len(s), m - 1 \in T PROVE m \in T
  <2>1. PICK k \in [0..(m-1) -> Seq(S)] : \A i \in 0..(m-1) : k[i] = WalkStep(s, S, k, i)
    BY <1>2, Zenon DEF Walks
  <2> DEFINE j == [i \in 0..m |-> IF i = m THEN WalkStep(s, S, k, m) ELSE k[i]]
  <2>2. WalkStep(s, S, k, m) \in Seq(S)
    BY DEF WalkStep
  <2>3. j \in [0..m -> Seq(S)]
    BY <2>2
  <2>4. \A i \in 0..m : WalkStep(s, S, j, i) = WalkStep(s, S, k, i)
    BY DEF WalkStep
  <2>5. ASSUME NEW i \in 0..m PROVE j[i] = WalkStep(s, S, j, i)
    <3>1. CASE i = m
      BY <3>1, <2>4
    <3>2. CASE i # m
      <4>1. i \in 0..(m-1) /\ j[i] = k[i]
        BY <3>2
      <4> QED
        BY <4>1, <2>1, <2>4, Zenon
    <3> QED
      BY <3>1, <3>2
  <2>6. j \in Walks(s, S, m)
    BY <2>3, <2>5, Zenon DEF Walks
  <2> QED
    BY <2>6
<1>3. T = 0..Len(s)
  <2>1. Len(s) \in Nat /\ T \in SUBSET (0..Len(s))
    OBVIOUS
  <2> HIDE DEF T
  <2> QED
    BY <1>1, <1>2, <2>1, UpTo, Zenon
<1> QED
  BY <1>3


\* erase_if keeps only elements it should keep, and as many as there are: the
\* "before - out.size()" that drain_tagged counts (mailbox.hpp:212-217) is
\* exactly the number of entries of retired origins.
LEMMA KeepingHolds ==
  ASSUME NEW E, NEW s \in Seq(E), NEW S
  PROVE  /\ Keeping(s, S) \in Seq(E \cap S)
         /\ Len(Keeping(s, S)) = Cardinality({i \in 1..Len(s) : s[i] \in S})
         /\ Len(Keeping(s, S)) <= Len(s)
<1> DEFINE Walk(k) == [i \in 0..Len(s) |->
                         IF i = 0 THEN <<>>
                         ELSE IF s[i] \in S THEN Append(k[i - 1], s[i]) ELSE k[i - 1]]
           F == CHOOSE k : k = Walk(k)
           In(i) == {j \in 1..i : s[j] \in S}
           T == {i \in 0..Len(s) : F[i] \in Seq(E \cap S) /\ Len(F[i]) = Cardinality(In(i))}
<1>1. Keeping(s, S) = F[Len(s)]
  BY DEF Keeping
<1>2. F = Walk(F)
  <2>1. PICK k \in [0..Len(s) -> Seq(S)] : \A i \in 0..Len(s) : k[i] = WalkStep(s, S, k, i)
    BY WalkExists, Zenon DEF Walks
  <2>2. k = Walk(k)
    BY <2>1 DEF WalkStep
  <2> HIDE DEF Walk
  <2> QED
    BY <2>2
<1> HIDE DEF F
<1>a. \A i \in 0..Len(s) :
        F[i] = IF i = 0 THEN <<>>
               ELSE IF s[i] \in S THEN Append(F[i - 1], s[i]) ELSE F[i - 1]
  <2> DEFINE W == Walk(F)
  <2>1. \A i \in 0..Len(s) :
          W[i] = IF i = 0 THEN <<>>
                 ELSE IF s[i] \in S THEN Append(F[i - 1], s[i]) ELSE F[i - 1]
    OBVIOUS
  <2>2. F = W
    BY <1>2, Zenon
  <2> HIDE DEF W
  <2> QED
    BY <2>1, <2>2, Zenon
<1>3. 0 \in T
  <2>1. F[0] = <<>> 
    BY <1>a
  <2>2. In(0) = {}
    OBVIOUS
  <2>3. Cardinality(In(0)) = 0
    BY <2>2, FS_EmptySet, Zenon
  <2> HIDE DEF In
  <2>4. F[0] \in Seq(E \cap S) /\ Len(F[0]) = Cardinality(In(0))
    BY <2>1, <2>3
  <2> QED
    BY <2>4
<1>4. ASSUME NEW i \in 1..Len(s), i - 1 \in T PROVE i \in T
  <2>1. F[i] = IF s[i] \in S THEN Append(F[i - 1], s[i]) ELSE F[i - 1]
    BY <1>a
  <2>2. F[i - 1] \in Seq(E \cap S) /\ Len(F[i - 1]) = Cardinality(In(i - 1))
    BY <1>4
  <2>3. IsFiniteSet(In(i - 1)) /\ i \notin In(i - 1)
    <3>1. IsFiniteSet(1..(i - 1))
      BY FS_Interval
    <3>2. In(i - 1) \subseteq 1..(i - 1)
      OBVIOUS
    <3>3. i \notin 1..(i - 1)
      OBVIOUS
    <3> HIDE DEF In
    <3> QED
      BY <3>1, <3>2, <3>3, FS_Subset
  <2>4. CASE s[i] \in S
    <3>1. In(i) = In(i - 1) \cup {i}
      BY <2>4
    <3>2. Cardinality(In(i)) = Cardinality(In(i - 1)) + 1
      <4> HIDE DEF In
      <4> QED
        BY <3>1, <2>3, FS_AddElement, Zenon
    <3>3. s[i] \in E \cap S
      BY <2>4
    <3> HIDE DEF In
    <3> QED
      <4>1. F[i] = Append(F[i - 1], s[i])
        BY <2>1, <2>4
      <4>2. F[i] \in Seq(E \cap S) /\ Len(F[i]) = Len(F[i - 1]) + 1
        BY <4>1, <2>2, <3>3
      <4> QED
        BY <4>2, <2>2, <3>2
  <2>5. CASE s[i] \notin S
    <3>1. In(i) = In(i - 1)
      BY <2>5
    <3> HIDE DEF In
    <3> QED
      BY <2>1, <2>2, <2>5, <3>1
  <2> QED
    BY <2>4, <2>5
<1>5. T = 0..Len(s)
  <2>1. Len(s) \in Nat /\ T \in SUBSET (0..Len(s))
    OBVIOUS
  <2> HIDE DEF T
  <2> QED
    BY <1>3, <1>4, <2>1, UpTo, Zenon
<1>6. Len(s) \in T
  <2>1. Len(s) \in 0..Len(s)
    OBVIOUS
  <2> QED
    BY <1>5, <2>1, Zenon
<1>7. F[Len(s)] \in Seq(E \cap S) /\ Len(F[Len(s)]) = Cardinality(In(Len(s)))
  BY <1>6
<1>8. Cardinality(In(Len(s))) <= Len(s)
  <2>1. IsFiniteSet(1..Len(s)) /\ Cardinality(1..Len(s)) = Len(s)
    <3>1. Len(s) \in Nat /\ 1 \in Int /\ Len(s) \in Int
      OBVIOUS
    <3>2. /\ IsFiniteSet(1..Len(s))
          /\ Cardinality(1..Len(s)) = IF 1 > Len(s) THEN 0 ELSE Len(s) - 1 + 1
      BY <3>1, FS_Interval, Zenon
    <3> QED
      BY <3>1, <3>2
  <2>2. In(Len(s)) \subseteq 1..Len(s)
    OBVIOUS
  <2> HIDE DEF In
  <2> QED
    BY <2>1, <2>2, FS_Subset, Zenon
<1> QED
  BY <1>1, <1>7, <1>8, Zenon
=============================================================================
