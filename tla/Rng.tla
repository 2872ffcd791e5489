-------------------------------- MODULE Rng --------------------------------
(***************************************************************************)
(* The integer draws of rng (core/rng.hpp) on words of WordBits bits (64   *)
(* in the code).  A type is its number of bits; an int has IntBits (32)    *)
(* and arithmetic on a narrower type is done in int.  next()'s mixing is   *)
(* left out: a word is any word, and a draw is fair if each result has     *)
(* equally many words behind it.                                           *)
(***************************************************************************)
EXTENDS Integers, FiniteSets

CONSTANTS WordBits, IntBits,
          Types           \* bits of the types in() is used with

Words == 0..2^WordBits - 1
WordMax == 2^WordBits - 1

VARIABLES ask,            \* the draw asked for: in(lo, hi) of a type
          word            \* the last word drawn, or -1 before the first

rvars == <<ask, word>>

(* The values of a signed type, and its conversions. *)
Signed(b) == -(2^(b - 1))..2^(b - 1) - 1
ToU(b, v) == v % 2^b
ToI(b, u) == IF u % 2^b >= 2^(b - 1) THEN (u % 2^b) - 2^b ELSE u % 2^b

(* Variant: one word too many is accepted. *)
limit_OffByOne(n) == WordMax - (WordMax % n)

(* below(n): words past the limit are drawn again. *)
limit(n) == WordMax - (WordMax % n) - 1
below(n, x) == IF n = 0 THEN 0 ELSE x % n
Accepts(n, x) == n = 0 \/ x <= limit(n)

lo(a) == IF a.hi < a.lo THEN a.hi ELSE a.lo
hi(a) == IF a.hi < a.lo THEN a.lo ELSE a.hi

(* span: the subtraction is made in the unsigned type, or in int if that   *)
(* is wider, and then converted to a word.                                 *)
span(a) ==
    LET d == ToU(a.bits, hi(a)) - ToU(a.bits, lo(a))
    IN  (IF a.bits < IntBits THEN d ELSE d % 2^a.bits) % 2^WordBits

Choices(a) == (span(a) + 1) % 2^WordBits

in(a, x) == ToI(a.bits, ToU(a.bits, lo(a)) + ToU(a.bits, below(Choices(a), x)))

pick(n, x) == IF n = 0 THEN -1 ELSE below(n, x)

RngInit ==
    /\ ask \in UNION {[bits : {b}, lo : Signed(b), hi : Signed(b)] : b \in Types}
    /\ word = -1

(* below()'s loop: another word as long as the last is not accepted. *)
Draw ==
    /\ word = -1 \/ ~Accepts(Choices(ask), word)
    /\ \E x \in Words : word' = x
    /\ UNCHANGED ask

RngNext == Draw
RngSpec == RngInit /\ [][RngNext]_rvars

(* The ranges in() is meant for: not the full range of a word, whose size  *)
(* is no word, and, of a type narrower than int, bounds of one sign.       *)
Usual(a) ==
    /\ hi(a) - lo(a) < WordMax
    /\ a.bits >= IntBits \/ lo(a) >= 0 \/ hi(a) < 0

Ways(a, v) == Cardinality({x \in Words : Accepts(Choices(a), x) /\ in(a, x) = v})

(* A draw is a number in [lo, hi], for any integer type. *)
InBounds == word >= 0 /\ Accepts(Choices(ask), word) => in(ask, word) \in lo(ask)..hi(ask)

(* On the usual ranges a draw lies within its bounds, swapped or not, and  *)
(* every value between them comes up equally often; so does every index of *)
(* pick().                                                                 *)
DrawsFairly ==
    Usual(ask) =>
      /\ InBounds
      /\ \A v \in lo(ask)..hi(ask) : Ways(ask, v) = Ways(ask, lo(ask)) /\ Ways(ask, v) > 0
      /\ word >= 0 => pick(Choices(ask), word) \in 0..hi(ask) - lo(ask)
=============================================================================
