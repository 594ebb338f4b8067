---------------------------- MODULE NumberLemmas ----------------------------
(***************************************************************************)
(* What the proofs of several components need of numbers: induction in a   *)
(* form that quantifies over sets only, and greatest and least elements.   *)
(***************************************************************************)
EXTENDS Integers, Sequences, WellFoundedInduction, TLAPS

\* A nonempty set of natural numbers has a least element.
LEMMA LeastNumber ==
  ASSUME NEW S \in SUBSET Nat, S # {}
  PROVE  \E n \in S : \A m \in S : n <= m
<1> DEFINE R == OpToRel(<, Nat)
<1>1. IsWellFoundedOn(R, Nat)
  BY NatLessThanWellFounded
<1>2. R = {ss \in Nat \X Nat : ss[1] < ss[2]}
  BY DEF OpToRel
<1> HIDE DEF R
<1>3. PICK n \in S : \A m \in S : ~ (<<m, n>> \in R)
  BY <1>1, WFMin
<1>4. ASSUME NEW m \in S
      PROVE  n <= m
  <2>1. n \in Nat /\ m \in Nat
    OBVIOUS
  <2>2. <<m, n>> \in R <=> m < n
    BY <1>2, <2>1
  <2>3. QED
    BY <1>3, <2>1, <2>2
<1>5. QED
  BY <1>4

\* Induction over a set of numbers.
LEMMA SetInduction ==
  ASSUME NEW S, 0 \in S, \A n \in Nat : n \in S => n + 1 \in S
  PROVE  Nat \subseteq S
<1> SUFFICES ASSUME Nat \ S # {} PROVE FALSE
  OBVIOUS
<1>1. PICK n \in Nat \ S : \A m \in Nat \ S : n <= m
  BY LeastNumber
<1>2. n - 1 \in Nat /\ n - 1 \in S
  BY <1>1
<1>3. QED
  BY <1>1, <1>2

\* A nonempty set of numbers with a bound has a greatest element.
LEMMA GreatestNumber ==
  ASSUME NEW S \in SUBSET Nat, S # {}, NEW b \in Nat, \A n \in S : n <= b
  PROVE  \E n \in S : \A m \in S : m <= n
<1> DEFINE B == {c \in Nat : \A n \in S : n <= c}
<1>1. PICK c \in B : \A d \in B : c <= d
  BY LeastNumber
<1>2. CASE c = 0
  <2>1. PICK n \in S : TRUE
    OBVIOUS
  <2>2. n = 0 /\ \A m \in S : m <= n
    BY <1>2
  <2>3. QED
    BY <2>2
<1>3. CASE c # 0 /\ c \notin S
  <2>1. c - 1 \in B
    BY <1>1, <1>3
  <2>2. QED
    BY <1>1, <2>1
<1>4. QED
  BY <1>1, <1>2, <1>3

\* A number is a multiple of w and a rest below w in one way only.
LEMMA QuotientAndRest ==
  ASSUME NEW a \in Nat, NEW w \in Nat \ {0}
  PROVE  /\ a \div w \in Nat /\ a % w \in 0..w - 1
         /\ a = (a \div w) * w + (a % w)
<1> DEFINE q == a \div w
           m == a % w
<1>1. q \in Int /\ m \in 0..w - 1 /\ a = w * q + m
  OBVIOUS
<1> HIDE DEF q, m
<1>2. ASSUME q < 0 PROVE FALSE
  <2>1. w * q <= w * (-1)
    BY <1>1, <1>2
  <2>2. QED
    BY <1>1, <2>1
<1>3. q \in Nat
  BY <1>1, <1>2
<1>4. w * q = q * w
  BY <1>1
<1>5. QED
  BY <1>1, <1>3, <1>4 DEF q, m

LEMMA OneQuotient ==
  ASSUME NEW w \in Nat \ {0}, NEW a \in 0..w - 1, NEW b \in 0..w - 1, NEW i \in Nat, NEW j \in Nat,
         i * w + a = j * w + b
  PROVE  i = j /\ a = b
<1>1. ASSUME NEW x \in Nat, NEW y \in Nat, NEW c \in 0..w - 1, NEW d \in 0..w - 1,
             x * w + c = y * w + d, x < y
      PROVE  FALSE
  <2>1. x + 1 <= y
    BY <1>1
  <2>2. (x + 1) * w <= y * w
    BY <2>1
  <2>3. (x + 1) * w = x * w + w
    OBVIOUS
  <2>4. x * w \in Nat /\ y * w \in Nat
    OBVIOUS
  <2>5. QED
    BY <1>1, <2>2, <2>3, <2>4
<1>2. i = j
  BY <1>1
<1>3. i * w \in Nat
  OBVIOUS
<1>4. QED
  BY <1>2, <1>3

LEMMA RestIs ==
  ASSUME NEW w \in Nat \ {0}, NEW m \in 0..w - 1, NEW i \in Nat
  PROVE  (i * w + m) % w = m
<1> DEFINE a == i * w + m
<1>1. a \in Nat
  OBVIOUS
<1>2. a \div w \in Nat /\ a % w \in 0..w - 1 /\ a = (a \div w) * w + (a % w)
  BY <1>1, QuotientAndRest
<1>3. QED
  BY <1>2, OneQuotient DEF a
=============================================================================
