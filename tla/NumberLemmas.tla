----------------------------- MODULE NumberLemmas -----------------------------
(***************************************************************************)
(* Facts about numbers that the proofs about several modules need: an      *)
(* induction, and arithmetic with a product or a quotient in it.           *)
(***************************************************************************)
EXTENDS Integers, WellFoundedInduction, TLAPS

(***************************************************************************)
(* Induction over the naturals, from the library's least element.          *)
(***************************************************************************)

\* A set of naturals that has a member has a least one.
LEMMA LeastNumber ==
  ASSUME NEW T \in SUBSET Nat, T # {}
  PROVE  \E m \in T : \A k \in T : m <= k
<1> DEFINE R == OpToRel(<, Nat)
<1>1. IsWellFoundedOn(R, Nat)
  BY NatLessThanWellFounded
<1>3. \A x, y \in Nat : << y, x >> \in R <=> y < x
  BY DEF OpToRel
<1> HIDE DEF R
<1>2. \E x \in T : \A y \in T : ~(<< y, x >> \in R)
  BY <1>1, WFMin
<1>4. PICK m \in T : \A k \in T : ~(<< k, m >> \in R)
  BY <1>2
<1>5. \A k \in T : ~(k < m)
  BY <1>3, <1>4
<1> QED
  BY <1>5

\* A set that holds 0, and the successor of every natural it holds, holds them all.
LEMMA SetInduction ==
  ASSUME NEW S, 0 \in S, \A n \in Nat : n \in S => n + 1 \in S
  PROVE  Nat \subseteq S
<1> SUFFICES ASSUME ~(Nat \subseteq S) PROVE FALSE
  OBVIOUS
<1>1. PICK m \in Nat \ S : \A k \in Nat \ S : m <= k
  BY LeastNumber
<1>2. m # 0 /\ m - 1 \in Nat /\ m - 1 \in S
  BY <1>1
<1> QED
  BY <1>1, <1>2

(***************************************************************************)
(* Arithmetic.                                                             *)
(***************************************************************************)
LEMMA ProductMonotone ==
  ASSUME NEW a \in Nat, NEW b \in Nat, NEW c \in Nat, a <= b
  PROVE  c * a <= c * b
<1>1. PICK d \in Nat : b = a + d
  BY b - a \in Nat
<1>2. c * b = c * a + c * d /\ c * d \in Nat /\ c * a \in Nat
  BY <1>1
<1> QED
  BY <1>2

LEMMA QuotientBound ==
  ASSUME NEW a \in Nat, NEW b \in Nat \ {0}, NEW k \in Nat, a < b * (k + 1)
  PROVE  a \div b \in 0 .. k
<1> DEFINE q == a \div b
<1>1. q \in Int /\ b * q <= a /\ a < b * (q + 1)
  OBVIOUS
<1>2. q >= 0
  <2> SUFFICES ASSUME q + 1 <= 0 PROVE FALSE
    BY <1>1
  <2>1. -(q + 1) \in Nat /\ b * (-(q + 1)) \in Nat
    BY <1>1
  <2>2. b * (-(q + 1)) = -(b * (q + 1))
    BY <1>1
  <2> QED
    BY <1>1, <2>1, <2>2
<1>3. q <= k
  <2> SUFFICES ASSUME k + 1 <= q PROVE FALSE
    BY <1>1
  <2>1. b * (k + 1) <= b * q
    BY <1>1, ProductMonotone
  <2> QED
    BY <1>1, <2>1
<1> HIDE DEF q
<1>4. q \in 0 .. k
  BY <1>1, <1>2, <1>3
<1> QED
  BY <1>4 DEF q

LEMMA SmallRemainder ==
  ASSUME NEW w \in Nat \ {0}, NEW n \in Int, -w < n, n < w
  PROVE  n % w = IF n >= 0 THEN n ELSE n + w
OBVIOUS
===============================================================================
