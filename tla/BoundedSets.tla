----------------------------- MODULE BoundedSets -----------------------------
(***************************************************************************)
(* The first and the last of a bounded set of numbers: rows and columns    *)
(* are picked with Min and Max everywhere in the layouts.                  *)
(***************************************************************************)
EXTENDS Integers, FiniteSetsExt, WellFoundedInduction, TLAPS

\* A non-empty set of numbers up to N has a first one, and Min is it.
LEMMA MinOfBounded ==
  ASSUME NEW N \in Nat, NEW S \in SUBSET (0..N), S # {}
  PROVE  Min(S) \in S /\ \A x \in S : Min(S) <= x
<1>1. S \subseteq Nat
  OBVIOUS
<1>2. PICK m \in S : ~ \E y \in S : <<y, m>> \in OpToRel(<, Nat)
  BY <1>1, WFMin, NatLessThanWellFounded, Zenon
<1>3. \A y \in S : m <= y
  BY <1>1, <1>2 DEF OpToRel
<1> QED BY <1>3 DEF Min

\* ... and a last one, and Max is it.
LEMMA MaxOfBounded ==
  ASSUME NEW N \in Nat, NEW S \in SUBSET (0..N), S # {}
  PROVE  Max(S) \in S /\ \A x \in S : x <= Max(S)
<1> DEFINE T == {n \in Nat : N - n \in S}
<1>1. T \subseteq Nat /\ T # {}
  <2>1. PICK x \in S : TRUE
    OBVIOUS
  <2>2. N - x \in Nat /\ N - (N - x) = x
    BY <2>1
  <2> QED BY <2>1, <2>2
<1>2. PICK m \in T : ~ \E y \in T : <<y, m>> \in OpToRel(<, Nat)
  BY <1>1, WFMin, NatLessThanWellFounded, Zenon
<1>3. \A y \in T : m <= y
  BY <1>1, <1>2 DEF OpToRel
<1>4. N - m \in S /\ \A x \in S : x <= N - m
  <2>1. ASSUME NEW x \in S PROVE x <= N - m
    <3>1. N - x \in Nat /\ N - (N - x) = x
      OBVIOUS
    <3> QED BY <3>1, <1>3
  <2> QED BY <2>1
<1> QED BY <1>4 DEF Max

\* The greater of zero and a number.
LEMMA MaxWithZero ==
  ASSUME NEW n \in Int
  PROVE  Max({0, n}) = IF n > 0 THEN n ELSE 0
<1>1. CASE n > 0
  <2>1. \A x \in {0, n} : (\A y \in {0, n} : x >= y) <=> x = n
    BY <1>1
  <2> QED BY <1>1, <2>1 DEF Max
<1>2. CASE ~(n > 0)
  <2>1. \A x \in {0, n} : (\A y \in {0, n} : x >= y) <=> x = 0
    BY <1>2
  <2> QED BY <1>2, <2>1 DEF Max
<1> QED BY <1>1, <1>2
=============================================================================
