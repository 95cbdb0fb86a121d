---------------------------- MODULE NumberInduction ----------------------------
(***************************************************************************)
(* Induction over the natural numbers in a form the provers can use: about *)
(* a set of numbers, not about a predicate.  The sums that the code keeps  *)
(* (_totalCost) or asks the database for (sum(size)) are defined by        *)
(* recursion, and what is proved about them rests on these two lemmas.     *)
(***************************************************************************)
EXTENDS Integers, WellFoundedInduction, TLAPS

\* A step that names no prover is tried with SMT, then with Zenon, then with
\* SMT again for longer.
USE SMTT(15), ZenonT(20), SMTT(60)

\* A set of natural numbers has a least element, since < is well-founded.
LEMMA LeastNumber ==
    ASSUME NEW S \in SUBSET Nat, S # {}
    PROVE  \E x \in S : \A y \in S : x <= y
<1> DEFINE R == OpToRel(<, Nat)
<1>1. IsWellFoundedOn(R, Nat)
  BY NatLessThanWellFounded, Zenon, ZenonT(60)
<1>2. PICK x \in S : \A y \in S : ~(<<y, x>> \in R)
  <2> HIDE DEF R
  <2> QED
    BY <1>1, WFMin
<1>3. \A y \in S : ~(y < x)
  BY <1>2 DEF OpToRel
<1> QED
  BY <1>3

\* Induction over the natural numbers, for membership in a set.
LEMMA SetInduction ==
    ASSUME NEW S, 0 \in S, \A n \in Nat : n \in S => n + 1 \in S
    PROVE  Nat \subseteq S
<1> DEFINE T == {n \in Nat : n \notin S}
<1> SUFFICES ASSUME T # {}
             PROVE  FALSE
  OBVIOUS
<1>1. PICK x \in T : \A y \in T : x <= y
  <2>1. T \in SUBSET Nat
    OBVIOUS
  <2> HIDE DEF T
  <2> QED
    BY <2>1, LeastNumber
<1>2. x \in Nat /\ x # 0
  OBVIOUS
<1>3. x - 1 \in Nat /\ x - 1 \notin T
  BY <1>1, <1>2
<1> QED
  BY <1>2, <1>3
================================================================================
