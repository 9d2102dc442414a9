---------------------------- MODULE SetInduction ----------------------------
(***************************************************************************)
(* Induction over the natural numbers for a set instead of a predicate, so *)
(* that it can be cited without an operator as its parameter.              *)
(***************************************************************************)
EXTENDS Integers, WellFoundedInduction, TLAPS

LessThan == {pair \in Nat \X Nat : pair[1] < pair[2]}

\* The order of the natural numbers is well founded.
LEMMA LessThanWellFounded == IsWellFoundedOn(LessThan, Nat)
BY NatLessThanWellFounded DEF OpToRel, LessThan

\* A set of natural numbers that is not empty has a least element.
LEMMA LeastElement ==
  ASSUME NEW T, T \subseteq Nat, T # {}
  PROVE  \E x \in T : \A y \in T : x <= y
<1>1. PICK x \in T : \A y \in T : ~ (<<y, x>> \in LessThan)
  BY LessThanWellFounded, WFMin
<1>2. ASSUME NEW y \in T PROVE x <= y
  <2>1. x \in Nat /\ y \in Nat
    OBVIOUS
  <2>2. <<y, x>> \in LessThan <=> y < x
    BY <2>1 DEF LessThan
  <2> QED
    BY <1>1, <2>1, <2>2
<1> QED
  BY <1>2

\* A set that holds 0, and with every number the next, holds them all.
LEMMA InductiveSet ==
  ASSUME NEW S, 0 \in S, \A n \in Nat : n \in S => n + 1 \in S
  PROVE  \A n \in Nat : n \in S
<1>1. SUFFICES ASSUME Nat \ S # {} PROVE FALSE
  OBVIOUS
<1>2. PICK x \in Nat \ S : \A y \in Nat \ S : x <= y
  BY <1>1, LeastElement
<1>3. x - 1 \in Nat /\ x - 1 < x
  BY <1>2
<1>4. x - 1 \in S
  BY <1>2, <1>3
<1>5. (x - 1) + 1 \in S
  BY <1>3, <1>4
<1> QED
  BY <1>2, <1>3, <1>5
=============================================================================
