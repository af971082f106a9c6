---------------------------- MODULE LeastElements ----------------------------
(***************************************************************************)
(* Least and greatest elements of sets of numbers, and induction over      *)
(* them.  The facts speak of sets, so that the lemmas of the proof modules *)
(* can use them for what the model computes by a recursive function or     *)
(* reads back with CHOOSE.                                                 *)
(***************************************************************************)
EXTENDS Integers, WellFoundedInduction, TLAPS

Below == {p \in Nat \X Nat : p[1] < p[2]}

LEMMA BelowIsWellFounded == IsWellFoundedOn(Below, Nat)
<1>1. OpToRel(<, Nat) = Below
  BY DEF OpToRel, Below
<1> QED
  BY <1>1, NatLessThanWellFounded, Zenon

\* A set of natural numbers that is not empty has a least element.
LEMMA Least ==
  ASSUME NEW T \in SUBSET Nat, T # {}
  PROVE  \E x \in T : \A y \in T : x <= y
<1>1. \E x \in T : \A y \in T : ~ (<<y, x>> \in Below)
  BY BelowIsWellFounded, WFMin, Zenon
<1>2. \A x, y \in Nat : x < y => <<x, y>> \in Below
  BY DEF Below
<1>3. \A x, y \in T : <<x, y>> \notin Below => y <= x
  BY <1>2
<1> QED
  BY <1>1, <1>3

\* One with an upper bound has a greatest.
LEMMA Greatest ==
  ASSUME NEW T \in SUBSET Nat, T # {}, NEW n \in Nat, \A x \in T : x <= n
  PROVE  \E x \in T : \A y \in T : y <= x
<1> DEFINE bounds == {b \in Nat : \A x \in T : x <= b}
<1>1. PICK b \in bounds : \A c \in bounds : b <= c
  <2>1. bounds \in SUBSET Nat /\ bounds # {}
    OBVIOUS
  <2> HIDE DEF bounds
  <2> QED
    BY <2>1, Least
<1>2. b \in T
  <2>1. SUFFICES ASSUME b \notin T PROVE FALSE
    OBVIOUS
  <2>2. PICK x \in T : TRUE
    OBVIOUS
  <2>3. \A y \in T : y \in Nat /\ y < b
    BY <2>1
  <2>4. b - 1 \in bounds
    BY <2>2, <2>3
  <2> QED
    BY <1>1, <2>4
<1> QED
  BY <1>2

\* A set with 0 in it and with every number's successor has all numbers in it.
LEMMA SetInduction ==
  ASSUME NEW T, 0 \in T, \A n \in Nat : n \in T => n + 1 \in T
  PROVE  Nat \subseteq T
<1>1. SUFFICES ASSUME Nat \ T # {} PROVE FALSE
  OBVIOUS
<1>2. PICK m \in Nat \ T : \A n \in Nat \ T : m <= n
  <2> DEFINE rest == Nat \ T
  <2>1. rest \in SUBSET Nat /\ rest # {}
    BY <1>1
  <2> HIDE DEF rest
  <2>2. \E m \in rest : \A n \in rest : m <= n
    BY <2>1, Least
  <2> QED
    BY <2>2 DEF rest
<1>3. m - 1 \in Nat /\ m - 1 \in T
  BY <1>2
<1> QED
  BY <1>2, <1>3
=============================================================================
