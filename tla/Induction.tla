------------------------------ MODULE Induction ------------------------------
(***************************************************************************)
(* Induction over the natural numbers as facts about sets.  The library's    *)
(* NatInduction takes a predicate as its parameter; a set says as much and   *)
(* can be named where the fact is cited.                                    *)
(***************************************************************************)
EXTENDS NaturalsInduction, WellFoundedInduction, TLAPS

\* Every set of natural numbers that is not empty has a least member.
LEMMA LeastOne ==
    ASSUME NEW S \in SUBSET Nat, S # {}
    PROVE  \E n \in S : \A m \in S : n <= m
<1> DEFINE R == {ss \in Nat \X Nat : ss[1] < ss[2]}
<1>1. R = OpToRel(<, Nat)  BY DEF OpToRel
<1>2. IsWellFoundedOn(R, Nat)  BY <1>1, NatLessThanWellFounded, Zenon
<1>3. PICK x \in S : \A y \in S : ~(<<y, x>> \in R)
  <2> HIDE DEF R
  <2>. QED  BY <1>2, WFMin, Zenon
<1>4. ASSUME NEW y \in S PROVE x <= y
  <2>1. <<y, x>> \notin R  BY <1>3
  <2>. QED  BY <2>1
<1>. QED  BY <1>4

\* Induction over a set of numbers: with 0, and with each its successor, it has them all.
LEMMA SetInduction ==
    ASSUME NEW S, 0 \in S, \A n \in Nat : n \in S => n + 1 \in S
    PROVE  Nat \subseteq S
<1>1. SUFFICES ASSUME Nat \ S # {} PROVE FALSE  OBVIOUS
<1>2. PICK n \in Nat \ S : \A m \in Nat \ S : n <= m  BY <1>1, LeastOne
<1>3. n # 0 /\ n - 1 \in Nat  BY <1>2
<1>4. n - 1 \in S  BY <1>2, <1>3
<1>5. (n - 1) + 1 \in S  BY <1>3, <1>4
<1>. QED  BY <1>2, <1>3, <1>5

=============================================================================
