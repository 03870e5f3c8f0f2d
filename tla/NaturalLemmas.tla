----------------------------- MODULE NaturalLemmas -----------------------------
(***************************************************************************)
(* Induction on naturals, stated for sets, for the proofs about Runtime    *)
(* and MultiPaxos: the library's theorems of induction are about           *)
(* operators, and no prover here can instantiate them.  The least element  *)
(* of a set comes from the well-foundedness of the strict inclusion of     *)
(* finite sets.                                                            *)
(***************************************************************************)
EXTENDS Integers, FiniteSetTheorems, WellFoundedInduction, TLAPS

LEMMA LeastNatural ==
    ASSUME NEW T, T \subseteq Nat, T # {}
    PROVE  \E m \in T : \A n \in T : m <= n
  <1> DEFINE Below == {0 .. n - 1 : n \in T}
             R == StrictSubsetOrdering(Nat)
  <1>1. IsWellFoundedOn(R, FiniteSubsetsOf(Nat))
    BY FS_StrictSubsetOrderingWellFounded
  <1>2. Below \subseteq FiniteSubsetsOf(Nat) /\ Below # {}
    <2>1. ASSUME NEW n \in T
          PROVE  0 .. n - 1 \in FiniteSubsetsOf(Nat)
      <3>1. n \in Nat /\ 0 .. n - 1 \subseteq Nat
        OBVIOUS
      <3>2. IsFiniteSet(0 .. n - 1)
        BY <3>1, FS_Interval
      <3> QED BY <3>1, <3>2 DEF FiniteSubsetsOf
    <2> QED BY <2>1
  <1> HIDE DEF Below, R
  <1>3. PICK M \in Below : \A X \in Below : <<X, M>> \notin R
    BY <1>1, <1>2, WFMin
  <1>4. PICK m \in T : M = 0 .. m - 1
    BY DEF Below
  <1>5. ASSUME NEW n \in T, n < m
        PROVE  FALSE
    <2>1. 0 .. n - 1 \in Below
      BY DEF Below
    <2>2. /\ 0 .. n - 1 \subseteq 0 .. m - 1
          /\ n \in 0 .. m - 1 /\ n \notin 0 .. n - 1
          /\ 0 .. n - 1 \subseteq Nat /\ 0 .. m - 1 \subseteq Nat
      BY <1>5
    <2>3. <<0 .. n - 1, 0 .. m - 1>> \in R
      BY <2>2 DEF R, StrictSubsetOrdering
    <2> QED BY <1>3, <1>4, <2>1, <2>3
  <1> QED BY <1>5

LEMMA SetInduction ==
    ASSUME NEW S, 0 \in S, \A n \in Nat : n \in S => n + 1 \in S
    PROVE  Nat \subseteq S
  <1> SUFFICES ASSUME Nat \ S # {} PROVE FALSE
    OBVIOUS
  <1>1. PICK m \in Nat \ S : \A n \in Nat \ S : m <= n
    BY LeastNatural
  <1>2. m # 0 /\ m - 1 \in Nat /\ m - 1 \in S
    BY <1>1
  <1> QED BY <1>2
=============================================================================
