------------------------------- MODULE Selection -------------------------------
(***************************************************************************)
(* The members of a sequence that pass a test, and the members of a set,   *)
(* in their order.  What a loop or a sort computes step by step is said    *)
(* here by what it is: the ascending enumeration.                          *)
(***************************************************************************)
EXTENDS Integers, Sequences, FiniteSets, Functions

Ascends(e) == \A i, j \in DOMAIN e : i < j => e[i] < e[j]

\* The numbers of K from the least to the greatest
InOrder(K) == CHOOSE e \in [1..Cardinality(K) -> K] : Ascends(e)

\* What s has at the places of e
AtPlaces(s, e) == [j \in DOMAIN e |-> s[e[j]]]

\* What s has of S
Selected(s, S) == AtPlaces(s, InOrder({k \in DOMAIN s : s[k] \in S}))

\* S in the order R, a set of pairs: each member at the place that counts those before it
Ranked(S, R) ==
  LET Places == {<<Cardinality({y \in S : <<y, x>> \in R}) + 1, x>> : x \in S}
  IN [p \in 1..Cardinality(S) |-> CHOOSE x \in S : <<p, x>> \in Places]
================================================================================
