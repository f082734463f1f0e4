------------------------------ MODULE Selection ------------------------------
(***************************************************************************)
(* Loops of the code that walk a list and erase what they find: the rest   *)
(* keeps its order.  Said by places instead of SelectSeq, so that it can   *)
(* be reasoned about (SelectionTheorems).                                  *)
(***************************************************************************)
EXTENDS Naturals, Sequences, FiniteSets

Members(q) == {q[i] : i \in DOMAIN q}

(* Where in q the members of K stand, and the how manieth of P i is.       *)
PlacesOf(q, K) == {i \in DOMAIN q : q[i] \in K}
Rank(P, i)     == Cardinality({j \in P : j <= i})

(* The members of K in q, in their order.                                  *)
Only(q, K) ==
  LET P == PlacesOf(q, K)
  IN [k \in 1..Cardinality(P) |-> q[CHOOSE i \in P : Rank(P, i) = k]]
=============================================================================
