----------------------------- MODULE SortedSets -----------------------------
(***************************************************************************)
(* Finite sets of numbers in increasing order.                             *)
(***************************************************************************)
EXTENDS Integers, FiniteSets

\* Position of the number j among the numbers in S; the numbers in S in order.
Rank(S, j) == Cardinality({k \in S : k <= j})
Sorted(S) == [n \in 1 .. Cardinality(S) |-> CHOOSE k \in S : Rank(S, k) = n]
=============================================================================
