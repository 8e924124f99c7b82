----------------------------- MODULE SortedLists -----------------------------
(* Lists in ascending order, of days and of positions.  An element's place is  *)
(* the number of smaller ones, a form the provers reason about.                *)
EXTENDS Integers, FiniteSets

\* The elements of a finite set of numbers, the smallest first.
Ascending(S) ==
  [i \in 1 .. Cardinality(S) |-> CHOOSE x \in S : Cardinality({y \in S : y < x}) = i - 1]
=============================================================================
