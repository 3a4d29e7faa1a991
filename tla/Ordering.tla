------------------------------- MODULE Ordering -------------------------------
(***************************************************************************)
(* The elements of an ordered finite set by number: what the methods sort   *)
(* and filter of an array make of its indices. The order is given as what   *)
(* is below each element.                                                  *)
(***************************************************************************)
EXTENDS Naturals, FiniteSets

\* The k-th element: the one with k - 1 below it.
Nth(below, k) == CHOOSE x \in DOMAIN below : Cardinality(below[x]) = k - 1
=============================================================================
