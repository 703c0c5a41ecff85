------------------------------- MODULE Sorting -------------------------------
(***************************************************************************)
(* The elements of a finite set in an order that is given by its pairs.    *)
(* An element is where as many others come before it: nothing is recursive *)
(* in it.                                                                  *)
(***************************************************************************)
EXTENDS Integers, FiniteSets

Pairs(S) == S \X S

\* The elements of a set in an order, of which before has the pairs.
Sorted(S, before) ==
  [i \in 1 .. Cardinality(S) |->
     CHOOSE x \in S : Cardinality({y \in S : <<y, x>> \in before}) = i - 1]

\* Numbers, in their own order.
Increasing(S) == Sorted(S, {x \in Pairs(S) : x[1] < x[2]})
=============================================================================
