------------------------------ MODULE Listing ------------------------------
(***************************************************************************)
(* The elements of a finite set in an order of theirs, as sort() leaves    *)
(* the elements of an array: each at the place that the number of those    *)
(* before it gives it.  Before is the order, as the set of its pairs.      *)
(***************************************************************************)
EXTENDS Integers, FiniteSets

Pairs(S) == S \X S

InOrder(S, Before) ==
    [k \in 1..Cardinality(S) |->
        CHOOSE x \in S : Cardinality({y \in S : <<y, x>> \in Before}) = k - 1]
=============================================================================
