------------------------------- MODULE Ordering -------------------------------
(***************************************************************************)
(* What sort.Slice and sort.SliceStable make of some elements: with a      *)
(* comparison that tells any two apart, the order is the only one.         *)
(***************************************************************************)
EXTENDS Integers, FiniteSets

\* The members of S that "before", a set of pairs, puts ahead of x.
Preceding(x, S, before) == {y \in S : <<y, x>> \in before}

\* S as a sequence: each member is at the place that those ahead of it leave.
InOrder(S, before) ==
    [n \in 1..Cardinality(S) |->
       CHOOSE x \in S : Cardinality(Preceding(x, S, before)) = n - 1]
=============================================================================
