----------------------------- MODULE Ascending -----------------------------
(***************************************************************************)
(* A finite set of numbers as a sequence in ascending order: what a loop   *)
(* over a range appends when it keeps only some of it, and what sorting    *)
(* distinct numbers gives.                                                 *)
(***************************************************************************)
EXTENDS Integers, FiniteSets

\* The n-th number is the one with n - 1 of them below it.
Ascending(S) ==
  [n \in 1 .. Cardinality(S) |->
     CHOOSE x \in S : Cardinality({y \in S : y < x}) = n - 1]
=============================================================================
