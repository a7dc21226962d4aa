------------------------------- MODULE Ordering -------------------------------
(* A finite set put in order, for the sorts of the code: sort.Slice with a     *)
(* comparison that no two elements tie in gives one result, the sequence in    *)
(* which each element stands behind those that are less than it.               *)
EXTENDS Integers, FiniteSets

Ordered(S, Less(_, _)) ==
    [i \in 1 .. Cardinality(S) |-> CHOOSE x \in S : Cardinality({y \in S : Less(y, x)}) = i - 1]
=============================================================================
