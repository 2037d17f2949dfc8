-------------------------------- MODULE Lists --------------------------------
(* The members of a set one after the other, as a loop meets them.           *)
EXTENDS Integers, FiniteSets

\* The members of a finite set of numbers, in order.
Ordered(S) ==
    [i \in 1..Cardinality(S) |-> CHOOSE x \in S : Cardinality({y \in S : y < x}) = i - 1]

=============================================================================
