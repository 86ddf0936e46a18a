------------------------------- MODULE Ranks -------------------------------
(* Finite sets of naturals in their order, and what a filter leaves of a   *)
(* sequence.                                                               *)
EXTENDS Integers, FiniteSets

\* The k-th smallest member of I.
Nth(I, k) == CHOOSE i \in I : Cardinality({j \in I : j <= i}) = k

\* The members of I in increasing order.
Ordered(I) == [k \in 1..Cardinality(I) |-> Nth(I, k)]

\* The elements of s at the positions I, in their order.
ElementsAt(s, I) == [k \in 1..Cardinality(I) |-> s[Nth(I, k)]]
=============================================================================
