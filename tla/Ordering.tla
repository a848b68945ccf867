------------------------------ MODULE Ordering ------------------------------
(***************************************************************************)
(* What sort.Slice makes of a set whose order has no ties.                 *)
(***************************************************************************)
EXTENDS Integers, FiniteSets

\* The members of S, each one after those before it.
Ordered(S, before(_, _)) ==
    [k \in 1 .. Cardinality(S) |-> CHOOSE x \in S : Cardinality({y \in S : before(y, x)}) = k - 1]
=============================================================================
