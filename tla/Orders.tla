-------------------------------- MODULE Orders --------------------------------
(***************************************************************************)
(* The order in which a loop over the numbers of a set meets them.         *)
(***************************************************************************)
EXTENDS Integers, FiniteSets

\* The elements of S in their order.
InOrder(S) == CHOOSE s \in [1 .. Cardinality(S) -> S] : \A i, j \in DOMAIN s : i < j => s[i] < s[j]
=============================================================================
