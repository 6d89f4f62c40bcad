-------------------------------- MODULE MCBest --------------------------------
(***************************************************************************)
(* Best on two nodes, the second slower than the first and with less room. *)
(***************************************************************************)
EXTENDS Best, TLC

CONSTANTS n1, n2, r1, r2, r3

MCRuns == {r1, r2, r3}
Symmetry == Permutations(MCRuns)

MCNodes == {n1, n2}
MCLoad == (n1 :> 2) @@ (n2 :> 1)
MCCost == (n1 :> 2) @@ (n2 :> 4)
MCFreeMem == (n1 :> 4) @@ (n2 :> 3)
MCDemands == {[procs |-> 1, memory |-> 2], [procs |-> 2, memory |-> 1]}
==============================================================================
