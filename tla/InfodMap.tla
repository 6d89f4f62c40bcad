------------------------------- MODULE InfodMap -------------------------------
(***************************************************************************)
(* Infod composed with Mapper, which justifies that Infod takes a map for  *)
(* the set of the addresses it lists.                                      *)
(***************************************************************************)
EXTENDS Infod, Mapper

\* The last address is no node's: a line that reaches it is refused.
ASSUME InfodMapAssumption ==
  /\ \A nodes \in Maps : nodes \subseteq 0 .. 2 ^ AddrBits - 2
  /\ Ips \subseteq 0 .. 2 ^ AddrBits - 1

MapTable == [nodes \in Maps |-> [ip \in Ips |-> IsItsSet(nodes, ip)]]

\* However the map file writes down the nodes it lists, what map_setup makes
\* of it agrees with the set: it is refused exactly when ambiguous, the host
\* is found exactly when listed, the vector gets each node once, and the number
\* a node has leads back to its address (MapperBuilder.c, Mapper.c).
MapIsItsSet == file.nodes # None => MapTable[file.nodes][addr]
==============================================================================
