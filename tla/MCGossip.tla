------------------------------- MODULE MCGossip -------------------------------
(***************************************************************************)
(* Instances of Gossip for TLC: three nodes whose clocks disagree.         *)
(***************************************************************************)
EXTENDS Gossip

MCSkew == [n \in Idx |-> IF n = 1 THEN 1 ELSE 0]
MCReadings == 0 .. MaxClock
MCNoData == -1

=============================================================================
