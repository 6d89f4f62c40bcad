------------------------------- MODULE Hearsay -------------------------------
(***************************************************************************)
(* What gossip promises, without windows, ages and priorities: a node      *)
(* measures only itself, and all it believes of another node it was told,  *)
(* by someone who believed it at the time, or is a verdict of death.       *)
(* Anyone may stop, and starts again knowing nothing.                      *)
(***************************************************************************)
EXTENDS Naturals

CONSTANTS
  Nodes,
  Dead    \* the belief that a node does not run; no measurement

VARIABLES
  clock,
  running,  \* the nodes that run
  belief,   \* for each node, of each node: the time of a measurement, or Dead
  wire      \* the claims <<node, measurement>> in messages under way

hearsayVars == <<clock, running, belief, wire>>

\* The claims node n could make of what b says it believes.
Claims(b, n) == {<<i, b[n][i]>> : i \in {j \in Nodes : b[n][j] # Dead}}

Init ==
  /\ clock = 0 /\ running = Nodes /\ wire = {}
  /\ belief = [n \in Nodes |-> [i \in Nodes |-> Dead]]

OthersUnmoved(n) == \A m \in Nodes \ {n} : belief'[m] = belief[m]

\* n measures itself, or fails to, gives up on whom it likes and may tell
\* others what it believes then.
Measure(n) ==
  /\ n \in running
  /\ belief'[n][n] \in {clock, Dead}
  /\ \A i \in Nodes \ {n} : belief'[n][i] \in {belief[n][i], Dead}
  /\ OthersUnmoved(n)
  /\ wire' \subseteq wire \cup Claims(belief', n)
  /\ UNCHANGED <<clock, running>>

\* n takes over claims about others, or deaths; it may answer.
Hear(n) ==
  /\ n \in running
  /\ belief'[n][n] = belief[n][n]
  /\ \A i \in Nodes \ {n} :
       belief'[n][i] \in {belief[n][i], Dead} \/ <<i, belief'[n][i]>> \in wire
  /\ OthersUnmoved(n)
  /\ wire' \subseteq wire \cup Claims(belief, n)
  /\ UNCHANGED <<clock, running>>

Forget == wire' \subseteq wire /\ UNCHANGED <<clock, running, belief>>

Pass == clock' = clock + 1 /\ UNCHANGED <<running, belief, wire>>

Stop(n) == running' = running \ {n} /\ UNCHANGED <<clock, belief, wire>>

Start(n) ==
  /\ running' = running \cup {n}
  /\ belief'[n] = [i \in Nodes |-> Dead]
  /\ OthersUnmoved(n)
  /\ UNCHANGED <<clock, wire>>

Next ==
  \/ \E n \in Nodes : Measure(n) \/ Hear(n) \/ Stop(n) \/ Start(n)
  \/ Forget \/ Pass

Spec == Init /\ [][Next]_hearsayVars
==============================================================================
