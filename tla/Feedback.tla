------------------------------ MODULE Feedback ------------------------------
(***************************************************************************)
(* What one ECHO wave promises: information spreads from one node along    *)
(* the edges of the graph, a node is finished only when everybody around   *)
(* it is informed, and the origin is finished only when all others are.    *)
(***************************************************************************)
CONSTANTS Node, Neighbors

VARIABLES
  origin,    \* the set that holds the node that started the wave, once it has
  informed,  \* the nodes the wave has reached
  finished   \* the nodes the wave has left behind

Init == origin = {} /\ informed = {} /\ finished = {}

Start(n) ==
  /\ origin = {}
  /\ origin' = {n}
  /\ informed' = {n}
  /\ UNCHANGED finished

Inform(n) ==
  /\ n \notin informed
  /\ Neighbors[n] \cap informed # {}
  /\ informed' = informed \cup {n}
  /\ UNCHANGED <<origin, finished>>

Finish(n) ==
  /\ n \in informed \ (finished \cup origin)
  /\ Neighbors[n] \subseteq informed
  /\ finished' = finished \cup {n}
  /\ UNCHANGED <<origin, informed>>

Decide ==
  /\ origin # {}
  /\ finished = Node \ origin
  /\ finished' = Node
  /\ UNCHANGED <<origin, informed>>

Next == Decide \/ \E n \in Node : Start(n) \/ Inform(n) \/ Finish(n)

Spec == Init /\ [][Next]_<<origin, informed, finished>>
=============================================================================
