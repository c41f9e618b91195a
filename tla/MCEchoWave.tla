----------------------------- MODULE MCEchoWave -----------------------------
(***************************************************************************)
(* Small graphs, waves and orders for EchoFeedback.  The graphs of the     *)
(* repository are all like Complete or Triangle in one respect: no node    *)
(* has a single neighbour.  Kite has one, node 5.                          *)
(***************************************************************************)
EXTENDS EchoFeedback, TLC

Edge(n, p) == {<<n, p>>, <<p, n>>}
Adjacency(nodes, edges) == [n \in nodes |-> {p \in nodes : <<n, p>> \in edges}]

Square == Edge(1, 2) \cup Edge(2, 3) \cup Edge(3, 4) \cup Edge(4, 1)
Triangle == Adjacency(1..3, Edge(1, 2) \cup Edge(2, 3) \cup Edge(1, 3))
Complete == [n \in 1..4 |-> (1..4) \ {n}]
Kite == Adjacency(1..5, Square \cup Edge(1, 3) \cup Edge(1, 5))

\* w names the message number, n the node the initiator sends to.
OrderFor(w, n) == [type |-> "normal", number |-> w, sourceID |-> NoNode,
                   destinationID |-> n]

\* The initiator numbers every "echo" command 0.
OneShutdown == 0 :> "shutdown echo"
NoTime == 0 :> 0
OrderAtLeaf == {OrderFor(0, 5)}
OrderAtOne == {OrderFor(0, 1)}
OrdersAtOneAndTwo == {OrderFor(0, 1), OrderFor(0, 2)}

\* A shutdown wave meets a campaign and a node that is stopped by hand; or a
\* time wave meets the flood that stops all nodes.
Races == <<"shutdown echo", "campaign", "shutdown",
           "termination time", "shutdown all">>
Times == [w \in Number |-> IF Races[w] = "termination time" THEN 7 ELSE 0]
CampaignAndShutdown == {OrderFor(1, 1), OrderFor(2, 2), OrderFor(3, 3)}
TimeAndShutdownAll == {OrderFor(4, 1), OrderFor(5, 2)}
OrderEach == CampaignAndShutdown \cup TimeAndShutdownAll

Ordered(orders) == INSTANCE EchoWave WITH Order <- orders
SpecRaces ==
  /\ \/ Ordered(CampaignAndShutdown)!Init
     \/ Ordered(TimeAndShutdownAll)!Init
  /\ [][Next]_vars

(* "echo - Haelt alle Knoten an mittels ECHO": the shutdown wave stops every *)
(* node.  The nodes' loops are fair.                                         *)
AllStop == <>(\A n \in Node : ~isRunning[n])
=============================================================================
