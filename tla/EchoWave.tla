------------------------------ MODULE EchoWave ------------------------------
(***************************************************************************)
(* The control waves of core::NodeCore: the ECHO algorithm (an explorer    *)
(* wave that floods the graph and an echo wave that runs back to the       *)
(* origin), the orders of the initiator that start it, and the two kinds   *)
(* of immediate shutdown.                                                  *)
(*                                                                         *)
(* One step is one turn of NodeCore::loop at one node: a message leaves    *)
(* the receiver queue, its handler runs to the end, its sends are on the   *)
(* wire.  What the election and mutual-exclusion implementations do with   *)
(* a message is modelled in modules of their own.                          *)
(***************************************************************************)
EXTENDS Naturals, FiniteSets

CONSTANTS
  Node,         \* node identifiers, all different from NoNode
  Neighbors,    \* NodeCore::neighbors of every node
  Number,       \* message numbers; a wave is known by the number of its order
  Content,      \* Content[w]: the content of every message with number w
  Time,         \* Time[w]: the number in the content of a "termination time"
  Order,        \* the messages the initiator sends
  OtherTraffic  \* whether other messages share the connections

(* The definitions whose names end in Any, Missing, Never, ToAll and          *)
(* Uncounted are slips the code could contain, beside what it does contain;  *)
(* no other definition uses them.                                            *)

NoNode == 0     \* sourceID of the initiator; no entry in the echo buffer

ASSUME NodeAssumption ==
  /\ IsFiniteSet(Node)
  /\ NoNode \notin Node

\* Graph::readGraph enters every edge at both of its ends, and no edge of the
\* graph files joins a node to itself; the graphs are connected.
ASSUME NeighborsAssumption ==
  /\ Neighbors \in [Node -> SUBSET Node]
  /\ \A n \in Node : n \notin Neighbors[n] /\ Neighbors[n] # {}
  /\ \A n, p \in Node : p \in Neighbors[n] <=> n \in Neighbors[p]
  /\ \A S \in SUBSET Node :
       (S # {} /\ \A n \in S : Neighbors[n] \subseteq S) => S = Node

WaveContents == {"shutdown echo", "termination time", "campaign"}
Contents == WaveContents \cup {"shutdown", "shutdown all"}

Message == [type : {"normal", "explorer", "echo"}, number : Number,
            sourceID : Node \cup {NoNode}, destinationID : Node]

ASSUME MessageAssumption ==
  /\ Content \in [Number -> Contents]
  /\ Time \in [Number -> Nat]
  /\ Order \subseteq {m \in Message : m.type = "normal" /\ m.sourceID = NoNode}
  /\ OtherTraffic \in BOOLEAN

VARIABLES
  isRunning,         \* isRunning[n]: the node is still in its loop
  isShuttingDown,    \* isShuttingDown[n]: application messages are ignored
  FirstNeighborID,   \* echo buffer: who brought wave w to n, or NoNode
  counter,           \* echo buffer: messages of wave w that n has counted
  termininationTime, \* VectorTime::termininationTime, 0 until it is set
  network            \* network[m]: copies of m sent and not yet handled

vars == <<isRunning, isShuttingDown, FirstNeighborID, counter,
          termininationTime, network>>

Init ==
  /\ isRunning = [n \in Node |-> TRUE]
  /\ isShuttingDown = [n \in Node |-> FALSE]
  /\ FirstNeighborID = [n \in Node |-> [w \in Number |-> NoNode]]
  /\ counter = [n \in Node |-> [w \in Number |-> 0]]
  /\ termininationTime = [n \in Node |-> 0]
  /\ network = [m \in Message |-> IF m \in Order THEN 1 ELSE 0]

-----------------------------------------------------------------------------
HasEntry(n, w) == FirstNeighborID[n][w] # NoNode

Degree(n) == Cardinality(Neighbors[n])

\* What has been sent and not yet handled
InFlightAny == Message
InFlight == {m \in Message : network[m] > 0}

\* The node leaves its loop without reading again: a message can only be
\* handled by a node that is still running.
Received(m) == m \in InFlight /\ isRunning[m.destinationID]

\* Campaign messages are application messages.  A node that is shutting down
\* throws them away, and its implementation's sendEcho is a dummy by then.
IgnoredNever(m) == FALSE
Ignored(m) ==
  Content[m.number] = "campaign" /\ isShuttingDown[m.destinationID]

Handled(m) == Received(m) /\ ~Ignored(m)

\* m is consumed and the messages in sent are on their way.
Transmit(m, sent) ==
  network' = [x \in Message |->
                (network[x] + (IF x \in sent THEN 1 ELSE 0))
                  - (IF x = m THEN 1 ELSE 0)]

\* sendToDestinations: one copy for every node in destinations
Copies(type, w, n, destinations) ==
  {[type |-> type, number |-> w, sourceID |-> n, destinationID |-> d] :
     d \in destinations}

\* sendToDestinations with the sender of the first explorer excluded
ForwardToAll(n, sender) == Neighbors[n]
ForwardTo(n, sender) == Neighbors[n] \ {sender}

\* Counting one more message, the node has heard from all its neighbours.
IsLastUncounted(n, w) == counter[n][w] = Degree(n)
IsLast(n, w) == counter[n][w] + 1 = Degree(n)

\* std::map::insert leaves an entry with this number as it is.
OriginEntryMissing(n, w) == FirstNeighborID
OriginEntry(n, w) == IF HasEntry(n, w)
                     THEN FirstNeighborID
                     ELSE [FirstNeighborID EXCEPT ![n][w] = n]

\* A shutdown wave makes a node ignore application messages from the first
\* explorer on.
StartsShutdownNever(w) == FALSE
StartsShutdown(w) == Content[w] = "shutdown echo"

-----------------------------------------------------------------------------
Ignore(m) ==
  /\ Received(m) /\ Ignored(m)
  /\ Transmit(m, {})
  /\ UNCHANGED <<isRunning, isShuttingDown, FirstNeighborID, counter,
                 termininationTime>>

\* initilizeControlEchoMessage and sendEcho: the explorers are sent whether
\* or not the entry is new.
StartWave(m) ==
  LET n == m.destinationID
      w == m.number
  IN /\ Handled(m)
     /\ m.type = "normal"
     /\ Content[w] \in WaveContents
     /\ FirstNeighborID' = OriginEntry(n, w)
     /\ Transmit(m, Copies("explorer", w, n, Neighbors[n]))
     /\ UNCHANGED <<isRunning, isShuttingDown, counter, termininationTime>>

Shutdown(m) ==
  LET n == m.destinationID
  IN /\ Handled(m)
     /\ m.type = "normal"
     /\ Content[m.number] = "shutdown"
     /\ isRunning' = [isRunning EXCEPT ![n] = FALSE]
     /\ Transmit(m, {})
     /\ UNCHANGED <<isShuttingDown, FirstNeighborID, counter,
                    termininationTime>>

ShutdownAll(m) ==
  LET n == m.destinationID
  IN /\ Handled(m)
     /\ m.type = "normal"
     /\ Content[m.number] = "shutdown all"
     /\ isRunning' = [isRunning EXCEPT ![n] = FALSE]
     /\ Transmit(m, Copies("normal", m.number, n, Neighbors[n]))
     /\ UNCHANGED <<isShuttingDown, FirstNeighborID, counter,
                    termininationTime>>

\* The first explorer of a wave: the node takes part and passes the explorer
\* on.  The iterator of the failed find is still end() when its counter is
\* compared with the number of neighbours.  end() is the tree header inside
\* the map, the counter read there lies in the pointer pastImpl behind it
\* (zero, or the upper half of a heap address), so the comparison fails
\* whatever the node's degree: a node with one neighbour does not answer.
FirstExplorer(m) ==
  LET n == m.destinationID
      w == m.number
  IN /\ Handled(m)
     /\ m.type = "explorer"
     /\ ~HasEntry(n, w)
     /\ FirstNeighborID' = [FirstNeighborID EXCEPT ![n][w] = m.sourceID]
     /\ counter' = [counter EXCEPT ![n][w] = 1]
     /\ isShuttingDown' = [isShuttingDown EXCEPT
                             ![n] = @ \/ StartsShutdown(w)]
     /\ Transmit(m, Copies("explorer", w, n, ForwardTo(n, m.sourceID)))
     /\ UNCHANGED <<isRunning, termininationTime>>

\* An explorer or echo of a wave the node knows, not the last it waits for.
CountMessage(m) ==
  LET n == m.destinationID
      w == m.number
  IN /\ Handled(m)
     /\ m.type \in {"explorer", "echo"}
     /\ HasEntry(n, w)
     /\ ~IsLast(n, w)
     /\ counter' = [counter EXCEPT ![n][w] = @ + 1]
     /\ Transmit(m, {})
     /\ UNCHANGED <<isRunning, isShuttingDown, FirstNeighborID,
                    termininationTime>>

\* The last message of the wave: an echo for the node the wave came from
\* (the origin has nobody to answer), then the effect of a control wave.
CompleteWave(m) ==
  LET n == m.destinationID
      w == m.number
      first == FirstNeighborID[n][w]
  IN /\ Handled(m)
     /\ m.type \in {"explorer", "echo"}
     /\ HasEntry(n, w)
     /\ IsLast(n, w)
     /\ counter' = [counter EXCEPT ![n][w] = @ + 1]
     /\ Transmit(m, Copies("echo", w, n, {first} \ {n}))
     /\ isRunning' = [isRunning EXCEPT ![n] = Content[w] # "shutdown echo"]
     /\ termininationTime' =
          [termininationTime EXCEPT
             ![n] = IF Content[w] = "termination time" THEN Time[w] ELSE @]
     /\ UNCHANGED <<isShuttingDown, FirstNeighborID>>

\* n has written to a connection whose reader is gone.
BrokenPipe(n) ==
  \E m \in InFlight : m.sourceID = n /\ ~isRunning[m.destinationID]

\* Such a write raises SIGPIPE, which nothing catches; the sends that were to
\* follow it never happen (Lose).
Crash(n) ==
  /\ isRunning[n]
  /\ BrokenPipe(n)
  /\ isRunning' = [isRunning EXCEPT ![n] = FALSE]
  /\ UNCHANGED <<isShuttingDown, FirstNeighborID, counter,
                 termininationTime, network>>

\* The transceiver parses one message per read: when a read returns several,
\* those behind the first are lost.  Messages of one connection only.
Lose(m) ==
  /\ m \in InFlight
  /\ \/ OtherTraffic
     \/ network[m] > 1
     \/ m.sourceID \in Node /\ ~isRunning[m.sourceID] /\ BrokenPipe(m.sourceID)
     \/ \E x \in InFlight \ {m} : /\ x.sourceID = m.sourceID
                                  /\ x.destinationID = m.destinationID
  /\ Transmit(m, {})
  /\ UNCHANGED <<isRunning, isShuttingDown, FirstNeighborID, counter,
                 termininationTime>>

Handle(m) == \/ Ignore(m)
             \/ StartWave(m)
             \/ Shutdown(m)
             \/ ShutdownAll(m)
             \/ FirstExplorer(m)
             \/ CountMessage(m)
             \/ CompleteWave(m)

\* One turn of NodeCore::loop at node n
loop(n) == \E m \in InFlight : m.destinationID = n /\ Handle(m)

Next == \/ \E n \in Node : loop(n) \/ Crash(n)
        \/ \E m \in InFlight : Lose(m)

Spec == Init /\ [][Next]_vars

\* Each node is a process whose loop goes on while a message waits for it.
FairSpec == Spec /\ \A n \in Node : WF_vars(loop(n))

-----------------------------------------------------------------------------
TypeOK ==
  /\ isRunning \in [Node -> BOOLEAN]
  /\ isShuttingDown \in [Node -> BOOLEAN]
  /\ FirstNeighborID \in [Node -> [Number -> Node \cup {NoNode}]]
  /\ counter \in [Node -> [Number -> Nat]]
  /\ termininationTime \in [Node -> Nat]
  /\ network \in [Message -> Nat]

Wave == {w \in Number : Content[w] \in WaveContents}

\* At most one order per wave number: what the code hopes for.
SingleOrigin ==
  \A w \in Wave : \A a, b \in Order : a.number = w /\ b.number = w => a = b

\* n has heard from all its neighbours and has done all it does in wave w.
\* (A node other than the origin with one neighbour counts to one on the first
\* explorer, without the last step.)
Completed(n, w) ==
  /\ HasEntry(n, w)
  /\ counter[n][w] = Degree(n)
  /\ FirstNeighborID[n][w] = n \/ Degree(n) > 1

InFlightOfWaves == {m \in InFlight : m.type # "normal"}

(* The wave's messages are as many as the edges allow: no connection ever    *)
(* carries two messages of one wave.  A second one would be lost whenever a  *)
(* read returned both (NodeCore::handleEchoMessage sends, the transceiver    *)
(* reads).                                                                   *)
OneMessagePerConnection ==
  \A m, x \in InFlightOfWaves :
    /\ m.number = x.number
    /\ m.sourceID = x.sourceID /\ m.destinationID = x.destinationID
    => m = x /\ network[m] = 1

(* An echo only comes to a node that has an entry for its wave: without one  *)
(* handleEchoMessage would increment a counter behind the end of the map.    *)
EchoHasEntry ==
  \A m \in InFlight :
    m.type = "echo" => HasEntry(m.destinationID, m.number)

(* Nothing of a wave is on its way to a node that has completed it: after a  *)
(* shutdown wave that message would find its reader closed and kill the      *)
(* sender with SIGPIPE.                                                      *)
NothingForCompleted ==
  \A m \in InFlightOfWaves : ~Completed(m.destinationID, m.number)

(* "ECHO successful": when the origin has counted all its neighbours, every  *)
(* node of the graph has completed the wave.                                 *)
FeedbackSound ==
  \A w \in Wave, n \in Node :
    FirstNeighborID[n][w] = n /\ Completed(n, w) =>
      \A p \in Node : Completed(p, w)

(* "Neighbors are shutting down and so i can shutdown...": where a node has  *)
(* left its loop because of a shutdown wave, each neighbour ignores          *)
(* application messages, or started a shutdown itself.                       *)
NeighborsShuttingDown ==
  \A w \in Wave, n \in Node :
    Content[w] = "shutdown echo" /\ Completed(n, w) =>
      \A p \in Neighbors[n] : isShuttingDown[p] \/ FirstNeighborID[p][w] = p

OnlyTime(w) == \A v \in Wave \ {w} : Content[v] # "termination time"

(* "(Re-)Set Termination Time": once the origin of a time wave has counted   *)
(* all its neighbours, every node has the new termination time, if this is   *)
(* the only one that was ordered.                                            *)
TimeEverywhere ==
  \A w \in Wave, n \in Node :
    /\ Content[w] = "termination time"
    /\ OnlyTime(w)
    /\ FirstNeighborID[n][w] = n /\ Completed(n, w)
    => \A p \in Node : termininationTime[p] = Time[w]

\* Campaign messages that this step sends come from nodes that are not
\* shutting down.
StaysQuiet ==
  \A m \in InFlight' :
    /\ Content[m.number] = "campaign"
    /\ network'[m] > network[m]
    => ~isShuttingDown[m.sourceID]

(* "Set Dummy-Send-Functions": a node that a shutdown wave has reached sends *)
(* no application message any more, not even to continue a campaign.         *)
QuietWhenShuttingDown == [][StaysQuiet]_vars
=============================================================================
