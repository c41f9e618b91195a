------------------------------- MODULE Startup -------------------------------
(***************************************************************************)
(* How the process of a node starts: the settings read the address file,   *)
(* GraphvizNeighborsCreator reads the graph file, and the constructor of   *)
(* NodeCore asks the settings for what it needs, in its order.             *)
(*                                                                         *)
(* A line is a sequence of tokens: a number, a name or a character that    *)
(* the reader splits it at.  A name is one that getaddrinfo resolves.      *)
(***************************************************************************)
EXTENDS Integers, Sequences, FiniteSets, FiniteSetsExt, SequencesExt, TLC

CONSTANTS
  Identifiers,   \* the numbers that occur in the files
  AddressFiles,  \* address files there may be
  GraphFiles,    \* graph files there may be
  Started        \* identifiers a node may be started with

VARIABLES
  nodeID,        \* the node that starts
  addressFile,   \* what has not been read of the address file
  graphFile,     \* what has not been read of the graph file
  parts,         \* what has not been read of a line of it
  allNodes,      \* NodeBaseSettings::allNodes
  graph,         \* Graph::graphMap: the neighbours of a node, in a list
  neighbors,     \* GraphvizNeighborsCreator::neighbors
  biggestNodeID, \* what the implementation takes for the number of nodes
  phase          \* how far it is, or "failed" after an exception

startVars == <<nodeID, addressFile, graphFile, parts, allNodes, graph,
               neighbors, biggestNodeID, phase>>

ListenerNodeID == 0
NoEntry == "default"  \* what operator[] inserts into a map
NoMap == [n \in {} |-> NoEntry]

\* The pieces of s between the tokens d; from a d that stands where a piece
\* should begin the rest is one piece.
split(s, d) ==
  LET from[i \in 1..Len(s) + 1] ==
        LET ends == {j \in i..Len(s) : s[j] = d}
        IN IF i > Len(s) THEN <<>>
           ELSE IF ends = {} \/ i \in ends THEN <<SubSeq(s, i, Len(s))>>
           ELSE <<SubSeq(s, i, Min(ends) - 1)>> \o from[Min(ends) + 1]
  IN from[1]

\* The number s begins with, after blanks; none is an exception.
stoi(s) ==
  {k \in Identifiers : \E i \in DOMAIN s :
     s[i] = ToString(k) /\ \A j \in 1..i - 1 : s[j] = " "}

-----------------------------------------------------------------------------
\* The identifier and the address in a line of the address file
entryOf(line) ==
  LET fields == split(line, " ")
      address == split(fields[2], ":")
  IN IF Len(fields) # 2 \/ Len(address) # 2 THEN {}
     ELSE stoi(fields[1]) \X {address[1]} \X stoi(address[2])

\* std::map::insert: the first line with an identifier counts.
inserted(map, n, entry) ==
  [x \in DOMAIN map \cup {n} |-> IF x \in DOMAIN map THEN map[x] ELSE entry]

\* Graph::insert
insert(g, a, b) ==
  [x \in DOMAIN g \cup {a} |->
     IF x # a THEN g[x]
     ELSE IF a \in DOMAIN g THEN Append(g[a], b) ELSE <<b>>]

addEdge(g, a, b) == insert(insert(g, a, b), b, a)

\* The two ends of "1 -- 2"; a chain "1 -- 2 -- 3" loses its end.
edgeOf(part) ==
  LET ends == split(part, "--")
  IN IF Len(ends) < 2 THEN {} ELSE stoi(ends[1]) \X stoi(ends[2])

StartInit ==
  /\ nodeID \in Started
  /\ addressFile \in AddressFiles
  /\ graphFile \in GraphFiles
  /\ parts = <<>>
  /\ allNodes = NoMap
  /\ graph = NoMap
  /\ neighbors = NoMap
  /\ biggestNodeID = 0
  /\ phase = "addresses"

\* An exception ends the process before the node has sent anything.
Fails ==
  /\ phase' = "failed"
  /\ UNCHANGED <<nodeID, addressFile, graphFile, parts, allNodes, graph,
                 neighbors, biggestNodeID>>

readAddress ==
  /\ phase = "addresses"
  /\ addressFile # <<>>
  /\ LET line == Head(addressFile)
     IN \/ /\ line = <<>> \/ entryOf(line) # {}
           /\ addressFile' = Tail(addressFile)
           /\ IF line = <<>> THEN UNCHANGED allNodes
              ELSE \E r \in entryOf(line) :
                     allNodes' = inserted(allNodes, r[1], <<r[2], r[3]>>)
           /\ UNCHANGED <<nodeID, graphFile, parts, graph, neighbors,
                          biggestNodeID, phase>>
        \/ line # <<>> /\ entryOf(line) = {} /\ Fails

\* The searcher keeps a reference to a file name that was destroyed when main
\* had constructed it: whether the file is found is left to chance.
openGraph ==
  /\ phase = "addresses"
  /\ addressFile = <<>>
  /\ graphFile' \in {graphFile, <<>>}
  /\ phase' = "graph"
  /\ UNCHANGED <<nodeID, addressFile, parts, allNodes, graph, neighbors,
                 biggestNodeID>>

readLine ==
  /\ phase = "graph"
  /\ parts = <<>>
  /\ graphFile # <<>>
  /\ graphFile' = Tail(graphFile)
  /\ LET line == Head(graphFile)
     IN parts' = IF Contains(line, ";") THEN split(line, ";") ELSE <<>>
  /\ UNCHANGED <<nodeID, addressFile, allNodes, graph, neighbors,
                 biggestNodeID, phase>>

readEdge ==
  /\ phase = "graph"
  /\ parts # <<>>
  /\ \/ /\ \E r \in edgeOf(Head(parts)) : graph' = addEdge(graph, r[1], r[2])
        /\ parts' = Tail(parts)
        /\ UNCHANGED <<nodeID, addressFile, graphFile, allNodes, neighbors,
                       biggestNodeID, phase>>
     \/ edgeOf(Head(parts)) = {} /\ Fails

\* at throws for a node that is not in the graph, and for a neighbour that is
\* not in the address file.
isKnown == /\ nodeID \in DOMAIN graph
           /\ ToSet(graph[nodeID]) \subseteq DOMAIN allNodes

readGraph ==
  /\ phase = "graph"
  /\ parts = <<>> /\ graphFile = <<>>
  /\ \/ /\ isKnown
        /\ neighbors' = [n \in ToSet(graph[nodeID]) |-> allNodes[n]]
        /\ phase' = "read"
        /\ UNCHANGED <<nodeID, addressFile, graphFile, parts, allNodes, graph,
                       biggestNodeID>>
     \/ ~isKnown /\ Fails

\* getNodeInfo inserts an identifier that the address file does not have.
NotInsertedSlip(map, n) == map
getNodeInfo(map, n) == inserted(map, n, NoEntry)

\* NodeCore::NodeCore: it asks for its own address and the listener's,
askAddresses ==
  /\ phase = "read"
  /\ allNodes' = getNodeInfo(getNodeInfo(allNodes, nodeID), ListenerNodeID)
  /\ phase' = "asked"
  /\ UNCHANGED <<nodeID, addressFile, graphFile, parts, graph, neighbors,
                 biggestNodeID>>

\* then for the transceiver, whose port another process may have,
createReceiver ==
  /\ phase = "asked"
  /\ \/ /\ phase' = "listening"
        /\ UNCHANGED <<nodeID, addressFile, graphFile, parts, allNodes, graph,
                       neighbors, biggestNodeID>>
     \/ Fails

\* and for the implementation, which takes the number of entries less one.
getNodeImplementation ==
  /\ phase = "listening"
  /\ biggestNodeID' = Cardinality(DOMAIN allNodes) - 1
  /\ phase' = "running"
  /\ UNCHANGED <<nodeID, addressFile, graphFile, parts, allNodes, graph,
                 neighbors>>

StartNext == \/ readAddress
             \/ openGraph
             \/ readLine
             \/ readEdge
             \/ readGraph
             \/ askAddresses
             \/ createReceiver
             \/ getNodeImplementation

StartSpec == StartInit /\ [][StartNext]_startVars

-----------------------------------------------------------------------------
(* A graph file names every edge once, and both its nodes know it: without   *)
(* that, explorers and echoes would not come in pairs.                       *)
Symmetric ==
  \A a, b \in DOMAIN graph :
    b \in ToSet(graph[a]) <=> a \in ToSet(graph[b])

\* What the address file says of the nodes other than the listener
Numbered(n) ==
  DOMAIN allNodes \ {ListenerNodeID} = 1..n

(* biggestNodeID, which is the number of entries less one, is the highest    *)
(* identifier when nodes are numbered from 1 on, whether or not the address  *)
(* file has a line for the listener: the constructor of NodeCore has asked   *)
(* for that before.                                                          *)
BiggestIsHighest ==
  phase = "running" =>
    /\ Symmetric
    /\ DOMAIN neighbors \subseteq DOMAIN allNodes
    /\ \A n \in Identifiers \cap Nat : Numbered(n) => biggestNodeID = n
=============================================================================
