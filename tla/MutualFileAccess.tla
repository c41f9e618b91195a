-------------------------- MODULE MutualFileAccess --------------------------
(***************************************************************************)
(* MutualFileAccessNodeCoreImpl and its RequestQueue: the nodes ask each   *)
(* other for access to the file X.txt, in which the even ones count down   *)
(* and the odd ones up, and stop a partner after reading zero three times. *)
(*                                                                         *)
(* One step is one turn of NodeCore::loop, except that the access to the   *)
(* file lies between two steps, Enter and Leave: the file is shared, and   *)
(* other processes run while one of them is in criticalSection.            *)
(*                                                                         *)
(* Only a node's own component of the vector times is kept.  It is the     *)
(* largest of all that the node knows, so NodeCore::receive makes it a     *)
(* Lamport clock.  No termination time is set here.                        *)
(***************************************************************************)
EXTENDS Integers, FiniteSets

CONSTANTS
  HighestNodeID,  \* highestNodeID; the nodes are 1, ..., HighestNodeID
  Neighbors,      \* NodeCore::neighbors of every node
  Prompted,       \* nodes that get a control message for their implementation
  Files,          \* what X.txt may hold when the nodes start
  MaxClock        \* bound: the model stops where a clock would exceed it

(* The definitions whose names end in Slip are slips the code could contain, *)
(* beside what it does contain; no other definition uses them.               *)

Node == 1 .. HighestNodeID
Initiator == 0   \* its sourceID
NoFile == -1     \* there is no file

ASSUME HighestNodeIDAssumption == HighestNodeID \in Nat \ {0}
ASSUME NeighborsAssumption ==
  /\ Neighbors \in [Node -> SUBSET Node]
  /\ \A n \in Node : n \notin Neighbors[n]
ASSUME InputAssumption ==
  /\ Prompted \subseteq Node
  /\ Files \subseteq Nat \cup {NoFile}
  /\ MaxClock \in Nat

Message ==
  [content : {"START", "REQUEST", "ACK", "RELEASE", "shutdown"},
   sourceID : Node \cup {Initiator}, destinationID : Node, vectorTime : Nat]

Request == [NodeID : Node, Timestamp : Nat]

VARIABLES
  isRunning,           \* isRunning[n]: the node is still in its loop
  isCritical,          \* isCritical[n]: the node is in criticalSection
  clock,               \* the own component of NodeCore::vectorTime
  queue,               \* queue[n]: RequestQueue::queue_, no two elements alike
  requestCounter,      \* requestCounter[n]: RequestQueue::requestCounter
  terminiationCounter, \* terminiationCounter[n]: zeros that n has read
  value,               \* value[n]: what n read from the file
  file,                \* the number in X.txt, or NoFile
  network              \* the messages sent and not yet handled, no two alike

vars == <<isRunning, isCritical, clock, queue, requestCounter,
          terminiationCounter, value, file, network>>

\* Who prompts a node, and whether with "START" or an explorer, is the same
\* to process: it sends a request.
Init ==
  /\ isRunning = [n \in Node |-> TRUE]
  /\ isCritical = [n \in Node |-> FALSE]
  /\ clock = [n \in Node |-> 0]
  /\ queue = [n \in Node |-> {}]
  /\ requestCounter = [n \in Node |-> [k \in Node |-> 0]]
  /\ terminiationCounter = [n \in Node |-> 0]
  /\ value = [n \in Node |-> 0]
  /\ file \in Files
  /\ network = [content : {"START"}, sourceID : {Initiator},
                destinationID : Prompted, vectorTime : {0}]

-----------------------------------------------------------------------------
(* RequestQueue                                                             *)

RequestsOf(q, k) == {r \in q : r.NodeID = k}

\* RequestPriorisation: the top of the heap is the largest, the youngest
Before(left, right) ==
  IF left.Timestamp = right.Timestamp
  THEN left.NodeID < right.NodeID
  ELSE left.Timestamp < right.Timestamp

\* On an empty queue the code reads the element before the first; TopOnNonEmpty
\* says that this never happens.
topIsFrom(q, n) ==
  \E r \in q : r.NodeID = n /\ \A x \in q \ {r} : Before(x, r)

AnyoneSlip(c) == TRUE
containsRequestFromAll(c) == \A k \in Node : c[k] # 0

push(q, r) == q \cup {r}
CountPush(c, k) == [c EXCEPT ![k] = @ + 1]

\* All counters start again at zero.  Every element is popped, and those of
\* other nodes are counted once more: what remains is counted zero times, what
\* is removed, minus once.
remove(q, k) == q \ RequestsOf(q, k)
KeptSlip(q, c, k) == c
CountRemove(q, c, k) ==
  [j \in Node |-> IF j = k THEN -Cardinality(RequestsOf(q, k)) ELSE 0]

-----------------------------------------------------------------------------
\* sendToDestinationsImpl stamps a message and hands it to the implementation
\* before it sends it: the sender's own queue gets it as a request, whatever
\* its content is.
Stamped(n, time) == [NodeID |-> n, Timestamp |-> time]

\* sendToAll: a copy for every neighbour
AddressesSlip(content, n, time) ==
  [content : {content}, sourceID : {n},
   destinationID : Neighbors[n] \cup {Initiator}, vectorTime : {time}]
Broadcast(content, n, time) ==
  [content : {content}, sourceID : {n}, destinationID : Neighbors[n],
   vectorTime : {time}]

Even(n) == n % 2 = 0
Partner(n) == IF Even(n) THEN n - 1 ELSE n + 1

\* NodeCore::receive: merge, take the maximum, increase
UnmergedSlip(m) == clock[m.destinationID] + 1
Merged(m) == IF clock[m.destinationID] < m.vectorTime
             THEN m.vectorTime + 1
             ELSE clock[m.destinationID] + 1

IsRequest(m) == m.content = "REQUEST"

\* Sending the ACK increases the clock once more.
Answered(m) == IF IsRequest(m) THEN Merged(m) + 1 ELSE Merged(m)
Answer(m) ==
  IF IsRequest(m)
  THEN {[content |-> "ACK", sourceID |-> m.destinationID,
         destinationID |-> m.sourceID, vectorTime |-> Answered(m)]}
  ELSE {}

\* The queue and its counters when topIsFrom is called
Noted(m) ==
  LET q == queue[m.destinationID]
  IN CASE IsRequest(m) -> push(q, Stamped(m.sourceID, m.vectorTime))
       [] m.content = "RELEASE" -> remove(q, m.sourceID)
       [] OTHER -> q
Counted(m) ==
  LET n == m.destinationID
      c == requestCounter[n]
  IN CASE IsRequest(m) -> CountPush(c, m.sourceID)
       [] m.content = "RELEASE" -> CountRemove(queue[n], c, m.sourceID)
       [] OTHER -> c

Received(m) == /\ m \in network
               /\ isRunning[m.destinationID]
               /\ ~isCritical[m.destinationID]

IsApplication(m) == m.content \in {"REQUEST", "ACK", "RELEASE"}

MayEnter(m) == /\ topIsFrom(Noted(m), m.destinationID)
               /\ containsRequestFromAll(Counted(m))

-----------------------------------------------------------------------------
\* A control message: the node broadcasts a request.
Start(m) ==
  LET n == m.destinationID
      time == clock[n] + 1
  IN /\ Received(m)
     /\ m.content = "START"
     /\ time <= MaxClock
     /\ clock' = [clock EXCEPT ![n] = time]
     /\ queue' = [queue EXCEPT ![n] = push(@, Stamped(n, time))]
     /\ requestCounter' = [requestCounter EXCEPT ![n] = CountPush(@, n)]
     /\ network' = (network \ {m}) \cup Broadcast("REQUEST", n, time)
     /\ UNCHANGED <<isRunning, isCritical, terminiationCounter, value, file>>

\* A message that does not open the critical section.  The condition in front
\* of the last request is always true: every message is answered by a request.
process(m) ==
  LET n == m.destinationID
      time == Answered(m) + 1
  IN /\ Received(m)
     /\ IsApplication(m)
     /\ ~MayEnter(m)
     /\ time <= MaxClock
     /\ clock' = [clock EXCEPT ![n] = time]
     /\ queue' = [queue EXCEPT ![n] = push(Noted(m), Stamped(n, time))]
     /\ requestCounter' = [requestCounter EXCEPT
                             ![n] = CountPush(Counted(m), n)]
     /\ network' = (network \ {m}) \cup Answer(m)
                     \cup Broadcast("REQUEST", n, time)
     /\ UNCHANGED <<isRunning, isCritical, terminiationCounter, value, file>>

\* criticalSection up to the read of the file
Enter(m) ==
  LET n == m.destinationID
  IN /\ Received(m)
     /\ IsApplication(m)
     /\ MayEnter(m)
     /\ file # NoFile
     /\ Answered(m) <= MaxClock
     /\ isCritical' = [isCritical EXCEPT ![n] = TRUE]
     /\ clock' = [clock EXCEPT ![n] = Answered(m)]
     /\ queue' = [queue EXCEPT ![n] = Noted(m)]
     /\ requestCounter' = [requestCounter EXCEPT ![n] = Counted(m)]
     /\ value' = [value EXCEPT ![n] = file]
     /\ terminiationCounter' = [terminiationCounter EXCEPT
                                  ![n] = IF file = 0 THEN @ + 1 ELSE @]
     /\ network' = (network \ {m}) \cup Answer(m)
     /\ UNCHANGED <<isRunning, file>>

\* Without a file there is no number to parse: the exception leaves process,
\* which sends neither a release nor a request.
Fail(m) ==
  LET n == m.destinationID
  IN /\ Received(m)
     /\ IsApplication(m)
     /\ MayEnter(m)
     /\ file = NoFile
     /\ Answered(m) <= MaxClock
     /\ clock' = [clock EXCEPT ![n] = Answered(m)]
     /\ queue' = [queue EXCEPT ![n] = Noted(m)]
     /\ requestCounter' = [requestCounter EXCEPT ![n] = Counted(m)]
     /\ network' = (network \ {m}) \cup Answer(m)
     /\ UNCHANGED <<isRunning, isCritical, terminiationCounter, value, file>>

SecondZeroSlip(n) == terminiationCounter[n] = 2
Finished(n) == terminiationCounter[n] = 3

\* "shutdown" for the partner, if there is one
Halt(n) ==
  IF Finished(n) /\ Partner(n) <= HighestNodeID
  THEN {[content |-> "shutdown", sourceID |-> n,
         destinationID |-> Partner(n), vectorTime |-> 0]}
  ELSE {}

Written(n) ==
  CASE Finished(n) -> file
    [] ~Finished(n) /\ Even(n) -> IF value[n] = 0 THEN 0 ELSE value[n] - 1
    [] ~Finished(n) /\ ~Even(n) -> value[n] + 1

\* The rest of criticalSection, and what process does after it: a release, which
\* enters the own queue and leaves it with all own requests, then a request.
Leave(n) ==
  LET release == clock[n] + 1
      request == clock[n] + 2
      own == IF Finished(n) THEN queue[n] ELSE remove(queue[n], n)
      pushed == push(own, Stamped(n, release))
  IN /\ isRunning[n] /\ isCritical[n]
     /\ request <= MaxClock
     /\ isCritical' = [isCritical EXCEPT ![n] = FALSE]
     /\ file' = Written(n)
     /\ clock' = [clock EXCEPT ![n] = request]
     /\ queue' = [queue EXCEPT
                    ![n] = push(remove(pushed, n), Stamped(n, request))]
     /\ requestCounter' =
          [requestCounter EXCEPT
             ![n] = CountPush(CountRemove(pushed, @, n), n)]
     /\ network' = network \cup Halt(n)
                     \cup Broadcast("RELEASE", n, release)
                     \cup Broadcast("REQUEST", n, request)
     /\ value' = [value EXCEPT ![n] = 0]
     /\ UNCHANGED <<isRunning, terminiationCounter>>

\* NodeCore::handleControlMessage
Shutdown(m) ==
  /\ Received(m)
  /\ m.content = "shutdown"
  /\ isRunning' = [isRunning EXCEPT ![m.destinationID] = FALSE]
  /\ network' = network \ {m}
  /\ UNCHANGED <<isCritical, clock, queue, requestCounter,
                 terminiationCounter, value, file>>

\* A write to a connection whose reader is gone raises SIGPIPE.  What the
\* process did not send before it died stays in network for ever.
Crash(n) ==
  /\ isRunning[n]
  /\ \E m \in network : m.sourceID = n /\ ~isRunning[m.destinationID]
  /\ isRunning' = [isRunning EXCEPT ![n] = FALSE]
  /\ isCritical' = [isCritical EXCEPT ![n] = FALSE]
  /\ UNCHANGED <<clock, queue, requestCounter, terminiationCounter, value,
                 file, network>>

Next ==
  \/ \E m \in network : Start(m) \/ process(m) \/ Enter(m) \/ Fail(m)
                      \/ Shutdown(m)
  \/ \E n \in Node : Leave(n) \/ Crash(n)

Spec == Init /\ [][Next]_vars

-----------------------------------------------------------------------------
TypeOK ==
  /\ isRunning \in [Node -> BOOLEAN]
  /\ isCritical \in [Node -> BOOLEAN]
  /\ clock \in [Node -> Nat]
  /\ queue \in [Node -> SUBSET Request]
  /\ requestCounter \in [Node -> [Node -> Int]]
  /\ terminiationCounter \in [Node -> Nat]
  /\ value \in [Node -> Nat]
  /\ file \in Nat \cup {NoFile}
  /\ network \subseteq Message

Asked(k) == RequestsOf(queue[k], k) # {}

(* topIsFrom reads the top of the queue without asking whether there is one, *)
(* after every message that another node's implementation sent.              *)
TopOnNonEmpty ==
  \A m \in network : Received(m) /\ IsApplication(m) => Noted(m) # {}

(* "containsRequestFromAll": a node in the critical section has not gone     *)
(* there before every node of the system asked for it, although its counters *)
(* do not count the requests that it holds.                                  *)
EntersAfterAll ==
  \A n \in Node : isCritical[n] => \A k \in Node : Asked(k)

(* A counter never exceeds the requests that are there: after any sequence   *)
(* of push and remove, a positive counter means a request in the queue.      *)
CountersBelowQueue ==
  \A n, k \in Node :
    requestCounter[n][k] <= Cardinality(RequestsOf(queue[n], k))

(* Whatever the others have asked for, when a node has dealt with a message  *)
(* the top of its queue is its own request: every node is its own first.     *)
OwnOnTop == \A n \in Node : Asked(n) => topIsFrom(queue[n], n)

(* "Critical Section!": two nodes are never in it at once.                   *)
MutualExclusion ==
  \A n, k \in Node : isCritical[n] /\ isCritical[k] => n = k

(* Nobody stops before some node has read zero for the third time.           *)
StopsAfterThreeZeros ==
  (\E n \in Node : ~isRunning[n]) =>
    \E k \in Node : terminiationCounter[k] >= 3
=============================================================================
