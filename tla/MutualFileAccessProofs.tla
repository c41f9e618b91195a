----------------------- MODULE MutualFileAccessProofs -----------------------
(***************************************************************************)
(* What is proved about MutualFileAccess for any number of nodes, any      *)
(* neighbours, any content of the file and any bound on the clocks.        *)
(***************************************************************************)
EXTENDS MutualFileAccess, FiniteSetTheorems, TLAPS

Finite == \A n \in Node : IsFiniteSet(queue[n])

\* An application message comes from another node.
FromNodes ==
  \A m \in network :
    IsApplication(m) => m.sourceID \in Node \ {m.destinationID}

TypeInv == TypeOK /\ Finite /\ FromNodes

\* A node has asked for access if something tells of it: a counter, or a message
\* that it sent or that answers it.
AskedInv ==
  /\ \A n, k \in Node : requestCounter[n][k] # 0 => Asked(k)
  /\ \A m \in network :
       /\ m.content \in {"REQUEST", "RELEASE"} => Asked(m.sourceID)
       /\ m.content \in {"ACK", "RELEASE"} => Asked(m.destinationID)
  /\ EntersAfterAll

\* A node's clock is ahead of what it has sent, so its next stamp is new, and
\* ahead of what it has received.
ClockInv ==
  /\ \A m \in network : IsApplication(m) => m.vectorTime <= clock[m.sourceID]
  /\ \A n \in Node : \A r \in queue[n] :
       r.Timestamp <= clock[n] /\ r.Timestamp <= clock[r.NodeID]
  /\ \A m \in network : IsRequest(m) =>
       Stamped(m.sourceID, m.vectorTime) \notin queue[m.destinationID]

\* c counts no more requests than q holds.
Below(q, c) == \A k \in Node : c[k] <= Cardinality(RequestsOf(q, k))

-----------------------------------------------------------------------------
(* Types                                                                    *)

LEMMA PartnerType ==
  ASSUME NEW n \in Node, Partner(n) <= HighestNodeID
  PROVE  Partner(n) \in Node
<1>1. n \in Nat /\ n # 0 /\ HighestNodeID \in Nat
  BY HighestNodeIDAssumption DEF Node
<1>2. Even(n) => n # 1
  BY DEF Even
<1> QED BY <1>1, <1>2 DEF Partner, Node

LEMMA BroadcastType ==
  ASSUME NEW n \in Node, NEW time \in Nat,
         NEW content \in {"REQUEST", "RELEASE"}
  PROVE  /\ Broadcast(content, n, time) \subseteq Message
         /\ Stamped(n, time) \in Request
         /\ \A m \in Broadcast(content, n, time) :
              m.sourceID \in Node \ {m.destinationID}
BY NeighborsAssumption DEF Broadcast, Stamped, Message, Request

LEMMA RemoveType ==
  ASSUME NEW q \in SUBSET Request, IsFiniteSet(q),
         NEW c, NEW k \in Node
  PROVE  /\ remove(q, k) \subseteq Request
         /\ IsFiniteSet(remove(q, k))
         /\ CountRemove(q, c, k) \in [Node -> Int]
<1>1. IsFiniteSet(remove(q, k))
  BY FS_Subset DEF remove
<1>2. IsFiniteSet(RequestsOf(q, k))
  BY FS_Subset DEF RequestsOf
<1>3. Cardinality(RequestsOf(q, k)) \in Nat
  BY <1>2, FS_CardinalityType
<1> QED BY <1>1, <1>3 DEF remove, CountRemove

LEMMA PushType ==
  ASSUME NEW q \in SUBSET Request, IsFiniteSet(q), NEW r \in Request,
         NEW c \in [Node -> Int], NEW k \in Node
  PROVE  /\ push(q, r) \subseteq Request
         /\ IsFiniteSet(push(q, r))
         /\ CountPush(c, k) \in [Node -> Int]
<1>1. IsFiniteSet(push(q, r))
  BY FS_AddElement DEF push
<1> QED BY <1>1 DEF push, CountPush

\* What the first part of process computes
LEMMA NotedType ==
  ASSUME TypeInv, NEW m \in network, IsApplication(m)
  PROVE  /\ m.destinationID \in Node
         /\ m.sourceID \in Node \ {m.destinationID}
         /\ Answered(m) \in Nat
         /\ clock[m.destinationID] < Answered(m)
         /\ m.vectorTime < Answered(m)
         /\ Answer(m) \subseteq Message
         /\ \A a \in Answer(m) : a.sourceID \in Node \ {a.destinationID}
         /\ Noted(m) \subseteq Request
         /\ IsFiniteSet(Noted(m))
         /\ Counted(m) \in [Node -> Int]
<1> DEFINE n == m.destinationID
<1>1. m \in Message /\ n \in Node /\ m.vectorTime \in Nat
      /\ m.sourceID \in Node \ {n}
  BY DEF TypeInv, TypeOK, FromNodes, Message
<1>2. clock[n] \in Nat /\ queue[n] \subseteq Request /\ IsFiniteSet(queue[n])
      /\ requestCounter[n] \in [Node -> Int]
  BY <1>1 DEF TypeInv, TypeOK, Finite
<1>3. Answered(m) \in Nat /\ clock[n] < Answered(m)
      /\ m.vectorTime < Answered(m)
  BY <1>1, <1>2 DEF Answered, Merged
<1>4. Answer(m) \subseteq Message
      /\ \A a \in Answer(m) : a.sourceID \in Node \ {a.destinationID}
  BY <1>1, <1>3 DEF Answer, Message
<1>5. Stamped(m.sourceID, m.vectorTime) \in Request
  BY <1>1 DEF Stamped, Request
<1>6. CASE IsRequest(m)
  <2>1. /\ Noted(m) = push(queue[n], Stamped(m.sourceID, m.vectorTime))
        /\ Counted(m) = CountPush(requestCounter[n], m.sourceID)
    BY <1>6 DEF Noted, Counted, IsRequest
  <2>2. /\ push(queue[n], Stamped(m.sourceID, m.vectorTime)) \subseteq Request
        /\ IsFiniteSet(push(queue[n], Stamped(m.sourceID, m.vectorTime)))
        /\ CountPush(requestCounter[n], m.sourceID) \in [Node -> Int]
    BY <1>1, <1>2, <1>5, PushType
  <2> QED BY <1>1, <1>3, <1>4, <2>1, <2>2
<1>7. CASE m.content = "RELEASE"
  BY <1>1, <1>2, <1>3, <1>4, <1>7, RemoveType DEF Noted, Counted, IsRequest
<1>8. CASE ~IsRequest(m) /\ m.content # "RELEASE"
  BY <1>1, <1>2, <1>3, <1>4, <1>8 DEF Noted, Counted
<1> QED BY <1>6, <1>7, <1>8

LEMMA LeaveType ==
  ASSUME TypeInv, NEW n \in Node,
         NEW own, own = queue[n] \/ own = remove(queue[n], n)
  PROVE  LET pushed == push(own, Stamped(n, clock[n] + 1))
         IN /\ own \subseteq Request
            /\ pushed \subseteq Request
            /\ IsFiniteSet(pushed)
            /\ push(remove(pushed, n), Stamped(n, clock[n] + 2))
                 \in SUBSET Request
            /\ IsFiniteSet(push(remove(pushed, n), Stamped(n, clock[n] + 2)))
            /\ CountPush(CountRemove(pushed, requestCounter[n], n), n)
                 \in [Node -> Int]
<1> DEFINE pushed == push(own, Stamped(n, clock[n] + 1))
<1>1. clock[n] + 1 \in Nat /\ clock[n] + 2 \in Nat
      /\ queue[n] \in SUBSET Request /\ IsFiniteSet(queue[n])
      /\ requestCounter[n] \in [Node -> Int]
  BY DEF TypeInv, TypeOK, Finite
<1>2. Stamped(n, clock[n] + 1) \in Request /\ Stamped(n, clock[n] + 2) \in Request
  BY <1>1 DEF Stamped, Request
<1>3. own \in SUBSET Request /\ IsFiniteSet(own)
  BY <1>1, RemoveType
<1>4. pushed \in SUBSET Request /\ IsFiniteSet(pushed)
  BY <1>1, <1>2, <1>3, PushType
<1>5. /\ remove(pushed, n) \in SUBSET Request
      /\ IsFiniteSet(remove(pushed, n))
      /\ CountRemove(pushed, requestCounter[n], n) \in [Node -> Int]
  BY <1>4, RemoveType
<1> HIDE DEF pushed
<1>6. /\ push(remove(pushed, n), Stamped(n, clock[n] + 2)) \in SUBSET Request
      /\ IsFiniteSet(push(remove(pushed, n), Stamped(n, clock[n] + 2)))
      /\ CountPush(CountRemove(pushed, requestCounter[n], n), n)
           \in [Node -> Int]
  BY <1>2, <1>5, PushType
<1> QED BY <1>3, <1>4, <1>6 DEF pushed

LEMMA TypeInvInit == Init => TypeInv
<1> SUFFICES ASSUME Init PROVE TypeInv
  OBVIOUS
<1>1. network \subseteq Message
  BY InputAssumption DEF Init, Message
<1>2. TypeOK
  BY <1>1, InputAssumption DEF Init, TypeOK
<1>3. Finite
  BY FS_EmptySet DEF Init, Finite
<1>4. FromNodes
  BY DEF Init, FromNodes, IsApplication
<1> QED BY <1>2, <1>3, <1>4 DEF TypeInv

LEMMA TypeInvStep == TypeInv /\ [Next]_vars => TypeInv'
<1> SUFFICES ASSUME TypeInv, [Next]_vars PROVE TypeInv'
  OBVIOUS
<1> USE DEF TypeInv
<1>1. ASSUME NEW m \in network, Start(m) PROVE TypeInv'
  <2> DEFINE n == m.destinationID
             time == clock[n] + 1
  <2>1. n \in Node /\ time \in Nat /\ queue[n] \in SUBSET Request
        /\ IsFiniteSet(queue[n]) /\ requestCounter[n] \in [Node -> Int]
    BY DEF TypeOK, Finite, Message
  <2>2. Stamped(n, time) \in Request
    BY <2>1 DEF Stamped, Request
  <2>3. /\ push(queue[n], Stamped(n, time)) \subseteq Request
        /\ IsFiniteSet(push(queue[n], Stamped(n, time)))
        /\ CountPush(requestCounter[n], n) \in [Node -> Int]
    BY <2>1, <2>2, PushType
  <2>4. TypeOK'
    BY <1>1, <2>1, <2>3, BroadcastType DEF TypeOK, Start
  <2>5. Finite'
    BY <1>1, <2>1, <2>3 DEF Finite, TypeOK, Start
  <2>6. FromNodes'
    BY <1>1, <2>1, BroadcastType DEF FromNodes, Start
  <2> QED BY <2>4, <2>5, <2>6
<1>2. ASSUME NEW m \in network, process(m) PROVE TypeInv'
  <2> DEFINE n == m.destinationID
             time == Answered(m) + 1
  <2>1. IsApplication(m) /\ n \in Node /\ time \in Nat
    BY <1>2, NotedType DEF process
  <2>2. Stamped(n, time) \in Request
    BY <2>1 DEF Stamped, Request
  <2>3. /\ push(Noted(m), Stamped(n, time)) \subseteq Request
        /\ IsFiniteSet(push(Noted(m), Stamped(n, time)))
        /\ CountPush(Counted(m), n) \in [Node -> Int]
    BY <2>1, <2>2, NotedType, PushType
  <2>4. network' \subseteq Message
    BY <1>2, <2>1, NotedType, BroadcastType DEF TypeOK, process
  <2>5. TypeOK'
    BY <1>2, <2>1, <2>3, <2>4 DEF TypeOK, process
  <2>6. Finite'
    BY <1>2, <2>1, <2>3 DEF Finite, TypeOK, process
  <2>7. FromNodes'
    BY <1>2, <2>1, NotedType, BroadcastType DEF FromNodes, process
  <2> QED BY <2>5, <2>6, <2>7
<1>3. ASSUME NEW m \in network, Enter(m) \/ Fail(m) PROVE TypeInv'
  <2> DEFINE n == m.destinationID
  <2>1. IsApplication(m)
    BY <1>3 DEF Enter, Fail
  <2>2. n \in Node /\ Answered(m) \in Nat
    BY <2>1, NotedType
  <2>3. Noted(m) \subseteq Request /\ IsFiniteSet(Noted(m))
        /\ Counted(m) \in [Node -> Int]
    BY <2>1, NotedType
  <2>4. /\ clock' = [clock EXCEPT ![n] = Answered(m)]
        /\ queue' = [queue EXCEPT ![n] = Noted(m)]
        /\ requestCounter' = [requestCounter EXCEPT ![n] = Counted(m)]
        /\ network' = (network \ {m}) \cup Answer(m)
        /\ isRunning' = isRunning /\ file' = file
    BY <1>3 DEF Enter, Fail
  <2>5. /\ isCritical' \in [Node -> BOOLEAN]
        /\ terminiationCounter' \in [Node -> Nat]
        /\ value' \in [Node -> Nat]
    <3>1. CASE Enter(m)
      <4>1. file \in Nat
        BY <3>1 DEF TypeOK, Enter
      <4> QED BY <2>2, <3>1, <4>1 DEF TypeOK, Enter
    <3>2. CASE Fail(m)
      BY <3>2 DEF TypeOK, Fail
    <3> QED BY <1>3, <3>1, <3>2
  <2>6. network' \subseteq Message
    BY <2>1, <2>4, NotedType DEF TypeOK
  <2>7. TypeOK'
    BY <2>2, <2>3, <2>4, <2>5, <2>6 DEF TypeOK
  <2>8. Finite'
    BY <2>2, <2>3, <2>4 DEF Finite, TypeOK
  <2>9. FromNodes'
    BY <2>1, <2>4, NotedType DEF FromNodes
  <2> QED BY <2>7, <2>8, <2>9
<1>4. ASSUME NEW m \in network, Shutdown(m) PROVE TypeInv'
  BY <1>4 DEF TypeOK, Finite, FromNodes, Shutdown
<1>5. ASSUME NEW n \in Node, Leave(n) PROVE TypeInv'
  <2> DEFINE own == IF Finished(n) THEN queue[n] ELSE remove(queue[n], n)
             pushed == push(own, Stamped(n, clock[n] + 1))
             last == push(remove(pushed, n), Stamped(n, clock[n] + 2))
             count == CountPush(CountRemove(pushed, requestCounter[n], n), n)
  <2>1. clock[n] + 1 \in Nat /\ clock[n] + 2 \in Nat
    BY DEF TypeOK
  <2>2. last \in SUBSET Request /\ IsFiniteSet(last)
        /\ count \in [Node -> Int]
    BY LeaveType
  <2>3. /\ queue' = [queue EXCEPT ![n] = last]
        /\ requestCounter' = [requestCounter EXCEPT ![n] = count]
        /\ clock' = [clock EXCEPT ![n] = clock[n] + 2]
        /\ isCritical' = [isCritical EXCEPT ![n] = FALSE]
        /\ value' = [value EXCEPT ![n] = 0]
        /\ isRunning' = isRunning /\ terminiationCounter' = terminiationCounter
    BY <1>5 DEF Leave
  <2>4. Halt(n) \subseteq Message /\ \A m \in Halt(n) : ~IsApplication(m)
    BY PartnerType DEF Halt, Message, IsApplication
  <2>5. network' = network \cup Halt(n)
                     \cup Broadcast("RELEASE", n, clock[n] + 1)
                     \cup Broadcast("REQUEST", n, clock[n] + 2)
    BY <1>5 DEF Leave
  <2>6. network' \subseteq Message
    BY <2>1, <2>4, <2>5, BroadcastType DEF TypeOK
  <2>7. file' \in Nat \cup {NoFile}
    BY <1>5 DEF Leave, Written, TypeOK
  <2> HIDE DEF last, count
  <2>8. TypeOK'
    BY <2>1, <2>2, <2>3, <2>6, <2>7 DEF TypeOK
  <2>9. Finite'
    BY <2>2, <2>3 DEF Finite, TypeOK
  <2>10. FromNodes'
    BY <2>1, <2>4, <2>5, BroadcastType DEF FromNodes
  <2> QED BY <2>8, <2>9, <2>10
<1>6. ASSUME NEW n \in Node, Crash(n) PROVE TypeInv'
  BY <1>6 DEF TypeOK, Finite, FromNodes, Crash
<1>7. CASE UNCHANGED vars
  BY <1>7 DEF TypeOK, Finite, FromNodes, vars
<1> QED BY <1>1, <1>2, <1>3, <1>4, <1>5, <1>6, <1>7 DEF Next

(* Every state the program reaches is one its types describe.               *)
THEOREM MutualTypeCorrect == Spec => []TypeOK
<1>1. TypeInv => TypeOK
  BY DEF TypeInv
<1> QED BY <1>1, TypeInvInit, TypeInvStep, PTL DEF Spec

-----------------------------------------------------------------------------
(* Who has asked                                                            *)

LEMMA PushAsked ==
  ASSUME NEW q, NEW n, NEW time
  PROVE  RequestsOf(push(q, Stamped(n, time)), n) # {}
<1>1. Stamped(n, time) \in RequestsOf(push(q, Stamped(n, time)), n)
  BY DEF RequestsOf, push, Stamped
<1> QED BY <1>1

\* What other nodes send does not take a node's own requests away.
LEMMA NotedKeepsOwn ==
  ASSUME TypeInv, NEW m \in network, IsApplication(m)
  PROVE  RequestsOf(queue[m.destinationID], m.destinationID)
           \subseteq RequestsOf(Noted(m), m.destinationID)
<1>1. m.sourceID # m.destinationID
  BY NotedType
<1>2. m.content \in {"REQUEST", "ACK", "RELEASE"}
  BY DEF IsApplication
<1> QED BY <1>1, <1>2
        DEF Noted, RequestsOf, push, remove, Stamped, IsRequest

\* No node ever forgets that it asked, and a node that sends a request has asked.
LEMMA AskedStays ==
  ASSUME TypeInv, [Next]_vars, NEW k \in Node, Asked(k)
  PROVE  Asked(k)'
<1>0. queue \in [Node -> SUBSET Request]
  BY DEF TypeInv, TypeOK
<1>1. ASSUME NEW m \in network, Start(m) PROVE Asked(k)'
  <2>1. queue' = [queue EXCEPT ![m.destinationID] =
                    push(@, Stamped(m.destinationID,
                                    clock[m.destinationID] + 1))]
    BY <1>1 DEF Start
  <2> QED BY <1>0, <2>1 DEF Asked, RequestsOf, push
<1>2. ASSUME NEW m \in network, process(m) PROVE Asked(k)'
  <2> DEFINE n == m.destinationID
  <2>1. IsApplication(m)
        /\ queue' = [queue EXCEPT
                       ![n] = push(Noted(m), Stamped(n, Answered(m) + 1))]
    BY <1>2 DEF process
  <2>2. CASE k = n
    BY <1>0, <2>1, <2>2, PushAsked DEF Asked
  <2>3. CASE k # n
    BY <1>0, <2>1, <2>3 DEF Asked
  <2> QED BY <2>2, <2>3
<1>3. ASSUME NEW m \in network, Enter(m) \/ Fail(m) PROVE Asked(k)'
  <2> DEFINE n == m.destinationID
  <2>1. IsApplication(m) /\ queue' = [queue EXCEPT ![n] = Noted(m)]
    BY <1>3 DEF Enter, Fail
  <2> QED BY <1>0, <2>1, NotedKeepsOwn DEF Asked
<1>4. ASSUME NEW n \in Node, Leave(n) PROVE Asked(k)'
  <2>1. PICK q : queue' = [queue EXCEPT
                             ![n] = push(q, Stamped(n, clock[n] + 2))]
    BY <1>4 DEF Leave
  <2>2. CASE k = n
    BY <1>0, <2>1, <2>2, PushAsked DEF Asked
  <2>3. CASE k # n
    BY <1>0, <2>1, <2>3 DEF Asked
  <2> QED BY <2>2, <2>3
<1>5. CASE UNCHANGED queue
  BY <1>5 DEF Asked
<1> QED BY <1>1, <1>2, <1>3, <1>4, <1>5 DEF Next, Shutdown, Crash, vars

\* Who counts in the first part of process has asked.
LEMMA CountedAsked ==
  ASSUME TypeInv, AskedInv, NEW m \in network, IsApplication(m)
  PROVE  /\ \A k \in Node : Counted(m)[k] # 0 => Asked(k)
         /\ \A a \in Answer(m) : a.content = "ACK" /\ Asked(a.destinationID)
<1>1. m.destinationID \in Node /\ m.sourceID \in Node
      /\ requestCounter[m.destinationID] \in [Node -> Int]
  BY NotedType DEF TypeInv, TypeOK
<1>2. \A k \in Node : requestCounter[m.destinationID][k] # 0 => Asked(k)
  BY <1>1 DEF AskedInv
<1>3. CASE IsRequest(m)
  <2>1. Asked(m.sourceID)
    BY <1>3 DEF AskedInv, IsRequest
  <2>2. Counted(m) = CountPush(requestCounter[m.destinationID], m.sourceID)
    BY <1>3 DEF Counted, IsRequest
  <2> QED BY <1>1, <1>2, <1>3, <2>1, <2>2 DEF CountPush, Answer
<1>4. CASE m.content = "RELEASE"
  <2>1. Asked(m.sourceID)
    BY <1>4 DEF AskedInv
  <2>2. \A k \in Node : k # m.sourceID => Counted(m)[k] = 0
    BY <1>1, <1>4 DEF Counted, CountRemove, IsRequest
  <2> QED BY <1>1, <1>4, <2>1, <2>2 DEF Answer, IsRequest
<1>5. CASE ~IsRequest(m) /\ m.content # "RELEASE"
  BY <1>2, <1>5 DEF Counted, Answer
<1> QED BY <1>3, <1>4, <1>5

LEMMA AskedStep == TypeInv /\ AskedInv /\ [Next]_vars => AskedInv'
<1> SUFFICES ASSUME TypeInv, AskedInv, [Next]_vars PROVE AskedInv'
  OBVIOUS
<1>0. \A k \in Node : Asked(k) => Asked(k)'
  BY AskedStays
<1>a. \A m \in network : m \in Message
  BY DEF TypeInv, TypeOK
<1>b. \A m \in network : IsApplication(m) =>
        m.sourceID \in Node /\ m.destinationID \in Node
  BY <1>a DEF TypeInv, FromNodes, Message
<1>c. queue \in [Node -> SUBSET Request]
      /\ requestCounter \in [Node -> [Node -> Int]]
      /\ isCritical \in [Node -> BOOLEAN]
  BY DEF TypeInv, TypeOK
\* The messages of now are no obstacle to any step.
<1>d. \A m \in network :
        /\ m.content \in {"REQUEST", "RELEASE"} => Asked(m.sourceID)'
        /\ m.content \in {"ACK", "RELEASE"} => Asked(m.destinationID)'
  BY <1>0, <1>b DEF AskedInv, IsApplication
<1>1. ASSUME NEW m \in network, Start(m) PROVE AskedInv'
  <2> DEFINE n == m.destinationID
             time == clock[n] + 1
  <2>1. /\ n \in Node
        /\ queue' = [queue EXCEPT ![n] = push(queue[n], Stamped(n, time))]
        /\ requestCounter' = [requestCounter EXCEPT
                                ![n] = CountPush(requestCounter[n], n)]
        /\ network' = (network \ {m}) \cup Broadcast("REQUEST", n, time)
        /\ isCritical' = isCritical
    BY <1>1, <1>a DEF Start, Message
  <2>2. Asked(n)'
    BY <1>c, <2>1, PushAsked DEF Asked
  <2>3. \A j, k \in Node : requestCounter'[j][k] # 0 => Asked(k)'
    BY <1>0, <1>c, <2>1, <2>2 DEF AskedInv, CountPush
  <2>4. \A x \in network' :
          /\ x.content \in {"REQUEST", "RELEASE"} => Asked(x.sourceID)'
          /\ x.content \in {"ACK", "RELEASE"} => Asked(x.destinationID)'
    BY <1>d, <2>1, <2>2 DEF Broadcast
  <2>5. EntersAfterAll'
    BY <1>0, <2>1 DEF AskedInv, EntersAfterAll
  <2> QED BY <2>3, <2>4, <2>5 DEF AskedInv
<1>2. ASSUME NEW m \in network, process(m) PROVE AskedInv'
  <2> DEFINE n == m.destinationID
             time == Answered(m) + 1
  <2>1. /\ IsApplication(m)
        /\ n \in Node
        /\ queue' = [queue EXCEPT ![n] = push(Noted(m), Stamped(n, time))]
        /\ requestCounter' = [requestCounter EXCEPT
                                ![n] = CountPush(Counted(m), n)]
        /\ network' = (network \ {m}) \cup Answer(m)
                         \cup Broadcast("REQUEST", n, time)
        /\ isCritical' = isCritical
    BY <1>2, <1>a DEF process, Message
  <2>2. Asked(n)'
    BY <1>c, <2>1, PushAsked DEF Asked
  <2>3. \A j, k \in Node : requestCounter'[j][k] # 0 => Asked(k)'
    <3>1. \A k \in Node : CountPush(Counted(m), n)[k] # 0 => Asked(k)'
      BY <1>0, <2>1, <2>2, CountedAsked, NotedType DEF CountPush
    <3> QED BY <1>0, <1>c, <2>1, <3>1 DEF AskedInv
  <2>4. \A x \in network' :
          /\ x.content \in {"REQUEST", "RELEASE"} => Asked(x.sourceID)'
          /\ x.content \in {"ACK", "RELEASE"} => Asked(x.destinationID)'
    <3>1. \A a \in Answer(m) : a.content = "ACK" /\ Asked(a.destinationID)'
      <4>1. \A a \in Answer(m) : a.destinationID \in Node
        BY <2>1, NotedType DEF Message
      <4> QED BY <1>0, <2>1, <4>1, CountedAsked
    <3> QED BY <1>d, <2>1, <2>2, <3>1 DEF Broadcast
  <2>5. EntersAfterAll'
    BY <1>0, <2>1 DEF AskedInv, EntersAfterAll
  <2> QED BY <2>3, <2>4, <2>5 DEF AskedInv
<1>3. ASSUME NEW m \in network, Enter(m) \/ Fail(m) PROVE AskedInv'
  <2> DEFINE n == m.destinationID
  <2>1. /\ IsApplication(m)
        /\ n \in Node
        /\ MayEnter(m)
        /\ queue' = [queue EXCEPT ![n] = Noted(m)]
        /\ requestCounter' = [requestCounter EXCEPT ![n] = Counted(m)]
        /\ network' = (network \ {m}) \cup Answer(m)
    BY <1>3, <1>a DEF Enter, Fail, Message
  <2>2. \A k \in Node : Asked(k)'
    BY <1>0, <2>1, CountedAsked DEF MayEnter, containsRequestFromAll
  <2>3. \A x \in network' :
          /\ x.content \in {"REQUEST", "RELEASE"} => Asked(x.sourceID)'
          /\ x.content \in {"ACK", "RELEASE"} => Asked(x.destinationID)'
    <3>1. \A a \in Answer(m) :
            a.content = "ACK" /\ a.destinationID \in Node
      BY <2>1, NotedType, CountedAsked DEF Message
    <3> QED BY <1>d, <2>1, <2>2, <3>1
  <2> QED BY <2>2, <2>3 DEF AskedInv, EntersAfterAll
<1>4. ASSUME NEW n \in Node, Leave(n) PROVE AskedInv'
  <2>1. \A k \in Node : Asked(k)'
    BY <1>0, <1>4 DEF AskedInv, EntersAfterAll, Leave
  <2>2. network' = network \cup Halt(n)
                     \cup Broadcast("RELEASE", n, clock[n] + 1)
                     \cup Broadcast("REQUEST", n, clock[n] + 2)
    BY <1>4 DEF Leave
  <2>3. \A x \in Halt(n) : x.content = "shutdown"
    BY DEF Halt
  <2>4. \A x \in Broadcast("RELEASE", n, clock[n] + 1)
                 \cup Broadcast("REQUEST", n, clock[n] + 2) :
          x.sourceID \in Node /\ x.destinationID \in Node
    BY NeighborsAssumption DEF Broadcast
  <2>5. \A x \in network' :
          /\ x.content \in {"REQUEST", "RELEASE"} => Asked(x.sourceID)'
          /\ x.content \in {"ACK", "RELEASE"} => Asked(x.destinationID)'
    BY <1>d, <2>1, <2>2, <2>3, <2>4
  <2> QED BY <2>1, <2>5 DEF AskedInv, EntersAfterAll
<1>5. ASSUME /\ UNCHANGED <<queue, requestCounter>>
             /\ network' \subseteq network
             /\ \A n \in Node : isCritical'[n] => isCritical[n]
      PROVE  AskedInv'
  BY <1>0, <1>d, <1>5 DEF AskedInv, EntersAfterAll
<1>6. ASSUME NEW m \in network, Shutdown(m) PROVE AskedInv'
  BY <1>5, <1>6 DEF Shutdown
<1>7. ASSUME NEW n \in Node, Crash(n) PROVE AskedInv'
  BY <1>5, <1>7, <1>c DEF Crash
<1>8. CASE UNCHANGED vars
  BY <1>5, <1>8 DEF vars
<1> QED BY <1>1, <1>2, <1>3, <1>4, <1>6, <1>7, <1>8 DEF Next

LEMMA AskedInit == Init => AskedInv
BY DEF Init, AskedInv, EntersAfterAll

THEOREM MutualInvariant == Spec => [](TypeInv /\ AskedInv)
BY TypeInvInit, TypeInvStep, AskedInit, AskedStep, PTL DEF Spec

(* No node is in the critical section before every node has asked for it:   *)
(* containsRequestFromAll.                                                  *)
THEOREM EntersAfterAllAlways == Spec => []EntersAfterAll
<1>1. AskedInv => EntersAfterAll
  BY DEF AskedInv
<1> QED BY <1>1, MutualInvariant, PTL

(* topIsFrom is never called on an empty queue.                             *)
THEOREM TopIsThere == Spec => []TopOnNonEmpty
<1>1. TypeInv /\ AskedInv => TopOnNonEmpty
  <2> SUFFICES ASSUME TypeInv, AskedInv, NEW m \in network, IsApplication(m)
               PROVE  Noted(m) # {}
    BY DEF TopOnNonEmpty
  <2>1. CASE IsRequest(m)
    BY <2>1 DEF Noted, push, IsRequest
  <2>2. CASE ~IsRequest(m)
    <3>1. Asked(m.destinationID)
      BY <2>2 DEF AskedInv, IsApplication, IsRequest
    <3> QED BY <3>1, NotedKeepsOwn DEF Asked, RequestsOf
  <2> QED BY <2>1, <2>2
<1> QED BY <1>1, MutualInvariant, PTL

-----------------------------------------------------------------------------
(* Clocks                                                                   *)

\* What is in the queue after the first part of process has a stamp that the
\* node and the sender have passed.
LEMMA NotedStamps ==
  ASSUME TypeInv, ClockInv, NEW m \in network, IsApplication(m)
  PROVE  \A r \in Noted(m) :
           /\ r.NodeID \in Node
           /\ r.Timestamp \in Nat
           /\ r.Timestamp <= Answered(m)
           /\ r.Timestamp <= clock[r.NodeID]
<1> SUFFICES ASSUME NEW r \in Noted(m)
             PROVE  /\ r.Timestamp <= Answered(m)
                    /\ r.Timestamp <= clock[r.NodeID]
  BY NotedType DEF Request
<1>1. /\ r \in Request /\ m.destinationID \in Node
      /\ clock[m.destinationID] < Answered(m) /\ m.vectorTime < Answered(m)
      /\ Answered(m) \in Nat /\ clock \in [Node -> Nat]
      /\ m \in Message
  BY NotedType DEF TypeInv, TypeOK
<1>2. CASE r \in queue[m.destinationID]
  <2>1. /\ r.Timestamp <= clock[m.destinationID]
        /\ r.Timestamp <= clock[r.NodeID]
    BY <1>1, <1>2 DEF ClockInv
  <2> QED BY <1>1, <2>1 DEF Request
<1>3. CASE r = Stamped(m.sourceID, m.vectorTime)
  BY <1>1, <1>3 DEF ClockInv, Stamped, Message
<1>4. r \in queue[m.destinationID] \/ r = Stamped(m.sourceID, m.vectorTime)
  BY DEF Noted, push, remove
<1> QED BY <1>2, <1>3, <1>4

\* A message that stays in network is still new where it goes to.
LEMMA NotedFresh ==
  ASSUME TypeInv, ClockInv, NEW m \in network, IsApplication(m),
         NEW x \in network \ {m}, IsRequest(x),
         x.destinationID = m.destinationID
  PROVE  Stamped(x.sourceID, x.vectorTime) \notin Noted(m)
<1>1. x \in Message /\ m \in Message
  BY DEF TypeInv, TypeOK
<1>2. Stamped(x.sourceID, x.vectorTime) \notin queue[m.destinationID]
  BY DEF ClockInv
<1>3. IsRequest(m) => Stamped(x.sourceID, x.vectorTime)
                        # Stamped(m.sourceID, m.vectorTime)
  <2>1. SUFFICES ASSUME IsRequest(m), x.sourceID = m.sourceID,
                        x.vectorTime = m.vectorTime
                 PROVE  FALSE
    BY DEF Stamped
  <2>2. x = m
    BY <1>1, <2>1 DEF Message, IsRequest
  <2> QED BY <2>2
<1> QED BY <1>2, <1>3 DEF Noted, push, remove

\* The last thing a node does before it waits again, and what it leaves behind:
\* q is its queue then, sent are its other messages.
LEMMA RequestStep ==
  ASSUME TypeInv, ClockInv, NEW n \in Node, NEW time \in Nat, NEW q, NEW sent,
         clock[n] < time,
         \A r \in q :
           /\ r.NodeID \in Node
           /\ r.Timestamp \in Nat
           /\ r.Timestamp < time
           /\ r.NodeID # n => r.Timestamp <= clock[r.NodeID],
         \A x \in sent \cap network :
           x.destinationID = n /\ IsRequest(x) =>
             Stamped(x.sourceID, x.vectorTime) \notin q,
         \A x \in sent \ network :
           /\ ~IsRequest(x)
           /\ IsApplication(x) =>
                x.sourceID = n /\ x.vectorTime \in Nat /\ x.vectorTime <= time,
         clock' = [clock EXCEPT ![n] = time],
         queue' = [queue EXCEPT ![n] = push(q, Stamped(n, time))],
         network' = sent \cup Broadcast("REQUEST", n, time)
  PROVE  ClockInv'
<1>1. clock \in [Node -> Nat] /\ queue \in [Node -> SUBSET Request]
      /\ network \subseteq Message
  BY DEF TypeInv, TypeOK
<1>2. \A k \in Node : clock[k] <= clock'[k]
  BY <1>1
<1>3. clock'[n] = time
  BY <1>1
<1>4. \A x \in network' : IsApplication(x) => x.vectorTime <= clock'[x.sourceID]
  <2> SUFFICES ASSUME NEW x \in network', IsApplication(x)
               PROVE  x.vectorTime <= clock'[x.sourceID]
    OBVIOUS
  <2>1. CASE x \in network
    <3>1. x.vectorTime <= clock[x.sourceID] /\ x.sourceID \in Node
          /\ x.vectorTime \in Nat
      <4>1. x \in Message
        BY <1>1, <2>1
      <4> QED BY <2>1, <4>1 DEF ClockInv, TypeInv, FromNodes, Message
    <3>2. clock[x.sourceID] \in Nat /\ clock'[x.sourceID] \in Nat
          /\ clock[x.sourceID] <= clock'[x.sourceID]
      BY <1>1, <1>2, <3>1
    <3> QED BY <3>1, <3>2
  <2>2. CASE x \in sent \ network
    BY <1>3, <2>2
  <2>3. CASE x \in Broadcast("REQUEST", n, time)
    BY <1>3, <2>3 DEF Broadcast
  <2> QED BY <2>1, <2>2, <2>3
<1>5. ASSUME NEW j \in Node, NEW r \in queue'[j]
      PROVE  r.Timestamp <= clock'[j] /\ r.Timestamp <= clock'[r.NodeID]
  <2>1. CASE j # n
    <3>1. r \in queue[j] /\ clock'[j] = clock[j]
      BY <1>1, <2>1
    <3>2. r \in Request /\ r.Timestamp <= clock[j]
          /\ r.Timestamp <= clock[r.NodeID]
      BY <1>1, <3>1 DEF ClockInv
    <3>3. r.NodeID \in Node /\ r.Timestamp \in Nat
      BY <3>2 DEF Request
    <3>4. clock[r.NodeID] \in Nat /\ clock'[r.NodeID] \in Nat
          /\ clock[r.NodeID] <= clock'[r.NodeID]
      BY <1>1, <1>2, <3>3
    <3> QED BY <3>1, <3>2, <3>3, <3>4
  <2>2. CASE j = n /\ r = Stamped(n, time)
    BY <1>3, <2>2 DEF Stamped
  <2>3. CASE j = n /\ r \in q
    <3>1. r.NodeID \in Node /\ r.Timestamp \in Nat /\ r.Timestamp < time
      BY <2>3
    <3>2. CASE r.NodeID = n
      BY <1>3, <2>3, <3>1, <3>2
    <3>3. CASE r.NodeID # n
      <4>1. r.Timestamp <= clock[r.NodeID] /\ clock'[r.NodeID] = clock[r.NodeID]
        BY <1>1, <2>3, <3>1, <3>3
      <4> QED BY <1>3, <2>3, <3>1, <4>1
    <3> QED BY <3>2, <3>3
  <2>4. j = n => r \in q \/ r = Stamped(n, time)
    BY <1>1 DEF push
  <2> QED BY <2>1, <2>2, <2>3, <2>4
<1>6. ASSUME NEW x \in network', IsRequest(x)
      PROVE  Stamped(x.sourceID, x.vectorTime) \notin queue'[x.destinationID]
  <2>1. CASE x \in Broadcast("REQUEST", n, time)
    <3>1. x.sourceID = n /\ x.vectorTime = time
          /\ x.destinationID \in Node \ {n}
      BY <2>1, NeighborsAssumption DEF Broadcast
    <3>2. queue'[x.destinationID] = queue[x.destinationID]
      BY <1>1, <3>1
    <3>3. \A r \in queue[x.destinationID] :
            r.NodeID = n => r.Timestamp <= clock[n] /\ r.Timestamp \in Nat
      BY <1>1, <3>1 DEF ClockInv, Request
    <3>4. clock[n] \in Nat
      BY <1>1
    <3> QED BY <3>1, <3>2, <3>3, <3>4 DEF Stamped
  <2>2. CASE x \in sent
    <3>1. x \in network
      BY <1>6, <2>2
    <3>2. Stamped(x.sourceID, x.vectorTime) \notin queue[x.destinationID]
          /\ x.sourceID \in Node /\ x.vectorTime <= clock[x.sourceID]
          /\ x.vectorTime \in Nat /\ x.sourceID # x.destinationID
          /\ x.destinationID \in Node
      BY <1>1, <1>6, <3>1
      DEF ClockInv, IsApplication, IsRequest, Message, TypeInv, FromNodes
    <3>3. CASE x.destinationID # n
      BY <1>1, <3>2, <3>3
    <3>4. CASE x.destinationID = n
      <4>1. Stamped(x.sourceID, x.vectorTime) \notin q
        BY <1>6, <2>2, <3>1, <3>4
      <4>2. Stamped(x.sourceID, x.vectorTime) # Stamped(n, time)
        BY <3>2, <3>4 DEF Stamped
      <4> QED BY <1>1, <3>4, <4>1, <4>2 DEF push
    <3> QED BY <3>3, <3>4
  <2> QED BY <2>1, <2>2
<1> QED BY <1>4, <1>5, <1>6 DEF ClockInv

LEMMA ClockStart ==
  ASSUME TypeInv, ClockInv, NEW m \in network, Start(m)
  PROVE  ClockInv'
<1> DEFINE n == m.destinationID
           time == clock[n] + 1
           sent == network \ {m}
<1>1. /\ n \in Node /\ clock[n] \in Nat /\ time \in Nat /\ clock[n] < time
      /\ queue[n] \subseteq Request
  BY DEF TypeInv, TypeOK, Message
<1>2. \A r \in queue[n] : /\ r.NodeID \in Node
                          /\ r.Timestamp \in Nat
                          /\ r.Timestamp < time
                          /\ r.Timestamp <= clock[r.NodeID]
  BY <1>1 DEF ClockInv, Request
<1>3. /\ clock' = [clock EXCEPT ![n] = time]
      /\ queue' = [queue EXCEPT ![n] = push(queue[n], Stamped(n, time))]
      /\ network' = sent \cup Broadcast("REQUEST", n, time)
  BY DEF Start
<1>4. \A x \in sent \cap network :
        x.destinationID = n /\ IsRequest(x) =>
          Stamped(x.sourceID, x.vectorTime) \notin queue[n]
  BY DEF ClockInv
<1>5. \A x \in sent \ network :
        /\ ~IsRequest(x)
        /\ IsApplication(x) =>
             x.sourceID = n /\ x.vectorTime \in Nat /\ x.vectorTime <= time
  OBVIOUS
<1> HIDE DEF time, sent
<1> QED BY <1>1, <1>2, <1>3, <1>4, <1>5, RequestStep

LEMMA ClockProcess ==
  ASSUME TypeInv, ClockInv, NEW m \in network, process(m)
  PROVE  ClockInv'
<1> DEFINE n == m.destinationID
           time == Answered(m) + 1
           sent == (network \ {m}) \cup Answer(m)
<1>1. IsApplication(m)
  BY DEF process
<1>2. /\ n \in Node /\ clock[n] \in Nat /\ time \in Nat /\ clock[n] < time
      /\ Answered(m) \in Nat
  BY <1>1, NotedType DEF TypeInv, TypeOK
<1>3. \A r \in Noted(m) : /\ r.NodeID \in Node
                          /\ r.Timestamp \in Nat
                          /\ r.Timestamp < time
                          /\ r.Timestamp <= clock[r.NodeID]
  BY <1>1, <1>2, NotedStamps
<1>4. /\ clock' = [clock EXCEPT ![n] = time]
      /\ queue' = [queue EXCEPT ![n] = push(Noted(m), Stamped(n, time))]
      /\ network' = sent \cup Broadcast("REQUEST", n, time)
  BY DEF process
<1>5. \A x \in Answer(m) : /\ ~IsRequest(x)
                           /\ x.sourceID = n
                           /\ x.vectorTime \in Nat
                           /\ x.vectorTime <= time
  BY <1>2 DEF Answer, IsRequest
<1>6. \A x \in sent \cap network :
        x.destinationID = n /\ IsRequest(x) =>
          Stamped(x.sourceID, x.vectorTime) \notin Noted(m)
  BY <1>1, <1>5, NotedFresh
<1>7. \A x \in sent \ network :
        /\ ~IsRequest(x)
        /\ IsApplication(x) =>
             x.sourceID = n /\ x.vectorTime \in Nat /\ x.vectorTime <= time
  BY <1>5
<1> HIDE DEF time, sent
<1> QED BY <1>2, <1>3, <1>4, <1>6, <1>7, RequestStep

LEMMA ClockLeave ==
  ASSUME TypeInv, ClockInv, NEW n \in Node, Leave(n)
  PROVE  ClockInv'
<1> DEFINE own == IF Finished(n) THEN queue[n] ELSE remove(queue[n], n)
           q == remove(push(own, Stamped(n, clock[n] + 1)), n)
           time == clock[n] + 2
           sent == network \cup Halt(n)
                     \cup Broadcast("RELEASE", n, clock[n] + 1)
<1>1. /\ clock[n] \in Nat /\ time \in Nat /\ clock[n] < time
      /\ queue[n] \subseteq Request
  BY DEF TypeInv, TypeOK
<1>2. q \subseteq queue[n]
  BY DEF push, remove, RequestsOf, Stamped
<1>3. \A r \in q : /\ r.NodeID \in Node
                   /\ r.Timestamp \in Nat
                   /\ r.Timestamp < time
                   /\ r.Timestamp <= clock[r.NodeID]
  <2>1. \A r \in queue[n] : /\ r.NodeID \in Node
                            /\ r.Timestamp \in Nat
                            /\ r.Timestamp < time
                            /\ r.Timestamp <= clock[r.NodeID]
    BY <1>1 DEF ClockInv, Request
  <2> HIDE DEF q, time
  <2> QED BY <1>2, <2>1
<1>4. /\ clock' = [clock EXCEPT ![n] = time]
      /\ queue' = [queue EXCEPT ![n] = push(q, Stamped(n, time))]
      /\ network' = sent \cup Broadcast("REQUEST", n, time)
  BY DEF Leave
<1>5. \A x \in sent \cap network :
        x.destinationID = n /\ IsRequest(x) =>
          Stamped(x.sourceID, x.vectorTime) \notin q
  <2>1. \A x \in network :
          x.destinationID = n /\ IsRequest(x) =>
            Stamped(x.sourceID, x.vectorTime) \notin queue[n]
    BY DEF ClockInv
  <2> HIDE DEF q
  <2> QED BY <1>2, <2>1
<1>6. \A x \in sent \ network :
        /\ ~IsRequest(x)
        /\ IsApplication(x) =>
             x.sourceID = n /\ x.vectorTime \in Nat /\ x.vectorTime <= time
  BY <1>1 DEF Halt, Broadcast, IsRequest, IsApplication
<1> HIDE DEF q, time, sent
<1> QED BY <1>1, <1>3, <1>4, <1>5, <1>6, RequestStep

\* Enter and Fail end before the last request.
LEMMA ClockEnter ==
  ASSUME TypeInv, ClockInv, NEW m \in network, Enter(m) \/ Fail(m)
  PROVE  ClockInv'
<1> DEFINE n == m.destinationID
<1>1. /\ IsApplication(m)
      /\ clock' = [clock EXCEPT ![n] = Answered(m)]
      /\ queue' = [queue EXCEPT ![n] = Noted(m)]
      /\ network' = (network \ {m}) \cup Answer(m)
  BY DEF Enter, Fail
<1>2. /\ n \in Node /\ clock[n] < Answered(m) /\ Answered(m) \in Nat
      /\ clock \in [Node -> Nat] /\ queue \in [Node -> SUBSET Request]
      /\ network \subseteq Message
  BY <1>1, NotedType DEF TypeInv, TypeOK
<1>3. /\ clock' \in [Node -> Nat] /\ clock'[n] = Answered(m)
      /\ \A k \in Node : clock[k] <= clock'[k]
  BY <1>1, <1>2
<1>4. ASSUME NEW x \in network', IsApplication(x)
      PROVE  x.vectorTime <= clock'[x.sourceID]
  <2>1. CASE x \in network
    <3>1. x.vectorTime <= clock[x.sourceID] /\ x.sourceID \in Node
          /\ x.vectorTime \in Nat
      <4>1. x \in Message
        BY <1>2, <2>1
      <4> QED BY <1>4, <2>1, <4>1 DEF ClockInv, TypeInv, FromNodes, Message
    <3>2. clock[x.sourceID] \in Nat /\ clock'[x.sourceID] \in Nat
          /\ clock[x.sourceID] <= clock'[x.sourceID]
      BY <1>2, <1>3, <3>1
    <3> QED BY <3>1, <3>2
  <2>2. CASE x \in Answer(m)
    BY <1>2, <1>3, <2>2 DEF Answer
  <2> QED BY <1>1, <1>4, <2>1, <2>2
<1>5. ASSUME NEW j \in Node, NEW r \in queue'[j]
      PROVE  r.Timestamp <= clock'[j] /\ r.Timestamp <= clock'[r.NodeID]
  <2>1. /\ r.NodeID \in Node
        /\ r.Timestamp \in Nat
        /\ r.Timestamp <= clock'[j]
        /\ r.Timestamp <= clock[r.NodeID]
    <3>1. CASE j = n
      BY <1>1, <1>2, <1>3, <3>1, NotedStamps
    <3>2. CASE j # n
      <4>1. r \in queue[j] /\ clock'[j] = clock[j] /\ r \in Request
        BY <1>1, <1>2, <3>2
      <4> QED BY <4>1 DEF ClockInv, Request
    <3> QED BY <3>1, <3>2
  <2>2. clock[r.NodeID] \in Nat /\ clock'[r.NodeID] \in Nat
        /\ clock[r.NodeID] <= clock'[r.NodeID]
    BY <1>2, <1>3, <2>1
  <2> QED BY <2>1, <2>2
<1>6. ASSUME NEW x \in network', IsRequest(x)
      PROVE  Stamped(x.sourceID, x.vectorTime) \notin queue'[x.destinationID]
  <2>1. x \in network \ {m} /\ x.destinationID \in Node
    BY <1>1, <1>2, <1>6 DEF Answer, IsRequest, Message
  <2>2. CASE x.destinationID = n
    BY <1>1, <1>2, <1>6, <2>1, <2>2, NotedFresh
  <2>3. CASE x.destinationID # n
    BY <1>1, <1>2, <1>6, <2>1, <2>3 DEF ClockInv
  <2> QED BY <2>2, <2>3
<1> QED BY <1>4, <1>5, <1>6 DEF ClockInv

LEMMA ClockStep == TypeInv /\ ClockInv /\ [Next]_vars => ClockInv'
<1> SUFFICES ASSUME TypeInv, ClockInv, [Next]_vars PROVE ClockInv'
  OBVIOUS
<1>1. ASSUME UNCHANGED <<clock, queue>>, network' \subseteq network
      PROVE  ClockInv'
  BY <1>1 DEF ClockInv
<1>2. ASSUME NEW m \in network, Shutdown(m) PROVE ClockInv'
  BY <1>1, <1>2 DEF Shutdown
<1>3. ASSUME NEW n \in Node, Crash(n) PROVE ClockInv'
  BY <1>1, <1>3 DEF Crash
<1>4. CASE UNCHANGED vars
  BY <1>1, <1>4 DEF vars
<1> QED BY <1>2, <1>3, <1>4, ClockStart, ClockProcess, ClockEnter, ClockLeave
        DEF Next

LEMMA ClockInit == Init => ClockInv
BY DEF Init, ClockInv, IsApplication, IsRequest
-----------------------------------------------------------------------------
(* The top of the queue                                                     *)

LEMMA PushOnTop ==
  ASSUME NEW q, NEW n, NEW time,
         \A r \in q : r.Timestamp \in Nat /\ r.Timestamp < time,
         time \in Nat
  PROVE  topIsFrom(push(q, Stamped(n, time)), n)
<1>1. Stamped(n, time) \in push(q, Stamped(n, time))
      /\ Stamped(n, time).NodeID = n /\ Stamped(n, time).Timestamp = time
  BY DEF push, Stamped
<1>2. \A x \in push(q, Stamped(n, time)) \ {Stamped(n, time)} :
        x.Timestamp \in Nat /\ x.Timestamp < time
  BY DEF push
<1>3. \A x \in push(q, Stamped(n, time)) \ {Stamped(n, time)} :
        Before(x, Stamped(n, time))
  BY <1>1, <1>2 DEF Before
<1> QED BY <1>1, <1>3 DEF topIsFrom

\* The queue to which a node adds its last request before it waits again holds
\* older requests only: none has its stamp.
LEMMA QueueOlder ==
  ASSUME TypeInv, ClockInv, NEW n \in Node, NEW q \in SUBSET queue[n],
         NEW time \in {clock[n] + 1, clock[n] + 2}
  PROVE  /\ time \in Nat
         /\ \A r \in q : r.Timestamp \in Nat /\ r.Timestamp < time
<1>1. clock[n] \in Nat /\ queue[n] \subseteq Request
  BY DEF TypeInv, TypeOK
<1>2. \A r \in queue[n] : r.Timestamp \in Nat /\ r.Timestamp <= clock[n]
  BY <1>1 DEF ClockInv, Request
<1> QED BY <1>1, <1>2

LEMMA NotedOlder ==
  ASSUME TypeInv, ClockInv, NEW m \in network, IsApplication(m),
         NEW time, time = Answered(m) + 1
  PROVE  /\ time \in Nat
         /\ \A r \in Noted(m) : r.Timestamp \in Nat /\ r.Timestamp < time
BY NotedType, NotedStamps

LEMMA TopStep ==
  TypeInv /\ ClockInv /\ OwnOnTop /\ [Next]_vars => OwnOnTop'
<1> SUFFICES ASSUME TypeInv, ClockInv, OwnOnTop, [Next]_vars PROVE OwnOnTop'
  OBVIOUS
<1>0. queue \in [Node -> SUBSET Request]
  BY DEF TypeInv, TypeOK
<1>1. ASSUME NEW n \in Node, NEW q, queue' = [queue EXCEPT ![n] = q],
             topIsFrom(q, n)
      PROVE  OwnOnTop'
  BY <1>0, <1>1 DEF OwnOnTop, Asked
<1>2. ASSUME NEW m \in network, Start(m) PROVE OwnOnTop'
  <2> DEFINE n == m.destinationID
             q == queue[n]
             time == clock[n] + 1
  <2>1. n \in Node /\ queue' = [queue EXCEPT ![n] = push(q, Stamped(n, time))]
    BY <1>2 DEF Start, TypeInv, TypeOK, Message
  <2>2. /\ time \in Nat
        /\ \A r \in q : r.Timestamp \in Nat /\ r.Timestamp < time
    BY <2>1, QueueOlder
  <2> HIDE DEF q, time
  <2>3. topIsFrom(push(q, Stamped(n, time)), n)
    BY <2>2, PushOnTop
  <2> QED BY <1>1, <2>1, <2>3
<1>3. ASSUME NEW m \in network, process(m) PROVE OwnOnTop'
  <2> DEFINE n == m.destinationID
             q == Noted(m)
             time == Answered(m) + 1
  <2>1. IsApplication(m) /\ n \in Node
        /\ queue' = [queue EXCEPT ![n] = push(q, Stamped(n, time))]
    BY <1>3, NotedType DEF process
  <2>2. /\ time \in Nat
        /\ \A r \in q : r.Timestamp \in Nat /\ r.Timestamp < time
    BY <2>1, NotedOlder
  <2> HIDE DEF q, time
  <2>3. topIsFrom(push(q, Stamped(n, time)), n)
    BY <2>2, PushOnTop
  <2> QED BY <1>1, <2>1, <2>3
<1>4. ASSUME NEW m \in network, Enter(m) \/ Fail(m) PROVE OwnOnTop'
  <2>1. /\ IsApplication(m)
        /\ topIsFrom(Noted(m), m.destinationID)
        /\ queue' = [queue EXCEPT ![m.destinationID] = Noted(m)]
    BY <1>4 DEF Enter, Fail, MayEnter
  <2> QED BY <1>1, <2>1, NotedType
<1>5. ASSUME NEW n \in Node, Leave(n) PROVE OwnOnTop'
  <2> DEFINE own == IF Finished(n) THEN queue[n] ELSE remove(queue[n], n)
             q == remove(push(own, Stamped(n, clock[n] + 1)), n)
             time == clock[n] + 2
  <2>1. queue' = [queue EXCEPT ![n] = push(q, Stamped(n, time))]
    BY <1>5 DEF Leave
  <2>2. q \subseteq queue[n]
    BY DEF push, remove, RequestsOf, Stamped
  <2> HIDE DEF q
  <2>3. /\ time \in Nat
        /\ \A r \in q : r.Timestamp \in Nat /\ r.Timestamp < time
    BY <2>2, QueueOlder
  <2> HIDE DEF time
  <2>4. topIsFrom(push(q, Stamped(n, time)), n)
    BY <2>3, PushOnTop
  <2> QED BY <1>1, <2>1, <2>4
<1>6. CASE UNCHANGED queue
  BY <1>6 DEF OwnOnTop, Asked
<1> QED BY <1>2, <1>3, <1>4, <1>5, <1>6 DEF Next, Shutdown, Crash, vars

(* A node that waits for a message finds its own request on top: the clocks *)
(* and the order of RequestPriorisation give the youngest the precedence.   *)
THEOREM OwnOnTopAlways == Spec => []OwnOnTop
<1>1. Init => OwnOnTop
  BY DEF Init, OwnOnTop, Asked, RequestsOf
<1> QED BY <1>1, TopStep, TypeInvInit, TypeInvStep, ClockInit, ClockStep, PTL
        DEF Spec

-----------------------------------------------------------------------------
(* The counters                                                             *)

LEMMA PushBelow ==
  ASSUME NEW q, IsFiniteSet(q), NEW c \in [Node -> Int], NEW k \in Node,
         NEW time, Below(q, c), Stamped(k, time) \notin q
  PROVE  Below(push(q, Stamped(k, time)), CountPush(c, k))
<1> DEFINE r == Stamped(k, time)
<1> SUFFICES ASSUME NEW j \in Node
             PROVE  CountPush(c, k)[j] <= Cardinality(RequestsOf(push(q, r), j))
  BY DEF Below
<1>1. IsFiniteSet(RequestsOf(q, j)) /\ c[j] <= Cardinality(RequestsOf(q, j))
  BY FS_Subset DEF Below, RequestsOf
<1>2. Cardinality(RequestsOf(q, j)) \in Nat /\ c[j] \in Int
  BY <1>1, FS_CardinalityType
<1>3. CASE j = k
  <2>1. RequestsOf(push(q, r), j) = RequestsOf(q, j) \cup {r}
    BY <1>3 DEF RequestsOf, push, Stamped
  <2>2. r \notin RequestsOf(q, j)
    BY DEF RequestsOf
  <2>3. Cardinality(RequestsOf(q, j) \cup {r})
          = Cardinality(RequestsOf(q, j)) + 1
    BY <1>1, <2>2, FS_AddElement
  <2>4. CountPush(c, k)[j] = c[j] + 1
    BY <1>3 DEF CountPush
  <2> QED BY <1>1, <1>2, <2>1, <2>3, <2>4
<1>4. CASE j # k
  <2>1. RequestsOf(push(q, r), j) = RequestsOf(q, j)
    BY <1>4 DEF RequestsOf, push, Stamped
  <2>2. CountPush(c, k)[j] = c[j]
    BY <1>4 DEF CountPush
  <2> QED BY <1>1, <2>1, <2>2
<1> QED BY <1>3, <1>4

\* remove leaves no positive counter behind, whatever it finds.
LEMMA RemoveBelow ==
  ASSUME NEW q, IsFiniteSet(q), NEW c, NEW k \in Node
  PROVE  Below(remove(q, k), CountRemove(q, c, k))
<1> SUFFICES ASSUME NEW j \in Node
             PROVE  CountRemove(q, c, k)[j]
                      <= Cardinality(RequestsOf(remove(q, k), j))
  BY DEF Below
<1>1. IsFiniteSet(RequestsOf(q, k)) /\ IsFiniteSet(RequestsOf(remove(q, k), j))
  BY FS_Subset DEF RequestsOf, remove
<1>2. Cardinality(RequestsOf(q, k)) \in Nat
      /\ Cardinality(RequestsOf(remove(q, k), j)) \in Nat
  BY <1>1, FS_CardinalityType
<1> QED BY <1>2 DEF CountRemove

LEMMA BelowStep ==
  /\ TypeInv /\ ClockInv /\ CountersBelowQueue /\ [Next]_vars
  => CountersBelowQueue'
<1> SUFFICES ASSUME TypeInv, ClockInv, CountersBelowQueue, [Next]_vars
             PROVE  CountersBelowQueue'
  OBVIOUS
<1>0. /\ queue \in [Node -> SUBSET Request]
      /\ requestCounter \in [Node -> [Node -> Int]]
      /\ \A n \in Node : IsFiniteSet(queue[n])
                         /\ Below(queue[n], requestCounter[n])
  BY DEF TypeInv, TypeOK, Finite, CountersBelowQueue, Below
<1>1. ASSUME NEW n \in Node, NEW q, NEW c,
             queue' = [queue EXCEPT ![n] = q],
             requestCounter' = [requestCounter EXCEPT ![n] = c],
             Below(q, c)
      PROVE  CountersBelowQueue'
  BY <1>0, <1>1 DEF CountersBelowQueue, Below
<1>2. ASSUME NEW n \in Node, NEW q, NEW c \in [Node -> Int], NEW time \in Nat,
             IsFiniteSet(q), Below(q, c),
             \A r \in q : r.Timestamp \in Nat /\ r.Timestamp < time,
             queue' = [queue EXCEPT ![n] = push(q, Stamped(n, time))],
             requestCounter' = [requestCounter EXCEPT ![n] = CountPush(c, n)]
      PROVE  CountersBelowQueue'
  <2>1. Stamped(n, time) \notin q
    BY <1>2 DEF Stamped
  <2> QED BY <1>1, <1>2, <2>1, PushBelow
<1>3. ASSUME NEW m \in network, IsApplication(m)
      PROVE  Below(Noted(m), Counted(m))
  <2> DEFINE n == m.destinationID
  <2>1. n \in Node /\ m.sourceID \in Node
    BY <1>3, NotedType
  <2>2. CASE IsRequest(m)
    <3>1. Stamped(m.sourceID, m.vectorTime) \notin queue[n]
      BY <2>2 DEF ClockInv
    <3>2. /\ Noted(m) = push(queue[n], Stamped(m.sourceID, m.vectorTime))
          /\ Counted(m) = CountPush(requestCounter[n], m.sourceID)
      BY <2>2 DEF Noted, Counted, IsRequest
    <3> QED BY <1>0, <2>1, <3>1, <3>2, PushBelow
  <2>3. CASE m.content = "RELEASE"
    BY <1>0, <2>1, <2>3, RemoveBelow DEF Noted, Counted, IsRequest
  <2>4. CASE ~IsRequest(m) /\ m.content # "RELEASE"
    BY <1>0, <2>1, <2>4 DEF Noted, Counted
  <2> QED BY <2>2, <2>3, <2>4
<1>4. ASSUME NEW m \in network, Start(m) PROVE CountersBelowQueue'
  <2> DEFINE n == m.destinationID
             q == queue[n]
             time == clock[n] + 1
  <2>1. /\ n \in Node
        /\ queue' = [queue EXCEPT ![n] = push(q, Stamped(n, time))]
        /\ requestCounter' = [requestCounter EXCEPT
                                ![n] = CountPush(requestCounter[n], n)]
    BY <1>0, <1>4 DEF Start, TypeInv, TypeOK, Message
  <2>2. time \in Nat
        /\ \A r \in q : r.Timestamp \in Nat /\ r.Timestamp < time
    BY <2>1, QueueOlder
  <2>3. requestCounter[n] \in [Node -> Int] /\ IsFiniteSet(q)
        /\ Below(q, requestCounter[n])
    BY <1>0, <2>1
  <2> HIDE DEF q, time
  <2> QED BY <1>2, <2>1, <2>2, <2>3
<1>5. ASSUME NEW m \in network, process(m) PROVE CountersBelowQueue'
  <2> DEFINE n == m.destinationID
             time == Answered(m) + 1
  <2>1. /\ IsApplication(m)
        /\ queue' = [queue EXCEPT ![n] = push(Noted(m), Stamped(n, time))]
        /\ requestCounter' = [requestCounter EXCEPT
                                ![n] = CountPush(Counted(m), n)]
    BY <1>5 DEF process
  <2>2. n \in Node /\ IsFiniteSet(Noted(m)) /\ Counted(m) \in [Node -> Int]
    BY <2>1, NotedType
  <2>3. time \in Nat
        /\ \A r \in Noted(m) : r.Timestamp \in Nat /\ r.Timestamp < time
    BY <2>1, NotedOlder
  <2>4. Below(Noted(m), Counted(m))
    BY <1>3, <2>1
  <2> HIDE DEF time
  <2> QED BY <1>2, <2>1, <2>2, <2>3, <2>4
<1>6. ASSUME NEW m \in network, Enter(m) \/ Fail(m) PROVE CountersBelowQueue'
  <2>1. /\ IsApplication(m)
        /\ queue' = [queue EXCEPT ![m.destinationID] = Noted(m)]
        /\ requestCounter' = [requestCounter EXCEPT
                                ![m.destinationID] = Counted(m)]
    BY <1>6 DEF Enter, Fail
  <2>2. m.destinationID \in Node /\ Below(Noted(m), Counted(m))
    BY <1>3, <2>1, NotedType
  <2> QED BY <1>1, <2>1, <2>2
<1>7. ASSUME NEW n \in Node, Leave(n) PROVE CountersBelowQueue'
  <2> DEFINE own == IF Finished(n) THEN queue[n] ELSE remove(queue[n], n)
             pushed == push(own, Stamped(n, clock[n] + 1))
             q == remove(pushed, n)
             c == CountRemove(pushed, requestCounter[n], n)
             time == clock[n] + 2
  <2>1. /\ queue' = [queue EXCEPT ![n] = push(q, Stamped(n, time))]
        /\ requestCounter' = [requestCounter EXCEPT ![n] = CountPush(c, n)]
    BY <1>7 DEF Leave
  <2>2. q \subseteq queue[n]
    BY DEF push, remove, RequestsOf, Stamped
  <2>3. time \in Nat
        /\ \A r \in q : r.Timestamp \in Nat /\ r.Timestamp < time
    <3> HIDE DEF q
    <3> QED BY <2>2, QueueOlder
  <2>4. pushed \in SUBSET Request /\ IsFiniteSet(pushed)
    BY LeaveType
  <2>5. c \in [Node -> Int] /\ IsFiniteSet(q) /\ Below(q, c)
    <3> HIDE DEF pushed
    <3> QED BY <2>4, RemoveType, RemoveBelow
  <2> HIDE DEF q, c, time
  <2> QED BY <1>2, <2>1, <2>3, <2>5
<1>8. CASE UNCHANGED <<queue, requestCounter>>
  BY <1>8 DEF CountersBelowQueue
<1> QED BY <1>4, <1>5, <1>6, <1>7, <1>8 DEF Next, Shutdown, Crash, vars

(* No counter ever exceeds the requests in the queue, although remove sets  *)
(* all of them back and counts below zero.                                  *)
THEOREM CountersAlways == Spec => []CountersBelowQueue
<1>1. Init => CountersBelowQueue
  <2> SUFFICES ASSUME Init, NEW n \in Node, NEW k \in Node
               PROVE  requestCounter[n][k]
                        <= Cardinality(RequestsOf(queue[n], k))
    BY DEF CountersBelowQueue
  <2>1. RequestsOf(queue[n], k) = {} /\ requestCounter[n][k] = 0
    BY DEF Init, RequestsOf
  <2> QED BY <2>1, FS_EmptySet
<1> QED BY <1>1, BelowStep, TypeInvInit, TypeInvStep, ClockInit, ClockStep, PTL
        DEF Spec
-----------------------------------------------------------------------------
(* The end                                                                  *)

\* Who is told to stop, and who stops, is preceded by a third zero.
HaltInv ==
  (\E n \in Node : ~isRunning[n]) \/ (\E m \in network : m.content = "shutdown")
    => \E k \in Node : terminiationCounter[k] >= 3

LEMMA HaltStep == TypeOK /\ HaltInv /\ [Next]_vars => HaltInv'
<1> SUFFICES ASSUME TypeOK, HaltInv, [Next]_vars PROVE HaltInv'
  OBVIOUS
<1>0. /\ terminiationCounter \in [Node -> Nat]
      /\ isRunning \in [Node -> BOOLEAN]
      /\ \A m \in network : m.destinationID \in Node
  BY DEF TypeOK, Message
<1>1. ASSUME NEW m \in network, Start(m) PROVE HaltInv'
  BY <1>1 DEF HaltInv, Start, Broadcast
<1>2. ASSUME NEW m \in network, process(m) PROVE HaltInv'
  BY <1>2 DEF HaltInv, process, Answer, Broadcast
<1>3. ASSUME NEW m \in network, Enter(m) \/ Fail(m) PROVE HaltInv'
  <2>1. /\ isRunning' = isRunning
        /\ \A x \in network' : x.content = "shutdown" => x \in network
    BY <1>3 DEF Enter, Fail, Answer
  <2>2. \A k \in Node : /\ terminiationCounter'[k] \in Nat
                        /\ terminiationCounter'[k] >= terminiationCounter[k]
    BY <1>0, <1>3 DEF Enter, Fail
  <2> QED BY <1>0, <2>1, <2>2 DEF HaltInv
<1>4. ASSUME NEW n \in Node, Leave(n) PROVE HaltInv'
  <2>1. CASE Finished(n)
    BY <1>0, <1>4, <2>1 DEF HaltInv, Leave, Finished
  <2>2. CASE ~Finished(n)
    BY <1>4, <2>2 DEF HaltInv, Leave, Halt, Broadcast
  <2> QED BY <2>1, <2>2
<1>5. ASSUME NEW m \in network, Shutdown(m) PROVE HaltInv'
  BY <1>0, <1>5 DEF HaltInv, Shutdown
<1>6. ASSUME NEW n \in Node, Crash(n) PROVE HaltInv'
  <2>1. \E m \in network : ~isRunning[m.destinationID]
    BY <1>6 DEF Crash
  <2>2. \E k \in Node : terminiationCounter[k] >= 3
    BY <1>0, <2>1 DEF HaltInv
  <2> QED BY <1>6, <2>2 DEF HaltInv, Crash
<1>7. CASE UNCHANGED vars
  BY <1>7 DEF HaltInv, vars
<1> QED BY <1>1, <1>2, <1>3, <1>4, <1>5, <1>6, <1>7 DEF Next

(* No node stops, nor breaks down at a stopped one, before the file has     *)
(* been zero for the third time for one of them: criticalSection.           *)
THEOREM StopsLate == Spec => []StopsAfterThreeZeros
<1>1. Init => HaltInv
  BY DEF Init, HaltInv
<1>2. HaltInv => StopsAfterThreeZeros
  BY DEF HaltInv, StopsAfterThreeZeros
<1> QED BY <1>1, <1>2, HaltStep, MutualTypeCorrect, PTL DEF Spec
=============================================================================
