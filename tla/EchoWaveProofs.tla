--------------------------- MODULE EchoWaveProofs ---------------------------
(***************************************************************************)
(* What is proved about EchoWave for every graph, every set of orders and  *)
(* every loss of messages, as long as no two orders share a wave number;   *)
(* and, at the end, that every such wave implements Feedback.              *)
(***************************************************************************)
EXTENDS EchoFeedback, FiniteSetTheorems, TLAPS

\* s has sent to d all that it ever sends to d in wave w.
Sent(s, d, w) ==
  HasEntry(s, w) /\ (FirstNeighborID[s][w] # d \/ Completed(s, w))

\* Nothing of wave w is on its way from s to d.
Silent(s, d, w) ==
  \A m \in InFlightOfWaves :
    ~(m.sourceID = s /\ m.destinationID = d /\ m.number = w)

\* An order is on its way once, and before its wave exists anywhere.
OrdersFirst ==
  \A m \in InFlight :
    m.type = "normal" /\ m.number \in Wave =>
      /\ m \in Order
      /\ network[m] = 1
      /\ \A n \in Node : ~HasEntry(n, m.number)

\* A message of a wave is the one its sender has sent along this edge: an echo
\* to the node the wave came from, an explorer to all others.
WaveMessages ==
  \A m \in InFlightOfWaves :
    /\ m.number \in Wave
    /\ network[m] = 1
    /\ m.sourceID \in Node
    /\ m.destinationID \in Neighbors[m.sourceID]
    /\ Sent(m.sourceID, m.destinationID, m.number)
    /\ m.type = "echo" <=>
         FirstNeighborID[m.sourceID][m.number] = m.destinationID

\* The wave came to n from a neighbour that has it, or by an order.
HasParent(n, w) ==
  HasEntry(n, w) =>
    /\ w \in Wave
    /\ FirstNeighborID[n][w] = n =>
         \E m \in Order : m.number = w /\ m.destinationID = n
    /\ FirstNeighborID[n][w] # n =>
         /\ FirstNeighborID[n][w] \in Neighbors[n]
         /\ HasEntry(FirstNeighborID[n][w], w)

Parents == \A n \in Node, w \in Number : HasParent(n, w)

\* H are the neighbours that n has counted: each has sent, and is silent now.
CountedFrom(n, w, H) ==
  /\ counter[n][w] = Cardinality(H)
  /\ \A p \in H : Sent(p, n, w) /\ Silent(p, n, w)
  /\ FirstNeighborID[n][w] \notin {NoNode, n} => FirstNeighborID[n][w] \in H
  /\ ~HasEntry(n, w) => H = {}

Counted ==
  \A n \in Node, w \in Number :
    \E H \in SUBSET Neighbors[n] : CountedFrom(n, w, H)

\* Following FirstNeighborID leads to the origin: no set of nodes keeps to
\* itself.
Rooted ==
  \A w \in Number, S \in SUBSET Node :
    (\A n \in S : FirstNeighborID[n][w] \in S \ {n}) => S = {}

\* What a node has done when it took part in, or completed, a control wave
Effect(n, w) ==
  /\ Content[w] = "shutdown echo" /\ HasEntry(n, w) =>
       isShuttingDown[n] \/ FirstNeighborID[n][w] = n
  /\ Content[w] = "termination time" /\ Completed(n, w) /\ OnlyTime(w) =>
       termininationTime[n] = Time[w]

Effects == \A n \in Node, w \in Wave : Effect(n, w)

WaveInv == /\ TypeOK
           /\ OrdersFirst
           /\ WaveMessages
           /\ Parents
           /\ Counted
           /\ Rooted
-----------------------------------------------------------------------------
LEMMA NodeFacts ==
  /\ NoNode \notin Node
  /\ \A n \in Node : /\ Neighbors[n] \subseteq Node
                     /\ IsFiniteSet(Neighbors[n])
                     /\ Degree(n) \in Nat
                     /\ Degree(n) # 0
                     /\ n \notin Neighbors[n]
  /\ \A n, p \in Node : p \in Neighbors[n] <=> n \in Neighbors[p]
<1>1. ASSUME NEW n \in Node
      PROVE  /\ Neighbors[n] \subseteq Node
             /\ IsFiniteSet(Neighbors[n])
             /\ Degree(n) \in Nat
             /\ Degree(n) # 0
  <2>1. Neighbors[n] \subseteq Node /\ Neighbors[n] # {}
    BY NeighborsAssumption
  <2>2. IsFiniteSet(Neighbors[n])
    BY <2>1, NodeAssumption, FS_Subset
  <2>3. Cardinality(Neighbors[n]) \in Nat
    BY <2>2, FS_CardinalityType
  <2>4. Cardinality(Neighbors[n]) # 0
    BY <2>1, <2>2, FS_EmptySet
  <2> QED BY <2>1, <2>2, <2>3, <2>4 DEF Degree
<1> QED BY <1>1, NodeAssumption, NeighborsAssumption

\* Sending and consuming keeps every number of copies a natural number.
LEMMA TransmitType ==
  ASSUME NEW m \in InFlight, NEW sent, network \in [Message -> Nat],
         Transmit(m, sent)
  PROVE  network' \in [Message -> Nat]
BY DEF Transmit, InFlight

LEMMA TransmitLess ==
  ASSUME NEW m, NEW sent, Transmit(m, sent),
         NEW x \in Message, network[x] \in Nat, x \notin sent
  PROVE  network'[x] <= network[x]
<1>1. network'[x] = (network[x] + 0) - (IF x = m THEN 1 ELSE 0)
  BY DEF Transmit
<1> QED BY <1>1

LEMMA TypeStep == TypeOK /\ [Next]_vars => TypeOK'
<1> SUFFICES ASSUME TypeOK, [Next]_vars PROVE TypeOK'
  OBVIOUS
<1>1. ASSUME NEW m \in InFlight, Handle(m) PROVE TypeOK'
  <2> m \in Message /\ m.destinationID \in Node /\ m.number \in Number
      /\ m.sourceID \in Node \cup {NoNode}
    BY DEF InFlight, Message
  <2>1. CASE Ignore(m)
    BY <2>1, TransmitType DEF TypeOK, Ignore
  <2>2. CASE StartWave(m)
    BY <2>2, TransmitType DEF TypeOK, StartWave, OriginEntry
  <2>3. CASE Shutdown(m)
    BY <2>3, TransmitType DEF TypeOK, Shutdown
  <2>4. CASE ShutdownAll(m)
    BY <2>4, TransmitType DEF TypeOK, ShutdownAll
  <2>5. CASE FirstExplorer(m)
    BY <2>5, TransmitType DEF TypeOK, FirstExplorer
  <2>6. CASE CountMessage(m)
    BY <2>6, TransmitType DEF TypeOK, CountMessage
  <2>7. CASE CompleteWave(m)
    <3>1. network' \in [Message -> Nat]
      BY <2>7, TransmitType DEF TypeOK, CompleteWave
    <3>2. isRunning' \in [Node -> BOOLEAN] /\ isShuttingDown' = isShuttingDown
      BY <2>7 DEF TypeOK, CompleteWave
    <3>3. FirstNeighborID' = FirstNeighborID
      BY <2>7 DEF CompleteWave
    <3>4. counter' \in [Node -> [Number -> Nat]]
      <4>1. counter' = [counter EXCEPT ![m.destinationID][m.number] = @ + 1]
        BY <2>7 DEF CompleteWave
      <4> QED BY <4>1 DEF TypeOK
    <3>5. termininationTime' \in [Node -> Nat]
      BY <2>7, MessageAssumption DEF TypeOK, CompleteWave
    <3> QED BY <3>1, <3>2, <3>3, <3>4, <3>5 DEF TypeOK
  <2> QED BY <1>1, <2>1, <2>2, <2>3, <2>4, <2>5, <2>6, <2>7 DEF Handle
<1>2. ASSUME NEW n \in Node, Crash(n) PROVE TypeOK'
  BY <1>2 DEF TypeOK, Crash
<1>3. ASSUME NEW m \in InFlight, Lose(m) PROVE TypeOK'
  BY <1>3, TransmitType DEF TypeOK, Lose
<1>4. CASE UNCHANGED vars
  BY <1>4 DEF TypeOK, vars
<1> QED BY <1>1, <1>2, <1>3, <1>4 DEF Next, loop

(* Every variable keeps its type in every run of every instance.             *)
THEOREM TypeCorrect == Spec => []TypeOK
<1>1. Init => TypeOK
  BY DEF Init, TypeOK
<1> QED BY <1>1, TypeStep, PTL DEF Spec
-----------------------------------------------------------------------------
\* Two messages of one wave on one connection agree on their type, so they
\* are one.
LEMMA MessagesOnce == WaveMessages => OneMessagePerConnection
<1> SUFFICES ASSUME WaveMessages,
                    NEW m \in InFlightOfWaves, NEW x \in InFlightOfWaves,
                    m.number = x.number, m.sourceID = x.sourceID,
                    m.destinationID = x.destinationID
             PROVE  m = x /\ network[m] = 1
  BY DEF OneMessagePerConnection
<1>1. m \in Message /\ x \in Message
  BY DEF InFlightOfWaves, InFlight
<1>2. m.type \in {"explorer", "echo"} /\ x.type \in {"explorer", "echo"}
  BY <1>1 DEF InFlightOfWaves, Message
<1>3. m.type = x.type
  BY <1>2 DEF WaveMessages
<1>4. m = x
  BY <1>1, <1>3 DEF Message
<1> QED BY <1>4 DEF WaveMessages

\* A node that counts as many as it has neighbours has counted them all.
LEMMA AllCounted ==
  ASSUME NEW n \in Node, NEW w \in Number, NEW H \in SUBSET Neighbors[n],
         CountedFrom(n, w, H)
  PROVE  /\ IsFiniteSet(H)
         /\ counter[n][w] \in Nat
         /\ counter[n][w] <= Degree(n)
         /\ counter[n][w] = Degree(n) => H = Neighbors[n]
<1>1. IsFiniteSet(Neighbors[n])
  BY NodeFacts
<1>2. IsFiniteSet(H) /\ Cardinality(H) <= Cardinality(Neighbors[n])
      /\ (Cardinality(Neighbors[n]) = Cardinality(H) => Neighbors[n] = H)
  BY <1>1, FS_Subset
<1>3. Cardinality(H) \in Nat
  BY <1>2, FS_CardinalityType
<1> QED BY <1>2, <1>3 DEF CountedFrom, Degree

\* Where a node has completed a wave, its neighbours have sent and are silent.
LEMMA CompletedSilent ==
  ASSUME Counted, NEW n \in Node, NEW w \in Number, Completed(n, w)
  PROVE  \A p \in Neighbors[n] : Sent(p, n, w) /\ Silent(p, n, w)
<1>1. PICK H \in SUBSET Neighbors[n] : CountedFrom(n, w, H)
  BY DEF Counted
<1>2. H = Neighbors[n]
  BY <1>1, AllCounted DEF Completed
<1> QED BY <1>1, <1>2 DEF CountedFrom

\* A node without an entry has counted nothing.
LEMMA NothingCounted ==
  ASSUME Counted, NEW n \in Node, NEW w \in Number, ~HasEntry(n, w)
  PROVE  counter[n][w] = 0 /\ counter[n][w] # Degree(n)
<1>1. PICK H \in SUBSET Neighbors[n] : CountedFrom(n, w, H)
  BY DEF Counted
<1> QED BY <1>1, FS_EmptySet, NodeFacts DEF CountedFrom

\* What Transmit does when it consumes the only copy of m and sends messages
\* none of which is on its way already.
LEMMA TransmitOnce ==
  ASSUME NEW m \in InFlight, NEW sent \in SUBSET Message,
         network \in [Message -> Nat], network[m] = 1,
         sent \cap InFlight = {}, Transmit(m, sent)
  PROVE  /\ InFlight' = (InFlight \ {m}) \cup sent
         /\ \A x \in sent : network'[x] = 1
         /\ \A x \in InFlight \ {m} : network'[x] = network[x]
<1>1. \A x \in Message :
        network'[x] = (network[x] + (IF x \in sent THEN 1 ELSE 0))
                        - (IF x = m THEN 1 ELSE 0)
  BY DEF Transmit
<1>2. \A x \in sent : network[x] = 0 /\ x # m
  BY DEF InFlight
<1>3. \A x \in sent : network'[x] = 1
  BY <1>1, <1>2
<1>4. \A x \in Message \ (sent \cup {m}) : network'[x] = network[x]
  BY <1>1
<1>5. network'[m] = 0
  BY <1>1, <1>2 DEF InFlight
<1>6. InFlight' = (InFlight \ {m}) \cup sent
  BY <1>3, <1>4, <1>5 DEF InFlight
<1> QED BY <1>3, <1>4, <1>6 DEF InFlight

-----------------------------------------------------------------------------
\* A step that leaves the echo buffers alone and sends nothing of a wave.
LEMMA QuietStep ==
  ASSUME WaveInv, TypeOK',
         UNCHANGED <<FirstNeighborID, counter>>,
         \A x \in Message :
           x.type # "normal" \/ x.number \in Wave => network'[x] <= network[x]
  PROVE  WaveInv'
<1>1. \A n, w : /\ HasEntry(n, w)' <=> HasEntry(n, w)
                /\ Completed(n, w)' <=> Completed(n, w)
  BY DEF HasEntry, Completed
<1>2. \A s, d, w : Sent(s, d, w)' <=> Sent(s, d, w)
  BY <1>1 DEF Sent
<1>3. \A x \in InFlight' :
        x.type # "normal" \/ x.number \in Wave =>
          x \in InFlight /\ network'[x] <= network[x] /\ network'[x] # 0
  BY DEF InFlight, WaveInv, TypeOK
<1>4. InFlightOfWaves' \subseteq InFlightOfWaves
  BY <1>3 DEF InFlightOfWaves
<1>5. OrdersFirst'
  BY <1>1, <1>3 DEF OrdersFirst, WaveInv, InFlight, TypeOK
<1>6. WaveMessages'
  <2> SUFFICES ASSUME NEW x \in InFlightOfWaves' PROVE
        /\ x \in InFlightOfWaves
        /\ network'[x] = 1
    BY <1>2, <1>4 DEF WaveMessages, WaveInv
  <2>1. x \in InFlightOfWaves /\ x \in InFlight' /\ x.type # "normal"
    BY <1>4 DEF InFlightOfWaves
  <2>2. network[x] = 1 /\ network'[x] <= 1 /\ network'[x] # 0
    BY <2>1, <1>3 DEF WaveMessages, WaveInv
  <2>3. network'[x] \in Nat
    BY <2>1 DEF InFlight, TypeOK
  <2> QED BY <2>1, <2>2, <2>3
<1>7. Parents'
  BY <1>1 DEF Parents, HasParent, WaveInv
<1>8. Counted'
  <2>1. \A p, n, w : Silent(p, n, w) => Silent(p, n, w)'
    BY <1>4 DEF Silent
  <2>2. ASSUME NEW n \in Node, NEW w \in Number,
               NEW H \in SUBSET Neighbors[n], CountedFrom(n, w, H)
        PROVE  CountedFrom(n, w, H)'
    BY <1>1, <1>2, <2>1, <2>2 DEF CountedFrom
  <2> QED BY <2>2 DEF Counted, WaveInv
<1>9. Rooted'
  BY DEF Rooted, WaveInv
<1> QED BY <1>5, <1>6, <1>7, <1>8, <1>9 DEF WaveInv
-----------------------------------------------------------------------------
\* Node n consumes message m of wave w and sends to D, where it has sent
\* nothing yet; it forgets nothing it has sent.
WaveStep(m, n, w, type, D) ==
  /\ TypeOK /\ TypeOK'
  /\ WaveMessages
  /\ m \in InFlight /\ network[m] = 1
  /\ m.destinationID = n /\ m.number = w
  /\ n \in Node /\ w \in Wave
  /\ type \in {"explorer", "echo"}
  /\ D \subseteq Neighbors[n]
  /\ \A p \in Node, v \in Number :
       p # n \/ v # w =>
         FirstNeighborID'[p][v] = FirstNeighborID[p][v]
         /\ counter'[p][v] = counter[p][v]
  /\ HasEntry(n, w) => FirstNeighborID'[n][w] = FirstNeighborID[n][w]
  /\ Completed(n, w) => Completed(n, w)'
  /\ \A d \in D : /\ ~Sent(n, d, w)
                  /\ Sent(n, d, w)'
                  /\ type = "echo" <=> FirstNeighborID'[n][w] = d
  /\ Transmit(m, Copies(type, w, n, D))

LEMMA WaveStepMessages ==
  ASSUME NEW m, NEW n, NEW w, NEW type, NEW D, WaveStep(m, n, w, type, D)
  PROVE  /\ InFlight' = (InFlight \ {m}) \cup Copies(type, w, n, D)
         /\ \A x \in InFlight \ {m} : network'[x] = network[x]
         /\ \A p \in Node, q \in Node, v \in Number :
              Sent(p, q, v) => Sent(p, q, v)'
         /\ \A p \in Node, q \in Node, v \in Number :
              Sent(p, q, v) /\ Silent(p, q, v) => Silent(p, q, v)'
         /\ m \in InFlightOfWaves => Silent(m.sourceID, n, w)'
         /\ WaveMessages'
<1> DEFINE sent == Copies(type, w, n, D)
<1> USE DEF WaveStep
<1>1. sent \in SUBSET Message
  BY NodeFacts DEF Copies, Message, Wave
<1>2. sent \cap InFlight = {}
  <2> SUFFICES ASSUME NEW x \in sent, x \in InFlight PROVE FALSE
    OBVIOUS
  <2>1. x.type = type /\ x.sourceID = n /\ x.destinationID \in D /\ x.number = w
    BY DEF Copies
  <2>2. x \in InFlightOfWaves
    BY <2>1 DEF InFlightOfWaves
  <2> QED BY <2>1, <2>2 DEF WaveMessages
<1>3. network \in [Message -> Nat]
  BY DEF TypeOK
<1>4. /\ InFlight' = (InFlight \ {m}) \cup sent
      /\ \A x \in sent : network'[x] = 1
      /\ \A x \in InFlight \ {m} : network'[x] = network[x]
  BY <1>1, <1>2, <1>3, TransmitOnce
<1>5. ASSUME NEW p \in Node, NEW v \in Number
      PROVE  /\ HasEntry(p, v) =>
                  HasEntry(p, v)' /\ FirstNeighborID'[p][v] = FirstNeighborID[p][v]
             /\ Completed(p, v) => Completed(p, v)'
  <2>1. CASE p = n /\ v = w
    BY <2>1 DEF HasEntry
  <2>2. CASE p # n \/ v # w
    BY <2>2 DEF HasEntry, Completed
  <2> QED BY <2>1, <2>2
<1>6. \A p \in Node, q \in Node, v \in Number : Sent(p, q, v) => Sent(p, q, v)'
  BY <1>5 DEF Sent
<1>7. InFlightOfWaves' = (InFlightOfWaves \ {m}) \cup sent
  <2>1. \A x \in sent : x.type # "normal"
    BY DEF Copies
  <2> QED BY <1>4, <2>1 DEF InFlightOfWaves
<1>8. ASSUME NEW p \in Node, NEW q \in Node, NEW v \in Number,
             Sent(p, q, v), Silent(p, q, v)
      PROVE  Silent(p, q, v)'
  <2> SUFFICES ASSUME NEW x \in sent, x.sourceID = p, x.destinationID = q,
                      x.number = v
               PROVE  FALSE
    BY <1>7, <1>8 DEF Silent
  <2>1. p = n /\ q \in D /\ v = w
    BY DEF Copies
  <2> QED BY <1>8, <2>1
<1>9. ASSUME m \in InFlightOfWaves PROVE Silent(m.sourceID, n, w)'
  <2> SUFFICES ASSUME NEW x \in InFlightOfWaves', x.sourceID = m.sourceID,
                      x.destinationID = n, x.number = w
               PROVE  FALSE
    BY DEF Silent
  <2>1. CASE x \in sent
    <3>1. x.destinationID \in Neighbors[n]
      BY <2>1 DEF Copies
    <3> QED BY <3>1, NodeFacts
  <2>2. CASE x \in InFlightOfWaves \ {m}
    BY <1>9, <2>2, MessagesOnce DEF OneMessagePerConnection
  <2> QED BY <1>7, <2>1, <2>2
<1>10. WaveMessages'
  <2>1. ASSUME NEW x \in sent
        PROVE  /\ x.number \in Wave
               /\ network'[x] = 1
               /\ x.sourceID \in Node
               /\ x.destinationID \in Neighbors[x.sourceID]
               /\ Sent(x.sourceID, x.destinationID, x.number)'
               /\ x.type = "echo" <=>
                    FirstNeighborID'[x.sourceID][x.number] = x.destinationID
    <3>1. /\ x.type = type /\ x.sourceID = n /\ x.number = w
          /\ x.destinationID \in D
      BY DEF Copies
    <3> QED BY <1>4, <3>1
  <2>2. ASSUME NEW x \in InFlightOfWaves \ {m}
        PROVE  /\ x.number \in Wave
               /\ network'[x] = 1
               /\ x.sourceID \in Node
               /\ x.destinationID \in Neighbors[x.sourceID]
               /\ Sent(x.sourceID, x.destinationID, x.number)'
               /\ x.type = "echo" <=>
                    FirstNeighborID'[x.sourceID][x.number] = x.destinationID
    <3>1. /\ x.number \in Wave
          /\ network[x] = 1
          /\ x.sourceID \in Node
          /\ x.destinationID \in Neighbors[x.sourceID]
          /\ Sent(x.sourceID, x.destinationID, x.number)
          /\ x.type = "echo" <=>
               FirstNeighborID[x.sourceID][x.number] = x.destinationID
      BY DEF WaveMessages
    <3>2. x.destinationID \in Node
      BY <3>1, NodeFacts
    <3>3. FirstNeighborID'[x.sourceID][x.number]
            = FirstNeighborID[x.sourceID][x.number]
      BY <3>1, <1>5 DEF Sent, Wave
    <3>4. network'[x] = network[x]
      BY <1>4 DEF InFlightOfWaves
    <3>5. Sent(x.sourceID, x.destinationID, x.number)'
      BY <3>1, <3>2, <1>6 DEF Wave
    <3> QED BY <3>1, <3>3, <3>4, <3>5
  <2> QED BY <1>7, <2>1, <2>2 DEF WaveMessages
<1> QED BY <1>4, <1>6, <1>8, <1>9, <1>10
\* Only the count of n changes.
LEMMA WaveStepCounted ==
  ASSUME NEW m, NEW n, NEW w, NEW type, NEW D, WaveStep(m, n, w, type, D),
         Counted,
         \E H \in SUBSET Neighbors[n] : CountedFrom(n, w, H)'
  PROVE  Counted'
<1> SUFFICES ASSUME NEW p \in Node, NEW v \in Number
             PROVE  \E H \in SUBSET Neighbors[p] : CountedFrom(p, v, H)'
  BY DEF Counted
<1>1. CASE p = n /\ v = w
  BY <1>1
<1>2. CASE p # n \/ v # w
  <2>1. PICK H \in SUBSET Neighbors[p] : CountedFrom(p, v, H)
    BY DEF Counted
  <2>2. FirstNeighborID'[p][v] = FirstNeighborID[p][v]
        /\ counter'[p][v] = counter[p][v]
    BY <1>2 DEF WaveStep
  <2>3. \A q \in H : Sent(q, p, v)' /\ Silent(q, p, v)'
    BY <2>1, NodeFacts, WaveStepMessages DEF CountedFrom
  <2>4. CountedFrom(p, v, H)'
    BY <2>1, <2>2, <2>3 DEF CountedFrom, HasEntry
  <2> QED BY <2>4
<1> QED BY <1>1, <1>2

LEMMA WaveStepParents ==
  ASSUME NEW m, NEW n, NEW w, NEW type, NEW D, WaveStep(m, n, w, type, D),
         Parents, HasParent(n, w)'
  PROVE  Parents'
<1> SUFFICES ASSUME NEW p \in Node, NEW v \in Number, ~(p = n /\ v = w)
             PROVE  HasParent(p, v)'
  BY DEF Parents
<1>1. FirstNeighborID'[p][v] = FirstNeighborID[p][v]
  BY DEF WaveStep
<1>2. \A q \in Node : HasEntry(q, v) => HasEntry(q, v)'
  BY DEF HasEntry, WaveStep
<1>3. HasParent(p, v)
  BY DEF Parents
<1> QED BY <1>1, <1>2, <1>3, NodeFacts DEF HasParent, HasEntry

\* A message of a wave is consumed: the orders still on their way are for
\* waves that exist nowhere.
LEMMA WaveStepOrders ==
  ASSUME NEW m, NEW n, NEW w, NEW type, NEW D, WaveStep(m, n, w, type, D),
         OrdersFirst, m \in InFlightOfWaves
  PROVE  OrdersFirst'
<1> SUFFICES ASSUME NEW x \in InFlight', x.type = "normal", x.number \in Wave
             PROVE  /\ x \in Order
                    /\ network'[x] = 1
                    /\ \A p \in Node : ~HasEntry(p, x.number)'
  BY DEF OrdersFirst
<1>1. x \in InFlight \ {m} /\ network'[x] = network[x]
  <2>1. x \in (InFlight \ {m}) \cup Copies(type, w, n, D)
    BY WaveStepMessages
  <2>2. x \notin Copies(type, w, n, D)
    BY DEF Copies, WaveStep
  <2> QED BY <2>1, <2>2, WaveStepMessages
<1>2. x \in Order /\ network[x] = 1 /\ \A p \in Node : ~HasEntry(p, x.number)
  BY <1>1 DEF OrdersFirst
<1>3. x.number # w
  BY <1>2 DEF WaveMessages, Sent, WaveStep
<1> QED BY <1>1, <1>2, <1>3 DEF HasEntry, Wave, WaveStep

-----------------------------------------------------------------------------
LEMMA StartWaveStep ==
  ASSUME SingleOrigin, WaveInv, TypeOK', NEW m \in InFlight, StartWave(m)
  PROVE  WaveInv'
<1> DEFINE n == m.destinationID
           w == m.number
<1> USE DEF WaveInv
<1>1. m \in Message /\ n \in Node /\ w \in Wave /\ w \in Number
  BY DEF InFlight, Message, StartWave, Wave
<1>2. m \in Order /\ network[m] = 1 /\ \A p \in Node : ~HasEntry(p, w)
  BY <1>1 DEF OrdersFirst, StartWave
<1>3. /\ FirstNeighborID' = [FirstNeighborID EXCEPT ![n][w] = n]
      /\ counter' = counter
      /\ Transmit(m, Copies("explorer", w, n, Neighbors[n]))
  BY <1>1, <1>2 DEF StartWave, OriginEntry
<1>4. /\ \A p \in Node, v \in Number :
           p # n \/ v # w =>
             FirstNeighborID'[p][v] = FirstNeighborID[p][v]
             /\ counter'[p][v] = counter[p][v]
      /\ FirstNeighborID'[n][w] = n
      /\ counter'[n][w] = counter[n][w]
  BY <1>1, <1>3 DEF TypeOK
<1>5. HasEntry(n, w)'
  BY <1>1, <1>4, NodeFacts DEF HasEntry
<1>6. WaveStep(m, n, w, "explorer", Neighbors[n])
  <2>1. \A d \in Neighbors[n] : ~Sent(n, d, w)
    BY <1>1, <1>2 DEF Sent
  <2>2. \A d \in Neighbors[n] : d # n
    BY <1>1, NodeFacts
  <2>3. \A d \in Neighbors[n] : Sent(n, d, w)'
    BY <1>4, <1>5, <2>2 DEF Sent
  <2>4. ~HasEntry(n, w) /\ ~Completed(n, w)
    BY <1>1, <1>2 DEF Completed
  <2> QED BY <1>1, <1>2, <1>3, <1>4, <2>1, <2>2, <2>3, <2>4 DEF WaveStep
<1>7. WaveMessages'
  BY <1>6, WaveStepMessages
<1>8. OrdersFirst'
  <2> SUFFICES ASSUME NEW x \in InFlight', x.type = "normal", x.number \in Wave
               PROVE  /\ x \in Order
                      /\ network'[x] = 1
                      /\ \A p \in Node : ~HasEntry(p, x.number)'
    BY DEF OrdersFirst
  <2>1. x \in InFlight \ {m} /\ network'[x] = network[x]
    BY <1>6, WaveStepMessages DEF Copies
  <2>2. x \in Order /\ network[x] = 1 /\ \A p \in Node : ~HasEntry(p, x.number)
    BY <2>1 DEF OrdersFirst
  <2>3. x.number # w
    BY <1>1, <1>2, <2>1, <2>2 DEF SingleOrigin
  <2> QED BY <1>4, <2>1, <2>2, <2>3 DEF HasEntry, Wave
<1>9. Parents'
  BY <1>1, <1>2, <1>4, <1>6, WaveStepParents DEF HasParent
<1>10. Counted'
  <2>1. CountedFrom(n, w, {})
    BY <1>1, <1>2 DEF Counted, CountedFrom
  <2>2. CountedFrom(n, w, {})'
    BY <1>4, <1>5, <2>1 DEF CountedFrom
  <2> QED BY <1>6, <2>2, WaveStepCounted
<1>11. Rooted'
  <2> SUFFICES ASSUME NEW v \in Number, NEW S \in SUBSET Node,
                      \A p \in S : FirstNeighborID'[p][v] \in S \ {p}
               PROVE  S = {}
    BY DEF Rooted
  <2>1. ~(v = w /\ n \in S)
    BY <1>4
  <2>2. \A p \in S : FirstNeighborID'[p][v] = FirstNeighborID[p][v]
    BY <1>4, <2>1
  <2> QED BY <2>2 DEF Rooted
<1> QED BY <1>7, <1>8, <1>9, <1>10, <1>11
LEMMA FirstExplorerStep ==
  ASSUME WaveInv, TypeOK', NEW m \in InFlight, FirstExplorer(m)
  PROVE  WaveInv'
<1> DEFINE n == m.destinationID
           w == m.number
           s == m.sourceID
           D == ForwardTo(n, s)
<1> USE DEF WaveInv
<1>1. m \in Message /\ n \in Node /\ w \in Number /\ m \in InFlightOfWaves
  BY DEF InFlight, InFlightOfWaves, Message, FirstExplorer
<1>2. /\ network[m] = 1 /\ w \in Wave
      /\ s \in Node /\ n \in Neighbors[s] /\ Sent(s, n, w)
  BY <1>1 DEF WaveMessages
<1>3. s \in Neighbors[n] /\ s # n /\ s # NoNode
  BY <1>1, <1>2, NodeFacts
<1>4. ~HasEntry(n, w)
  BY DEF FirstExplorer
<1>5. /\ FirstNeighborID' = [FirstNeighborID EXCEPT ![n][w] = s]
      /\ counter' = [counter EXCEPT ![n][w] = 1]
      /\ Transmit(m, Copies("explorer", w, n, D))
  BY DEF FirstExplorer
<1>6. /\ \A p \in Node, v \in Number :
           p # n \/ v # w =>
             FirstNeighborID'[p][v] = FirstNeighborID[p][v]
             /\ counter'[p][v] = counter[p][v]
      /\ FirstNeighborID'[n][w] = s
      /\ counter'[n][w] = 1
  BY <1>1, <1>5 DEF TypeOK
<1>7. HasEntry(n, w)'
  BY <1>3, <1>6 DEF HasEntry
<1>8. WaveStep(m, n, w, "explorer", D)
  <2>1. D \subseteq Neighbors[n] /\ s \notin D
    BY DEF ForwardTo
  <2>2. ~Completed(n, w) /\ \A d \in D : ~Sent(n, d, w)
    BY <1>4 DEF Sent, Completed
  <2>3. \A d \in D : Sent(n, d, w)'
    BY <1>6, <1>7, <2>1 DEF Sent
  <2> QED BY <1>1, <1>2, <1>4, <1>5, <1>6, <2>1, <2>2, <2>3 DEF WaveStep
<1>9. HasEntry(s, w)'
  BY <1>2, <1>3, <1>6, <1>1 DEF HasEntry, Sent
<1>10. OrdersFirst' /\ WaveMessages'
  BY <1>1, <1>8, WaveStepOrders, WaveStepMessages
<1>11. Parents'
  BY <1>2, <1>3, <1>6, <1>8, <1>9, WaveStepParents DEF HasParent
<1>12. Counted'
  <2>1. Cardinality({s}) = 1
    BY FS_Singleton
  <2>2. Sent(s, n, w)' /\ Silent(s, n, w)'
    BY <1>1, <1>2, <1>8, WaveStepMessages
  <2>3. CountedFrom(n, w, {s})'
    BY <1>6, <1>7, <2>1, <2>2 DEF CountedFrom
  <2>4. {s} \in SUBSET Neighbors[n]
    BY <1>3
  <2> QED BY <1>8, <2>3, <2>4, WaveStepCounted
<1>13. Rooted'
  <2> SUFFICES ASSUME NEW v \in Number, NEW S \in SUBSET Node,
                      \A p \in S : FirstNeighborID'[p][v] \in S \ {p}
               PROVE  S = {}
    BY DEF Rooted
  <2>1. CASE ~(v = w /\ n \in S)
    <3>1. \A p \in S : FirstNeighborID'[p][v] = FirstNeighborID[p][v]
      BY <1>6, <2>1
    <3> QED BY <3>1 DEF Rooted
  <2>2. CASE v = w /\ n \in S
    \* Nobody has n as the node the wave came from: S without n keeps to
    \* itself as well, and it holds s.
    <3>1. ASSUME NEW p \in S \ {n}
          PROVE  FirstNeighborID[p][w] \in (S \ {n}) \ {p}
      <4>1. FirstNeighborID[p][w] \in S \ {p}
        BY <1>6, <2>2
      <4>2. FirstNeighborID[p][w] # NoNode
        BY <4>1, NodeFacts
      <4>3. HasEntry(p, w) /\ HasEntry(FirstNeighborID[p][w], w)
        BY <4>1, <4>2, <1>1 DEF HasEntry, Parents, HasParent
      <4> QED BY <4>1, <4>3, <1>4
    <3>2. S \ {n} = {}
      BY <1>1, <3>1 DEF Rooted
    <3>3. s \in S \ {n}
      BY <1>3, <1>6, <2>2
    <3> QED BY <3>2, <3>3
  <2> QED BY <2>1, <2>2
<1> QED BY <1>10, <1>11, <1>12, <1>13

\* A wave is not complete where a message of it arrives.
LEMMA KnownUnfinished ==
  ASSUME WaveInv, NEW m \in InFlightOfWaves
  PROVE  ~Completed(m.destinationID, m.number)
<1> DEFINE n == m.destinationID
           w == m.number
           s == m.sourceID
<1>1. n \in Node /\ w \in Number /\ s \in Node /\ n \in Neighbors[s]
  BY DEF InFlightOfWaves, InFlight, Message, WaveInv, WaveMessages
<1>2. s \in Neighbors[n] /\ ~Silent(s, n, w)
  BY <1>1, NodeFacts DEF Silent
<1> QED BY <1>1, <1>2, CompletedSilent DEF WaveInv

\* The message that CompleteWave handles completes the wave: a node that has
\* an entry and is not the origin has counted another neighbour before.
LEMMA CompleteCompletes ==
  ASSUME WaveInv, NEW m \in InFlight, CompleteWave(m)
  PROVE  Completed(m.destinationID, m.number)'
<1> DEFINE n == m.destinationID
           w == m.number
<1>1. n \in Node /\ w \in Number
  BY DEF InFlight, Message
<1>2. HasEntry(n, w) /\ FirstNeighborID' = FirstNeighborID
      /\ counter[n][w] + 1 = Degree(n)
      /\ counter' = [counter EXCEPT ![n][w] = @ + 1]
  BY DEF CompleteWave, IsLast
<1>3. counter'[n][w] = Degree(n)
  BY <1>1, <1>2 DEF WaveInv, TypeOK
<1>4. ASSUME FirstNeighborID[n][w] # n PROVE Degree(n) > 1
  <2>1. PICK H \in SUBSET Neighbors[n] : CountedFrom(n, w, H)
    BY <1>1 DEF WaveInv, Counted
  <2>2. FirstNeighborID[n][w] \in H
    BY <1>2, <1>4, <2>1 DEF CountedFrom, HasEntry
  <2>3. IsFiniteSet(H) /\ counter[n][w] = Cardinality(H) /\ counter[n][w] \in Nat
    BY <1>1, <2>1, AllCounted DEF CountedFrom
  <2>4. counter[n][w] # 0
    BY <2>2, <2>3, FS_EmptySet
  <2> QED BY <1>2, <2>3, <2>4
<1> QED BY <1>2, <1>3, <1>4 DEF Completed, HasEntry, Degree

\* An explorer or echo of a wave that n knows is counted.  In the step that
\* completes the wave the echo goes to the node the wave came from.
LEMMA CountStep ==
  ASSUME WaveInv, TypeOK', NEW m \in InFlight,
         CountMessage(m) \/ CompleteWave(m)
  PROVE  WaveInv'
<1> DEFINE n == m.destinationID
           w == m.number
           s == m.sourceID
           first == FirstNeighborID[n][w]
           D == IF CompleteWave(m) THEN {first} \ {n} ELSE {}
<1> USE DEF WaveInv
<1>1. m \in Message /\ n \in Node /\ w \in Number /\ m \in InFlightOfWaves
  BY DEF InFlight, InFlightOfWaves, Message, CountMessage, CompleteWave
<1>2. /\ network[m] = 1 /\ w \in Wave
      /\ s \in Node /\ n \in Neighbors[s] /\ Sent(s, n, w)
  BY <1>1 DEF WaveMessages
<1>3. s \in Neighbors[n] /\ s # n
  BY <1>1, <1>2, NodeFacts
<1>4. HasEntry(n, w) /\ ~Silent(s, n, w)
  BY <1>1 DEF Silent, CountMessage, CompleteWave
<1>5. ~Completed(n, w)
  BY <1>1, KnownUnfinished
<1>6. FirstNeighborID' = FirstNeighborID
      /\ counter' = [counter EXCEPT ![n][w] = @ + 1]
  BY DEF CountMessage, CompleteWave
<1>7. /\ \A p \in Node, v \in Number :
           p # n \/ v # w => counter'[p][v] = counter[p][v]
      /\ counter'[n][w] = counter[n][w] + 1
  BY <1>1, <1>6 DEF TypeOK
<1>8. PICK H \in SUBSET Neighbors[n] : CountedFrom(n, w, H)
  BY <1>1 DEF Counted
<1>9. IsFiniteSet(H) /\ Cardinality(H) = counter[n][w] /\ counter[n][w] \in Nat
      /\ s \notin H
  BY <1>1, <1>4, <1>8, AllCounted DEF CountedFrom
<1>10. Cardinality(H \cup {s}) = counter[n][w] + 1
  BY <1>9, FS_AddElement
<1>11. Transmit(m, Copies("echo", w, n, D))
  BY DEF CountMessage, CompleteWave, Copies
<1>12. ASSUME CompleteWave(m), first # n
       PROVE  /\ first \in Neighbors[n]
              /\ ~Sent(n, first, w)
              /\ Sent(n, first, w)'
  <2>1. first \in Neighbors[n]
    BY <1>1, <1>4, <1>12 DEF Parents, HasParent
  <2>2. Completed(n, w)'
    BY <1>12, CompleteCompletes
  <2> QED BY <1>4, <1>5, <1>6, <2>1, <2>2 DEF Sent, HasEntry
<1>13. WaveStep(m, n, w, "echo", D)
  <2>1. \A d \in D : CompleteWave(m) /\ d = first /\ first # n
    OBVIOUS
  <2>2. \A d \in D : /\ d \in Neighbors[n] /\ ~Sent(n, d, w) /\ Sent(n, d, w)'
                     /\ FirstNeighborID'[n][w] = d
    BY <1>6, <1>12, <2>1
  <2>3. \A p \in Node, v \in Number :
          p # n \/ v # w =>
            FirstNeighborID'[p][v] = FirstNeighborID[p][v]
            /\ counter'[p][v] = counter[p][v]
    BY <1>6, <1>7
  <2> HIDE DEF D
  <2> QED BY <1>1, <1>2, <1>5, <1>6, <1>11, <2>2, <2>3 DEF WaveStep
<1>14. OrdersFirst' /\ WaveMessages'
  BY <1>1, <1>13, WaveStepOrders, WaveStepMessages
<1>15. Parents'
  BY <1>6 DEF Parents, HasParent, HasEntry
<1>16. Counted'
  <2>1. \A p \in H \cup {s} : Sent(p, n, w)' /\ Silent(p, n, w)'
    <3>1. Sent(s, n, w)' /\ Silent(s, n, w)'
      BY <1>1, <1>2, <1>13, WaveStepMessages
    <3>2. \A p \in H : Sent(p, n, w)' /\ Silent(p, n, w)'
      BY <1>1, <1>8, <1>13, NodeFacts, WaveStepMessages DEF CountedFrom
    <3> QED BY <3>1, <3>2
  <2>2. CountedFrom(n, w, H \cup {s})'
    BY <1>4, <1>6, <1>7, <1>8, <1>10, <2>1 DEF CountedFrom, HasEntry
  <2>3. H \cup {s} \in SUBSET Neighbors[n]
    BY <1>3
  <2> QED BY <1>13, <2>2, <2>3, WaveStepCounted
<1>17. Rooted'
  BY <1>6 DEF Rooted
<1> QED BY <1>14, <1>15, <1>16, <1>17
-----------------------------------------------------------------------------
LEMMA WaveInvStep ==
  ASSUME SingleOrigin, WaveInv, [Next]_vars
  PROVE  WaveInv'
<1>1. TypeOK'
  BY TypeStep DEF WaveInv
<1>2. \A x \in Message : network[x] \in Nat
  BY DEF WaveInv, TypeOK
<1>3. ASSUME NEW m \in InFlight, Handle(m) PROVE WaveInv'
  <2>1. CASE Ignore(m)
    <3>1. \A x \in Message : network'[x] <= network[x]
      BY <1>2, <2>1 DEF Ignore, Transmit, InFlight
    <3> QED BY <1>1, <2>1, <3>1, QuietStep DEF Ignore
  <2>2. CASE StartWave(m)
    BY <1>1, <2>2, StartWaveStep
  <2>3. CASE Shutdown(m)
    <3>1. \A x \in Message : network'[x] <= network[x]
      BY <1>2, <2>3 DEF Shutdown, Transmit, InFlight
    <3> QED BY <1>1, <2>3, <3>1, QuietStep DEF Shutdown
  <2>4. CASE ShutdownAll(m)
    <3> DEFINE flood == Copies("normal", m.number, m.destinationID,
                               Neighbors[m.destinationID])
    <3>1. Content[m.number] = "shutdown all" /\ Transmit(m, flood)
          /\ UNCHANGED <<FirstNeighborID, counter>>
      BY <2>4 DEF ShutdownAll
    <3>2. m.number \notin Wave
      BY <3>1 DEF Wave, WaveContents
    <3>3. \A x \in flood : x.type = "normal" /\ x.number = m.number
      BY DEF Copies
    <3>4. ASSUME NEW x \in Message, x.type # "normal" \/ x.number \in Wave
          PROVE  network'[x] <= network[x]
      <4>1. x \notin flood
        BY <3>2, <3>3, <3>4
      <4> QED BY <1>2, <3>1, <4>1, TransmitLess
    <3> QED BY <1>1, <3>1, <3>4, QuietStep
  <2>5. CASE FirstExplorer(m)
    BY <1>1, <2>5, FirstExplorerStep
  <2>6. CASE CountMessage(m) \/ CompleteWave(m)
    BY <1>1, <2>6, CountStep
  <2> QED BY <1>3, <2>1, <2>2, <2>3, <2>4, <2>5, <2>6 DEF Handle
<1>4. ASSUME NEW n \in Node, Crash(n) PROVE WaveInv'
  <2>1. \A x \in Message : network'[x] <= network[x]
    BY <1>2, <1>4 DEF Crash
  <2> QED BY <1>1, <1>4, <2>1, QuietStep DEF Crash
<1>5. ASSUME NEW m \in InFlight, Lose(m) PROVE WaveInv'
  <2>1. \A x \in Message : network'[x] <= network[x]
    BY <1>2, <1>5 DEF Lose, Transmit, InFlight
  <2> QED BY <1>1, <1>5, <2>1, QuietStep DEF Lose
<1>6. CASE UNCHANGED vars
  <2>1. \A x \in Message : network'[x] <= network[x]
    BY <1>2, <1>6 DEF vars
  <2> QED BY <1>1, <1>6, <2>1, QuietStep DEF vars
<1> QED BY <1>3, <1>4, <1>5, <1>6 DEF Next, loop

LEMMA WaveInvInit == Init => WaveInv
<1> SUFFICES ASSUME Init PROVE WaveInv
  OBVIOUS
<1> USE DEF Init
<1>1. TypeOK
  BY DEF TypeOK
<1>2. \A n \in Node, w \in Number : ~HasEntry(n, w)
  BY DEF HasEntry
<1>3. InFlight = Order
  BY MessageAssumption DEF InFlight
<1>4. InFlightOfWaves = {}
  BY <1>3, MessageAssumption DEF InFlightOfWaves
<1>5. OrdersFirst
  BY <1>2, <1>3, MessageAssumption DEF OrdersFirst, Wave
<1>6. WaveMessages /\ Parents
  BY <1>2, <1>4 DEF WaveMessages, Parents, HasParent
<1>7. Counted
  <2>1. ASSUME NEW n \in Node, NEW w \in Number PROVE CountedFrom(n, w, {})
    BY <1>2, FS_EmptySet DEF CountedFrom, HasEntry
  <2> QED BY <2>1 DEF Counted
<1>8. Rooted
  BY NodeFacts DEF Rooted
<1> QED BY <1>1, <1>5, <1>6, <1>7, <1>8 DEF WaveInv

THEOREM WaveInvariant == ASSUME SingleOrigin PROVE Spec => []WaveInv
<1>1. WaveInv /\ [Next]_vars => WaveInv'
  BY WaveInvStep
<1> QED BY <1>1, WaveInvInit, PTL DEF Spec
(* No connection ever carries two messages of one wave.                      *)
THEOREM MessagesOnceAlways ==
  ASSUME SingleOrigin PROVE Spec => []OneMessagePerConnection
<1>1. WaveInv => OneMessagePerConnection
  BY MessagesOnce DEF WaveInv
<1> QED BY <1>1, WaveInvariant, PTL

(* handleEchoMessage finds an entry for every echo.                          *)
THEOREM EchoFindsEntry == ASSUME SingleOrigin PROVE Spec => []EchoHasEntry
<1>1. ASSUME WaveInv, NEW m \in InFlight, m.type = "echo"
      PROVE  HasEntry(m.destinationID, m.number)
  <2> USE DEF WaveInv
  <2>1. m \in InFlightOfWaves
    BY <1>1 DEF InFlightOfWaves
  <2>2. m.number \in Number /\ m.sourceID \in Node
        /\ m.destinationID \in Neighbors[m.sourceID]
        /\ HasEntry(m.sourceID, m.number)
        /\ FirstNeighborID[m.sourceID][m.number] = m.destinationID
    BY <1>1, <2>1 DEF WaveMessages, Sent, Wave
  <2>3. m.destinationID # m.sourceID
    BY <2>2, NodeFacts
  <2> QED BY <1>1, <2>2, <2>3 DEF Parents, HasParent
<1>2. WaveInv => EchoHasEntry
  BY <1>1 DEF EchoHasEntry
<1> QED BY <1>2, WaveInvariant, PTL

(* Nothing of a wave is on its way to a node that has completed it, so       *)
(* nobody writes to a node that a shutdown wave has stopped.                 *)
THEOREM NothingIsLate == ASSUME SingleOrigin PROVE Spec => []NothingForCompleted
<1>1. ASSUME WaveInv, NEW m \in InFlightOfWaves,
             Completed(m.destinationID, m.number)
      PROVE  FALSE
  <2> USE DEF WaveInv
  <2>1. m.number \in Number /\ m.sourceID \in Node
        /\ m.destinationID \in Neighbors[m.sourceID]
    BY <1>1 DEF WaveMessages, Wave
  <2>2. m.destinationID \in Node /\ m.sourceID \in Neighbors[m.destinationID]
    BY <2>1, NodeFacts
  <2>3. Silent(m.sourceID, m.destinationID, m.number)
    BY <1>1, <2>1, <2>2, CompletedSilent
  <2> QED BY <2>3 DEF Silent
<1>2. WaveInv => NothingForCompleted
  BY <1>1 DEF NothingForCompleted
<1> QED BY <1>2, WaveInvariant, PTL

-----------------------------------------------------------------------------
\* Around a completed node everybody has the wave, and whoever got it from
\* that node has completed it.
LEMMA AroundCompleted ==
  ASSUME WaveInv, NEW n \in Node, NEW w \in Number, Completed(n, w),
         NEW p \in Neighbors[n]
  PROVE  /\ HasEntry(p, w)
         /\ FirstNeighborID[p][w] = n => Completed(p, w)
BY CompletedSilent DEF WaveInv, Sent

LEMMA FeedbackFromInv ==
  ASSUME SingleOrigin, WaveInv, NEW o \in Node, NEW w \in Wave,
         FirstNeighborID[o][w] = o, Completed(o, w)
  PROVE  \A p \in Node : Completed(p, w)
<1> USE DEF WaveInv
<1> DEFINE Informed == {p \in Node : HasEntry(p, w)}
           Unfinished == {p \in Informed : ~Completed(p, w)}
<1>1. w \in Number
  BY DEF Wave
<1>2. ASSUME NEW p \in Unfinished
      PROVE  FirstNeighborID[p][w] \in Unfinished \ {p}
  <2>1. p \in Node /\ HasEntry(p, w) /\ ~Completed(p, w)
    OBVIOUS
  <2>2. FirstNeighborID[p][w] # p
    \* The wave has one origin, and that has completed it.
    <3> SUFFICES ASSUME FirstNeighborID[p][w] = p PROVE p = o
      BY <2>1
    <3>1. PICK a \in Order : a.number = w /\ a.destinationID = p
      BY <1>1, <2>1 DEF Parents, HasParent
    <3>2. PICK b \in Order : b.number = w /\ b.destinationID = o
      BY <1>1 DEF Parents, HasParent, Completed
    <3> QED BY <3>1, <3>2 DEF SingleOrigin
  <2>3. FirstNeighborID[p][w] \in Neighbors[p] /\ HasEntry(FirstNeighborID[p][w], w)
    BY <1>1, <2>1, <2>2 DEF Parents, HasParent
  <2>4. FirstNeighborID[p][w] \in Informed /\ p \in Neighbors[FirstNeighborID[p][w]]
    BY <2>1, <2>3, NodeFacts
  <2>5. ~Completed(FirstNeighborID[p][w], w)
    BY <1>1, <2>1, <2>4, AroundCompleted
  <2> QED BY <2>2, <2>4, <2>5
<1>3. Unfinished = {}
  <2> Unfinished \in SUBSET Node
    OBVIOUS
  <2> HIDE DEF Unfinished
  <2> QED BY <1>1, <1>2 DEF Rooted
<1>4. \A p \in Informed : Neighbors[p] \subseteq Informed
  BY <1>1, <1>3, NodeFacts, AroundCompleted
<1>5. o \in Informed
  BY DEF Completed
<1>6. Informed = Node
  <2> Informed \in SUBSET Node
    OBVIOUS
  <2> HIDE DEF Informed
  <2> QED BY <1>4, <1>5, NeighborsAssumption
<1> QED BY <1>3, <1>6

(* When the origin of a wave has heard from all its neighbours, every node   *)
(* of the graph has completed the wave: on every connected graph, whatever   *)
(* is lost and whoever stops.                                                *)
THEOREM FeedbackIsSound == ASSUME SingleOrigin PROVE Spec => []FeedbackSound
<1>1. WaveInv => FeedbackSound
  BY FeedbackFromInv DEF FeedbackSound
<1> QED BY <1>1, WaveInvariant, PTL
-----------------------------------------------------------------------------
LEMMA EffectKept ==
  ASSUME NEW p \in Node, NEW v \in Wave, Effect(p, v),
         FirstNeighborID'[p][v] = FirstNeighborID[p][v],
         counter'[p][v] = counter[p][v] \/ ~Completed(p, v)',
         isShuttingDown[p] => isShuttingDown'[p],
         termininationTime'[p] = termininationTime[p]
  PROVE  Effect(p, v)'
BY DEF Effect, HasEntry, Completed, Degree

LEMMA EffectsStep ==
  ASSUME SingleOrigin, WaveInv, Effects, [Next]_vars
  PROVE  Effects'
<1> USE DEF WaveInv
<1> SUFFICES ASSUME NEW p \in Node, NEW v \in Wave PROVE Effect(p, v)'
  BY DEF Effects
<1>1. Effect(p, v) /\ v \in Number
  BY DEF Effects, Wave
<1>2. ASSUME NEW m \in InFlight, Handle(m) PROVE Effect(p, v)'
  <2> DEFINE n == m.destinationID
             w == m.number
  <2>1. n \in Node /\ w \in Number
    BY DEF InFlight, Message
  <2>2. CASE Ignore(m) \/ Shutdown(m) \/ ShutdownAll(m)
    BY <1>1, <2>2, EffectKept DEF Ignore, Shutdown, ShutdownAll
  <2>3. CASE StartWave(m)
    <3>1. w \in Wave /\ \A q \in Node : ~HasEntry(q, w)
      BY <2>1, <2>3 DEF OrdersFirst, StartWave, Wave
    <3>2. FirstNeighborID' = [FirstNeighborID EXCEPT ![n][w] = n]
          /\ UNCHANGED <<isShuttingDown, counter, termininationTime>>
      BY <2>1, <2>3, <3>1 DEF StartWave, OriginEntry
    <3>3. CASE p = n /\ v = w
      <4>3. counter[n][w] # Degree(n)
        BY <2>1, <3>1, NothingCounted
      <4>4. ~Completed(n, w)'
        BY <3>2, <4>3 DEF Completed, Degree
      <4>5. FirstNeighborID'[n][w] = n
        BY <2>1, <3>2 DEF TypeOK
      <4> QED BY <3>3, <4>4, <4>5 DEF Effect
    <3>4. CASE ~(p = n /\ v = w)
      <4>1. FirstNeighborID'[p][v] = FirstNeighborID[p][v]
        BY <1>1, <2>1, <3>2, <3>4 DEF TypeOK
      <4> QED BY <1>1, <3>2, <4>1, EffectKept
    <3> QED BY <3>3, <3>4
  <2>4. CASE FirstExplorer(m)
    <3>1. FirstNeighborID' = [FirstNeighborID EXCEPT ![n][w] = m.sourceID]
          /\ counter' = [counter EXCEPT ![n][w] = 1]
          /\ isShuttingDown' = [isShuttingDown EXCEPT
                                  ![n] = @ \/ StartsShutdown(w)]
          /\ termininationTime' = termininationTime
      BY <2>4 DEF FirstExplorer
    <3>2. /\ isShuttingDown[p] => isShuttingDown'[p]
          /\ Content[w] = "shutdown echo" => isShuttingDown'[n]
      BY <2>1, <3>1 DEF TypeOK, StartsShutdown
    <3>3. CASE p = n /\ v = w
      <4>1. m \in InFlightOfWaves
        BY <2>4 DEF FirstExplorer, InFlightOfWaves
      <4>2. m.sourceID # n
        BY <2>1, <4>1, NodeFacts DEF WaveMessages
      <4>3. FirstNeighborID'[n][w] # n /\ counter'[n][w] = 1
        BY <2>1, <3>1, <4>2 DEF TypeOK
      <4>4. ~Completed(n, w)'
        BY <4>3 DEF Completed
      <4> QED BY <3>2, <3>3, <4>4 DEF Effect
    <3>4. CASE ~(p = n /\ v = w)
      <4>1. FirstNeighborID'[p][v] = FirstNeighborID[p][v]
            /\ counter'[p][v] = counter[p][v]
        BY <1>1, <2>1, <3>1, <3>4 DEF TypeOK
      <4> QED BY <1>1, <3>1, <3>2, <4>1, EffectKept
    <3> QED BY <3>3, <3>4
  <2>5. CASE CountMessage(m)
    <3>1. UNCHANGED <<isShuttingDown, FirstNeighborID, termininationTime>>
          /\ counter' = [counter EXCEPT ![n][w] = @ + 1]
          /\ ~IsLast(n, w)
      BY <2>5 DEF CountMessage
    <3>2. counter'[p][v] = counter[p][v] \/ ~Completed(p, v)'
      BY <1>1, <2>1, <3>1 DEF TypeOK, Completed, Degree, IsLast
    <3> QED BY <1>1, <3>1, <3>2, EffectKept
  <2>6. CASE CompleteWave(m)
    <3>1. UNCHANGED <<isShuttingDown, FirstNeighborID>>
          /\ counter' = [counter EXCEPT ![n][w] = @ + 1]
          /\ termininationTime' =
               [termininationTime EXCEPT
                  ![n] = IF Content[w] = "termination time" THEN Time[w] ELSE @]
      BY <2>6 DEF CompleteWave
    <3>2. /\ p # n => termininationTime'[p] = termininationTime[p]
          /\ Content[w] = "termination time" => termininationTime'[n] = Time[w]
          /\ Content[w] # "termination time" =>
               termininationTime'[n] = termininationTime[n]
      BY <2>1, <3>1 DEF TypeOK
    <3>3. CASE p = n /\ v = w
      BY <1>1, <3>1, <3>2, <3>3 DEF Effect, HasEntry
    <3>4. CASE ~(p = n /\ v = w)
      <4>1. FirstNeighborID'[p][v] = FirstNeighborID[p][v]
            /\ counter'[p][v] = counter[p][v]
        BY <1>1, <2>1, <3>1, <3>4 DEF TypeOK
      <4>2. CASE p # n \/ Content[w] # "termination time"
        BY <1>1, <3>1, <3>2, <4>1, <4>2, EffectKept
      <4>3. CASE p = n /\ Content[w] = "termination time"
        \* Two time waves: nothing is said of v.
        <5>1. w \in Wave \ {v}
          BY <2>1, <3>4, <4>3 DEF Wave, WaveContents
        <5>2. ~OnlyTime(v)
          BY <4>3, <5>1 DEF OnlyTime
        <5> QED BY <1>1, <3>1, <4>1, <5>2 DEF Effect, HasEntry
      <4> QED BY <4>2, <4>3
    <3> QED BY <3>3, <3>4
  <2> QED BY <1>2, <2>2, <2>3, <2>4, <2>5, <2>6 DEF Handle
<1>3. ASSUME NEW n \in Node, Crash(n) PROVE Effect(p, v)'
  BY <1>1, <1>3, EffectKept DEF Crash
<1>4. ASSUME NEW m \in InFlight, Lose(m) PROVE Effect(p, v)'
  BY <1>1, <1>4, EffectKept DEF Lose
<1>5. CASE UNCHANGED vars
  BY <1>1, <1>5, EffectKept DEF vars
<1> QED BY <1>2, <1>3, <1>4, <1>5 DEF Next, loop

LEMMA EffectsInvariant == ASSUME SingleOrigin PROVE Spec => [](WaveInv /\ Effects)
<1>1. Init => Effects
  BY DEF Init, Effects, Effect, HasEntry, Completed, Wave
<1>2. (WaveInv /\ Effects) /\ [Next]_vars => (WaveInv /\ Effects)'
  BY WaveInvStep, EffectsStep
<1> QED BY <1>1, <1>2, WaveInvInit, PTL DEF Spec

(* A node that a shutdown wave has stopped leaves behind only neighbours     *)
(* that ignore application messages or that started a shutdown.              *)
THEOREM NeighborsAreShuttingDown ==
  ASSUME SingleOrigin PROVE Spec => []NeighborsShuttingDown
<1>1. ASSUME WaveInv, Effects, NEW w \in Wave, NEW n \in Node,
             Content[w] = "shutdown echo", Completed(n, w),
             NEW p \in Neighbors[n]
      PROVE  isShuttingDown[p] \/ FirstNeighborID[p][w] = p
  BY <1>1, AroundCompleted, NodeFacts DEF Effects, Effect, Wave
<1>2. WaveInv /\ Effects => NeighborsShuttingDown
  BY <1>1 DEF NeighborsShuttingDown
<1> QED BY <1>2, EffectsInvariant, PTL

(* Once the origin of the only time wave has counted all its neighbours,     *)
(* every node has the termination time.                                      *)
THEOREM TimeIsEverywhere == ASSUME SingleOrigin PROVE Spec => []TimeEverywhere
<1>1. WaveInv /\ Effects => TimeEverywhere
  BY FeedbackFromInv DEF TimeEverywhere, Effects, Effect
<1> QED BY <1>1, EffectsInvariant, PTL
-----------------------------------------------------------------------------
\* A message that becomes more is one that the step sends.
LEMMA TransmitMore ==
  ASSUME NEW m, NEW sent, Transmit(m, sent),
         NEW x \in Message, network[x] \in Nat, network'[x] > network[x]
  PROVE  x \in sent
<1> SUFFICES ASSUME x \notin sent PROVE FALSE
  OBVIOUS
<1>1. network'[x] = (network[x] + 0) - (IF x = m THEN 1 ELSE 0)
  BY DEF Transmit
<1> QED BY <1>1

(* A node that a shutdown wave has reached sends no campaign message, in any *)
(* run of any instance.                                                      *)
THEOREM QuietAlways == Spec => QuietWhenShuttingDown
<1>1. ASSUME TypeOK, [Next]_vars PROVE StaysQuiet
  <2> SUFFICES ASSUME NEW x \in Message, Content[x.number] = "campaign",
                      network'[x] > network[x]
               PROVE  ~isShuttingDown[x.sourceID]
    BY DEF InFlight, StaysQuiet
  <2>1. network[x] \in Nat
    BY <1>1 DEF TypeOK
  <2>2. ASSUME NEW m, NEW sent, Transmit(m, sent),
               Content[m.number] = "campaign" => ~isShuttingDown[m.destinationID],
               \A y \in sent : y.number = m.number /\ y.sourceID = m.destinationID
        PROVE  ~isShuttingDown[x.sourceID]
    BY <2>1, <2>2, TransmitMore
  <2>3. ASSUME NEW m \in InFlight, Handle(m) PROVE ~isShuttingDown[x.sourceID]
    <3> DEFINE n == m.destinationID
               w == m.number
    <3>1. ASSUME NEW type, NEW D, Handled(m), Transmit(m, Copies(type, w, n, D))
          PROVE  ~isShuttingDown[x.sourceID]
      BY <2>2, <3>1 DEF Copies, Handled, Ignored
    <3>2. CASE StartWave(m)
      BY <3>1, <3>2 DEF StartWave
    <3>3. CASE ShutdownAll(m)
      BY <3>1, <3>3 DEF ShutdownAll
    <3>4. CASE FirstExplorer(m)
      BY <3>1, <3>4 DEF FirstExplorer
    <3>5. CASE CompleteWave(m)
      BY <3>1, <3>5 DEF CompleteWave
    <3>6. CASE Ignore(m) \/ Shutdown(m) \/ CountMessage(m)
      BY <2>1, <3>6, TransmitMore DEF Ignore, Shutdown, CountMessage
    <3> QED BY <2>3, <3>2, <3>3, <3>4, <3>5, <3>6 DEF Handle
  <2>4. ASSUME NEW n \in Node, Crash(n) PROVE FALSE
    BY <2>1, <2>4 DEF Crash
  <2>5. ASSUME NEW m \in InFlight, Lose(m) PROVE FALSE
    BY <2>1, <2>5, TransmitMore DEF Lose
  <2>6. CASE UNCHANGED vars
    BY <2>1, <2>6 DEF vars
  <2> QED BY <1>1, <2>3, <2>4, <2>5, <2>6 DEF Next, loop
<1>2. TypeOK /\ [Next]_vars => [StaysQuiet]_vars
  BY <1>1
<1> QED BY <1>2, TypeCorrect, PTL DEF Spec, QuietWhenShuttingDown

-----------------------------------------------------------------------------
(* One wave, the traced one, seen from above.  What is proved so far does   *)
(* not depend on there being a wave to trace.                               *)

seen == <<origin, informed, finished>>

LEMMA UpdateElsewhere ==
  ASSUME NEW S, NEW f \in [Node -> [Number -> S]], NEW n \in Node,
         NEW w \in Number, NEW v \in Number \ {w}, NEW q, NEW p \in Node
  PROVE  [f EXCEPT ![n][w] = q][p][v] = f[p][v]
OBVIOUS

\* A step that leaves the echo buffers of the traced wave alone
LEMMA Unseen ==
  ASSUME \A p \in Node :
           /\ FirstNeighborID'[p][Traced] = FirstNeighborID[p][Traced]
           /\ Completed(p, Traced)' <=> Completed(p, Traced)
  PROVE  UNCHANGED seen
BY DEF seen, origin, informed, finished, HasEntry

LEMMA InitFeedback == Init => Abstract!Init
BY NodeAssumption, TracedAssumption
   DEF Init, Abstract!Init, origin, informed, finished, HasEntry, Completed, Wave

\* What WaveInv says of completed nodes, to be used of the next state
Around == \A n \in Node, w \in Number :
            Completed(n, w) => \A p \in Neighbors[n] : HasEntry(p, w)

LEMMA InvSays == SingleOrigin /\ WaveInv => Around /\ FeedbackSound
BY AroundCompleted, FeedbackFromInv DEF Around, FeedbackSound

LEMMA InvSaysNext == SingleOrigin /\ WaveInv' => Around' /\ FeedbackSound'
<1>1. (SingleOrigin /\ WaveInv => Around /\ FeedbackSound)'
  BY InvSays, PTL
<1> QED BY <1>1

LEMMA OneOrigin ==
  ASSUME SingleOrigin, WaveInv, NEW o \in Node, NEW p \in Node,
         FirstNeighborID[o][Traced] = o, FirstNeighborID[p][Traced] = p
  PROVE  o = p
<1>1. Traced \in Number /\ Traced \in Wave
  BY TracedAssumption DEF Wave
<1>2. PICK a \in Order : a.number = Traced /\ a.destinationID = p
  BY <1>1, NodeFacts DEF WaveInv, Parents, HasParent, HasEntry
<1>3. PICK b \in Order : b.number = Traced /\ b.destinationID = o
  BY <1>1, NodeFacts DEF WaveInv, Parents, HasParent, HasEntry
<1> QED BY <1>1, <1>2, <1>3 DEF SingleOrigin

LEMMA StepFeedback ==
  ASSUME SingleOrigin, WaveInv, [Next]_vars
  PROVE  [Abstract!Next]_seen
<1> USE DEF WaveInv
<1>1. Traced \in Wave /\ Traced \in Number
  BY TracedAssumption DEF Wave
<1>2. WaveInv'
  BY WaveInvStep
<1>3. ASSUME UNCHANGED <<FirstNeighborID, counter>> PROVE UNCHANGED seen
  BY <1>3, Unseen DEF Completed, HasEntry
<1>4. ASSUME NEW m \in InFlight, Handle(m) PROVE [Abstract!Next]_seen
  <2> DEFINE n == m.destinationID
             w == m.number
  <2>1. n \in Node /\ w \in Number
    BY DEF InFlight, Message
  <2>2. CASE Ignore(m) \/ Shutdown(m) \/ ShutdownAll(m)
    BY <1>3, <2>2 DEF Ignore, Shutdown, ShutdownAll
  <2>3. CASE w # Traced
    <3>1. /\ \/ FirstNeighborID' = FirstNeighborID
             \/ \E q : FirstNeighborID' = [FirstNeighborID EXCEPT ![n][w] = q]
          /\ \/ counter' = counter
             \/ \E k : counter' = [counter EXCEPT ![n][w] = k]
      <4>1. CASE StartWave(m)
        BY <4>1 DEF StartWave, OriginEntry
      <4>2. CASE FirstExplorer(m)
        BY <4>2 DEF FirstExplorer
      <4>3. CASE CountMessage(m) \/ CompleteWave(m)
        BY <4>3 DEF CountMessage, CompleteWave
      <4> QED BY <1>4, <2>2, <4>1, <4>2, <4>3 
                 DEF Handle, Ignore, Shutdown, ShutdownAll
    <3>2. \A p \in Node :
            /\ FirstNeighborID'[p][Traced] = FirstNeighborID[p][Traced]
            /\ counter'[p][Traced] = counter[p][Traced]
      <4> SUFFICES ASSUME NEW p \in Node
                   PROVE  /\ FirstNeighborID'[p][Traced] = FirstNeighborID[p][Traced]
                          /\ counter'[p][Traced] = counter[p][Traced]
        OBVIOUS
      <4>1. /\ FirstNeighborID \in [Node -> [Number -> Node \cup {NoNode}]]
            /\ counter \in [Node -> [Number -> Nat]]
            /\ Traced \in Number \ {w}
        BY <1>1, <2>3 DEF TypeOK
      <4>2. ASSUME NEW q
            PROVE  [FirstNeighborID EXCEPT ![n][w] = q][p][Traced]
                     = FirstNeighborID[p][Traced]
        BY <2>1, <4>1, UpdateElsewhere
      <4>3. ASSUME NEW k
            PROVE  [counter EXCEPT ![n][w] = k][p][Traced] = counter[p][Traced]
        BY <2>1, <4>1, UpdateElsewhere
      <4> HIDE DEF n, w
      <4> QED BY <3>1, <4>2, <4>3
    <3> QED BY <3>2, Unseen DEF Completed, HasEntry
  <2>4. CASE StartWave(m) /\ w = Traced
    <3>1. \A p \in Node : ~HasEntry(p, w)
      BY <1>1, <2>4 DEF OrdersFirst, StartWave
    <3>2. FirstNeighborID' = [FirstNeighborID EXCEPT ![n][w] = n]
          /\ counter' = counter
      BY <2>1, <2>4, <3>1 DEF StartWave, OriginEntry
    <3>3. /\ FirstNeighborID'[n][w] = n
          /\ \A p \in Node \ {n} : FirstNeighborID'[p][w] = NoNode
      BY <2>1, <3>1, <3>2 DEF TypeOK, HasEntry
    <3>4. origin = {} /\ informed = {} /\ finished = {}
      BY <2>4, <3>1, NodeFacts DEF origin, informed, finished, HasEntry, Completed
    <3>5. origin' = {n} /\ informed' = {n}
      BY <2>1, <2>4, <3>3, NodeFacts DEF origin, informed, HasEntry
    <3>6. ~Completed(n, w)'
      BY <2>1, <3>1, <3>2, NothingCounted DEF Completed, Degree
    <3>7. finished' = {}
      BY <2>4, <3>3, <3>6 DEF finished, Completed, HasEntry
    <3> QED BY <2>1, <3>4, <3>5, <3>7 DEF Abstract!Next, Abstract!Start
  <2>5. CASE FirstExplorer(m) /\ w = Traced
    <3>1. m \in InFlightOfWaves
      BY <2>5 DEF FirstExplorer, InFlightOfWaves
    <3>2. m.sourceID \in Node /\ n \in Neighbors[m.sourceID]
          /\ HasEntry(m.sourceID, w)
      BY <3>1 DEF WaveMessages, Sent
    <3>3. m.sourceID \in Neighbors[n] \cap informed /\ m.sourceID # n
          /\ m.sourceID # NoNode
      BY <2>1, <2>5, <3>2, NodeFacts DEF informed
    <3>4. ~HasEntry(n, w)
          /\ FirstNeighborID' = [FirstNeighborID EXCEPT ![n][w] = m.sourceID]
          /\ counter' = [counter EXCEPT ![n][w] = 1]
      BY <2>5 DEF FirstExplorer
    <3>5. /\ FirstNeighborID'[n][w] = m.sourceID /\ counter'[n][w] = 1
          /\ \A p \in Node \ {n} :
               /\ FirstNeighborID'[p][w] = FirstNeighborID[p][w]
               /\ counter'[p][w] = counter[p][w]
      BY <2>1, <3>4 DEF TypeOK
    <3>6. FirstNeighborID[n][w] # n /\ ~Completed(n, w)
      BY <2>1, <3>4, NodeFacts DEF HasEntry, Completed
    <3>7. ~Completed(n, w)'
      BY <3>3, <3>5 DEF Completed
    <3>8. \A p \in Node \ {n} : Completed(p, w)' <=> Completed(p, w)
      BY <3>5 DEF Completed, HasEntry, Degree
    <3>9. UNCHANGED <<origin, finished>>
      BY <2>5, <3>3, <3>5, <3>6, <3>7, <3>8 DEF origin, finished
    <3>10. n \notin informed /\ informed' = informed \cup {n}
      BY <2>1, <2>5, <3>3, <3>4, <3>5 DEF informed, HasEntry
    <3>11. Abstract!Inform(n)
      BY <3>3, <3>9, <3>10 DEF Abstract!Inform
    <3> QED BY <2>1, <3>11 DEF Abstract!Next
  <2>6. CASE CountMessage(m) /\ w = Traced
    <3>1. /\ FirstNeighborID' = FirstNeighborID
          /\ counter' = [counter EXCEPT ![n][w] = @ + 1]
          /\ ~IsLast(n, w)
      BY <2>6 DEF CountMessage
    <3>2. ~Completed(n, w)
      BY <2>6, KnownUnfinished DEF CountMessage, InFlightOfWaves
    <3>3. ~Completed(n, w)'
      BY <2>1, <3>1 DEF TypeOK, Completed, IsLast, Degree
    <3>4. \A p \in Node \ {n} : counter'[p][w] = counter[p][w]
      BY <2>1, <3>1 DEF TypeOK
    <3> QED BY <2>6, <3>1, <3>2, <3>3, <3>4, Unseen
               DEF Completed, HasEntry, Degree
  <2>7. CASE CompleteWave(m) /\ w = Traced
    <3>1. /\ FirstNeighborID' = FirstNeighborID
          /\ counter' = [counter EXCEPT ![n][w] = @ + 1]
          /\ HasEntry(n, w)
      BY <2>7 DEF CompleteWave
    <3>2. ~Completed(n, w)
      BY <2>7, KnownUnfinished DEF CompleteWave, InFlightOfWaves
    <3>3. Completed(n, w)'
      BY <2>7, CompleteCompletes
    <3>4. \A p \in Node \ {n} : counter'[p][w] = counter[p][w]
      BY <2>1, <3>1 DEF TypeOK
    <3>5. \A p \in Node \ {n} : Completed(p, w)' <=> Completed(p, w)
      BY <3>1, <3>4 DEF Completed, HasEntry, Degree
    <3>6. UNCHANGED <<origin, informed>>
      BY <3>1 DEF origin, informed, HasEntry
    <3>7. n \notin finished /\ finished' = finished \cup {n}
      BY <2>1, <2>7, <3>2, <3>3, <3>5 DEF finished
    <3>8. n \in informed
      BY <2>1, <2>7, <3>1 DEF informed
    <3>9. CASE n \notin origin
      <4>1. \A p \in Neighbors[n] : HasEntry(p, w)'
        BY <1>2, <2>1, <3>3, InvSaysNext DEF Around
      <4>2. Neighbors[n] \subseteq informed
        BY <2>1, <2>7, <3>1, <4>1, NodeFacts DEF informed, HasEntry
      <4>3. Abstract!Finish(n)
        BY <3>6, <3>7, <3>8, <3>9, <4>2 DEF Abstract!Finish
      <4> QED BY <2>1, <4>3 DEF Abstract!Next
    <3>10. CASE n \in origin
      <4>1. FirstNeighborID[n][w] = n
        BY <2>7, <3>10 DEF origin
      <4>2. \A p \in Node : Completed(p, w)'
        BY <1>1, <1>2, <2>1, <2>7, <3>1, <3>3, <4>1, InvSaysNext DEF FeedbackSound
      <4>3. finished' = Node
        BY <2>7, <4>2 DEF finished
      <4>4. origin = {n}
        BY <1>1, <2>7, <3>10, OneOrigin DEF origin
      <4>5. Abstract!Decide
        BY <3>6, <3>7, <4>3, <4>4 DEF Abstract!Decide, finished
      <4> QED BY <4>5 DEF Abstract!Next
    <3> QED BY <3>9, <3>10
  <2> QED BY <1>4, <2>2, <2>3, <2>4, <2>5, <2>6, <2>7 DEF Handle
<1>5. ASSUME NEW n \in Node, Crash(n) PROVE UNCHANGED seen
  BY <1>3, <1>5 DEF Crash
<1>6. ASSUME NEW m \in InFlight, Lose(m) PROVE UNCHANGED seen
  BY <1>3, <1>6 DEF Lose
<1>7. CASE UNCHANGED vars
  BY <1>3, <1>7 DEF vars
<1> QED BY <1>4, <1>5, <1>6, <1>7 DEF Next, loop

(* Every wave implements Feedback, whatever its messages meet on their way.  *)
THEOREM EchoImplementsFeedback ==
  ASSUME SingleOrigin PROVE Spec => ImplementsFeedback
<1>1. WaveInv /\ [Next]_vars => [Abstract!Next]_seen
  BY StepFeedback
<1> QED BY <1>1, InitFeedback, WaveInvariant, PTL
        DEF Spec, Abstract!Spec, ImplementsFeedback, seen
=============================================================================
