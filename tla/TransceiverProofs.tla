-------------------------- MODULE TransceiverProofs --------------------------
(***************************************************************************)
(* Theorems about Transceiver, for any number of connections, messages of  *)
(* any sizes, any buffer and any descriptor numbers.                       *)
(***************************************************************************)
EXTENDS Transceiver, SequenceTheorems, FiniteSetTheorems, TLAPS

-----------------------------------------------------------------------------
(* Types                                                                    *)

LEMMA SizeIsSequence ==
  ASSUME NEW c \in Connection, NEW i \in DOMAIN Size[c]
  PROVE  i \in Nat /\ Size[c][i] \in Nat \ {0}
BY SizeAssumption

\* A reader pushes a text only if there is one.
TextPushed == \A c \in Connection : reader[c] = "push" => message[c] # <<>>

TypeInv == TypeOK /\ TextPushed

LEMMA TypeInit == Init => TypeInv
<1> SUFFICES ASSUME Init PROVE TypeInv
  OBVIOUS
<1>1. <<>> \in Seq(DOMAIN Size[0]) /\ \A c \in Connection : <<>> \in Seq(DOMAIN Size[c])
  OBVIOUS
<1> QED BY <1>1 DEF Init, TypeInv, TypeOK, TextPushed

LEMMA SendType ==
  ASSUME TypeInv, NEW c \in Connection, sendTo(c)
  PROVE  TypeInv'
<1> DEFINE i == sent[c] + 1
<1>1. i \in DOMAIN Size[c] /\ i \in Nat /\ Size[c][i] \in Nat
  BY SizeIsSequence DEF sendTo
<1>2. Units(c, i) \in Seq(DOMAIN Size[c])
  BY <1>1 DEF Units
<1>3. stream[c] \o Units(c, i) \in Seq(DOMAIN Size[c])
  BY <1>2, ConcatProperties DEF TypeInv, TypeOK
<1> HIDE DEF i
<1>4. /\ sent' = [sent EXCEPT ![c] = i]
      /\ stream' = [stream EXCEPT ![c] = @ \o Units(c, i)]
      /\ UNCHANGED <<isRunning, threads, link, socket, reader, shut, message,
                     queue, late>>
  BY DEF sendTo, i
<1>5. sent' \in [Connection -> Nat]
  BY <1>1, <1>4 DEF TypeInv, TypeOK
<1>6. /\ DOMAIN stream' = Connection
      /\ \A b \in Connection : stream'[b] \in Seq(DOMAIN Size[b])
  BY <1>3, <1>4 DEF TypeInv, TypeOK
<1> QED BY <1>4, <1>5, <1>6 DEF TypeInv, TypeOK, TextPushed, threads

LEMMA PartIsSequence ==
  ASSUME NEW S, NEW s \in Seq(S), NEW n \in 0 .. Len(s)
  PROVE  /\ SubSeq(s, 1, n) \in Seq(S)
         /\ SubSeq(s, n + 1, Len(s)) \in Seq(S)
<1>1. /\ n \in Int /\ n + 1 \in Int /\ Len(s) \in Int
      /\ \A i \in 1 .. n : s[i] \in S
      /\ \A i \in n + 1 .. Len(s) : s[i] \in S
  OBVIOUS
<1> QED BY <1>1, SubSeqProperties

LEMMA RecvReader ==
  ASSUME DOMAIN reader = Connection, DOMAIN message = Connection,
         NEW c \in Connection, Recv(c)
  PROVE  /\ reader'[c] \in {"recv", "check", "push"}
         /\ reader'[c] = "push" => message'[c] # <<>>
         /\ \A b \in Connection \ {c} : /\ reader'[b] = reader[b]
                                         /\ message'[b] = message[b]
<1>1. PICK n, text :
        /\ message' = [message EXCEPT ![c] = text]
        /\ reader' = [reader EXCEPT
                        ![c] = CASE ReadsOn(n) -> "recv"
                                 [] ~ReadsOn(n) /\ message'[c] = <<>> -> "check"
                                 [] ~ReadsOn(n) /\ message'[c] # <<>> -> "push"]
  BY DEF Recv
<1>2. CASE ReadsOn(n)
  BY <1>1, <1>2
<1>3. CASE ~ReadsOn(n) /\ message'[c] = <<>>
  BY <1>1, <1>3
<1>4. CASE ~ReadsOn(n) /\ message'[c] # <<>>
  BY <1>1, <1>4
<1> QED BY <1>2, <1>3, <1>4

LEMMA RecvType ==
  ASSUME TypeInv, NEW c \in Connection, Recv(c)
  PROVE  TypeInv'
<1> DEFINE n == IF Len(stream[c]) < Buffer THEN Len(stream[c]) ELSE Buffer
           S == DOMAIN Size[c]
<1>1. stream[c] \in Seq(S) /\ message[c] \in Seq(S)
  BY DEF TypeInv, TypeOK
<1>2. n \in 0 .. Len(stream[c])
  BY <1>1, SizeAssumption
<1> HIDE DEF n, S
<1>3. /\ SubSeq(stream[c], 1, n) \in Seq(S)
      /\ SubSeq(stream[c], n + 1, Len(stream[c])) \in Seq(S)
  BY <1>1, <1>2, PartIsSequence
<1>5. message[c] \o SubSeq(stream[c], 1, n) \in Seq(S)
  BY <1>1, <1>3, ConcatProperties
<1>6. /\ message' = [message EXCEPT ![c] = @ \o SubSeq(stream[c], 1, n)]
      /\ stream' = [stream EXCEPT ![c] = SubSeq(@, n + 1, Len(@))]
      /\ reader' = [reader EXCEPT
                      ![c] = CASE ReadsOn(n) -> "recv"
                               [] ~ReadsOn(n) /\ message'[c] = <<>> -> "check"
                               [] ~ReadsOn(n) /\ message'[c] # <<>> -> "push"]
      /\ UNCHANGED <<isRunning, threads, peers, queue, late>>
  BY DEF Recv, n
<1>7. /\ DOMAIN stream' = Connection /\ DOMAIN message' = Connection
      /\ \A b \in Connection : /\ stream'[b] \in Seq(DOMAIN Size[b])
                               /\ message'[b] \in Seq(DOMAIN Size[b])
  BY <1>3, <1>5, <1>6 DEF TypeInv, TypeOK, S
<1>8. /\ reader'[c] \in {"recv", "check", "push"}
      /\ reader'[c] = "push" => message'[c] # <<>>
      /\ \A b \in Connection \ {c} : /\ reader'[b] = reader[b]
                                      /\ message'[b] = message[b]
  BY RecvReader DEF TypeInv, TypeOK
<1>9. reader' \in [Connection -> {"none", "check", "recv", "push", "notify",
                                 "ended", "joined"}]
  BY <1>6, <1>8 DEF TypeInv, TypeOK
<1>10. TextPushed'
  BY <1>8 DEF TypeInv, TextPushed
<1> QED BY <1>6, <1>7, <1>9, <1>10 DEF TypeInv, TypeOK, threads, peers

LEMMA PushType ==
  ASSUME TypeInv, NEW c \in Connection, Push(c)
  PROVE  TypeInv'
<1>1. message[c] \in Seq(DOMAIN Size[c]) /\ message[c] # <<>>
  BY DEF TypeInv, TypeOK, TextPushed, Push
<1>2. Head(message[c]) \in DOMAIN Size[c]
  BY <1>1, HeadTailProperties
<1>3. Parsed(c) \in Message
  BY <1>2 DEF Parsed, Message
<1>4. <<>> \in Seq(DOMAIN Size[c])
  OBVIOUS
<1> QED BY <1>3, <1>4 DEF TypeInv, TypeOK, TextPushed, Push, threads, peers

LEMMA TypeStep == TypeInv /\ [Next]_vars => TypeInv'
<1> SUFFICES ASSUME TypeInv, [Next]_vars PROVE TypeInv'
  OBVIOUS
<1> USE DEF TypeInv, TypeOK, TextPushed, threads, peers
<1>1. ASSUME NEW c \in Connection, createConnection(c) \/ Close(c)
      PROVE  TypeInv'
  <2>1. CASE createConnection(c)
    <3>1. link' \in [Connection -> {"none", "backlog", "fresh", "entered"}]
      BY <2>1 DEF createConnection
    <3> QED BY <2>1, <3>1 DEF createConnection
  <2>2. CASE Close(c)
    <3>1. shut' \in [Connection -> SUBSET {"peer", "node"}]
      BY <2>2 DEF Close
    <3> QED BY <2>2, <3>1 DEF Close
  <2> QED BY <1>1, <2>1, <2>2
<1>2. ASSUME NEW c \in Connection, Accept(c) PROVE TypeInv'
  <2>1. /\ link' \in [Connection -> {"none", "backlog", "fresh", "entered"}]
        /\ socket' \in [Connection -> Descriptor \cup {0}]
        /\ acceptor' = "insert"
    BY <1>2 DEF Accept
  <2>2. /\ reader' \in [Connection -> {"none", "check", "recv", "push", "notify",
                                      "ended", "joined"}]
        /\ \A b \in Connection : reader'[b] = "push" => reader[b] = "push"
    BY <1>2 DEF Accept
  <2> QED BY <1>2, <2>1, <2>2 DEF Accept
<1>3. ASSUME NEW c \in Connection, Insert(c) PROVE TypeInv'
  <2>1. position' \in Descriptor \cup {0} /\ late' \in BOOLEAN
    BY <1>3 DEF Insert, Race
  <2>2. receivers' \in [Descriptor -> Connection \cup {NoConnection}]
    BY <1>3 DEF Insert
  <2> QED BY <1>3, <2>1, <2>2 DEF Insert
<1>4. CASE Accepting \/ AcceptFails
  BY <1>4 DEF Accepting, AcceptFails
<1>5. ASSUME NEW c \in Connection, Check(c) \/ Notify(c) PROVE TypeInv'
  <2>1. /\ reader' \in [Connection -> {"none", "check", "recv", "push", "notify",
                                      "ended", "joined"}]
        /\ \A b \in Connection : reader'[b] = "push" => reader[b] = "push"
    BY <1>5 DEF Check, Notify
  <2>2. CASE Check(c)
    BY <2>1, <2>2 DEF Check
  <2>3. CASE Notify(c)
    BY <2>1, <2>3 DEF Notify
  <2> QED BY <1>5, <2>2, <2>3
<1>6. CASE Wait \/ Wake \/ StopRunning \/ ShutListener \/ JoinAcceptor \/ Destroy
  BY <1>6 DEF Wait, Wake, StopRunning, ShutListener, JoinAcceptor, Destroy
<1>7. ASSUME NEW m \in queue, Pop(m) PROVE TypeInv'
  BY <1>7 DEF Pop
<1>8. CASE Walk
  <2>1. shut' \in [Connection -> SUBSET {"peer", "node"}]
    BY <1>8 DEF Walk, ShutDown
  <2>2. position' \in Descriptor \cup {0}
    BY <1>8 DEF Walk, Remaining, Entered
  <2> QED BY <1>8, <2>1, <2>2 DEF Walk
<1>9. CASE Join
  <2>1. /\ reader' \in [Connection -> {"none", "check", "recv", "push", "notify",
                                      "ended", "joined"}]
        /\ \A b \in Connection : reader'[b] = "push" => reader[b] = "push"
    BY <1>9 DEF Join
  <2> QED BY <1>9, <2>1 DEF Join
<1>10. CASE UNCHANGED vars
  BY <1>10 DEF vars
<1> USE DEF Next
<1> HIDE DEF TypeInv, TypeOK, TextPushed, threads, peers
<1> QED BY <1>1, <1>2, <1>3, <1>4, <1>5, <1>6, <1>7, <1>8, <1>9, <1>10,
           SendType, RecvType, PushType
        DEF Peer, asyncReceive, receive, loop, closeReceiver

(* Types are kept through connections, threads and the walk of             *)
(* closeReceiver: what is read and queued is part of what was sent.         *)
THEOREM TransceiverTypeCorrect == Spec => []TypeOK
<1>1. TypeInv => TypeOK
  BY DEF TypeInv
<1> QED BY <1>1, TypeInit, TypeStep, PTL DEF Spec
-----------------------------------------------------------------------------
(* closeReceiver                                                            *)

(* Only the accept thread holds a connection that is not in the map yet, one *)
(* at most, and only such a one or one in the map has a reader.              *)
Held ==
  \A c \in Connection :
    /\ link[c] = "fresh" => acceptor = "insert"
    /\ \A b \in Connection : link[c] = "fresh" /\ link[b] = "fresh" => c = b
    /\ reader[c] # "none" <=> link[c] \in {"fresh", "entered"}
    /\ socket[c] # 0 <=> reader[c] # "none"

(* Until isRunning is false no reader ends, so every number is given once.   *)
Running ==
  isRunning =>
    /\ ~late
    /\ main \in {"pop", "waiting", "stop"}
    /\ \A c \in Connection : isOpen(c)
    /\ \A c, b \in Connection : socket[c] = socket[b] /\ socket[c] # 0 => c = b
    /\ \A d \in Entered : /\ socket[receivers[d]] = d
                          /\ link[receivers[d]] = "entered"

(* Where closeReceiver is in the map                                         *)
Passed(d) ==
  \/ main = "walk" /\ d <= position
  \/ main = "join" /\ d < position
  \/ main \in {"joinAcceptor", "closed", "gone"}

(* The walk begins at the first entry.                                      *)
AtStart == main \in {"pop", "waiting", "stop", "shut"} => position = 0

(* Nobody entered late: the readers are in the map, which does not change    *)
(* any more, and those that the walk has passed are joined.                  *)
Walked ==
  ~late =>
    /\ \A c \in Connection :
         link[c] = "entered" => \E d \in Entered : receivers[d] = c
    /\ \A d \in Entered : Passed(d) => reader[receivers[d]] = "joined"
    /\ main = "join" => position \in Entered

(* The accept thread has ended when the map is destroyed.                    *)
AcceptorDone ==
  main \in {"closed", "gone"} => acceptor = "done"

CloseInv ==
  /\ Held
  /\ Running
  /\ AtStart
  /\ Walked
  /\ AcceptorDone
  /\ TerminatesOnlyIfLate

LEMMA CloseInit == Init => CloseInv
<1> SUFFICES ASSUME Init PROVE CloseInv
  OBVIOUS
<1>1. Held
  BY DEF Init, Held
<1>2. Running
  BY DEF Init, Running, Entered, isOpen
<1>3. Walked
  BY DEF Init, Walked, Entered, Passed
<1> QED BY <1>1, <1>2, <1>3
        DEF Init, CloseInv, AtStart, AcceptorDone,
            TerminatesOnlyIfLate

\* The steps that leave the threads and the map as they are
Quiet ==
  UNCHANGED <<isRunning, main, position, acceptor, link, socket, receivers,
              reader, late>>

LEMMA CloseQuiet ==
  ASSUME CloseInv, Quiet
  PROVE  CloseInv'
BY DEF CloseInv, Quiet, Held, Running, AtStart, Walked, AcceptorDone,
       TerminatesOnlyIfLate, Passed, Entered, isOpen

\* The steps of a reader in its loop, and of the main thread before it closes
LEMMA CloseReader ==
  ASSUME TypeOK, CloseInv, NEW c \in Connection,
         reader[c] \notin {"none", "ended", "joined"},
         DOMAIN reader' = Connection,
         reader'[c] \notin {"none", "joined"},
         reader'[c] = "ended" => ~isRunning,
         \A b \in Connection \ {c} : reader'[b] = reader[b],
         main' = main \/ (main = "waiting" /\ main' = "pop"),
         UNCHANGED <<isRunning, position, acceptor, link, socket, receivers,
                     late>>
  PROVE  CloseInv'
<1>1. Held'
  BY DEF CloseInv, Held
<1>2. Running'
  BY DEF CloseInv, Running, Entered, isOpen
<1>3. Entered' = Entered /\ \A d : Passed(d)' <=> Passed(d)
  BY DEF Entered, Passed
<1>4. Walked'
  BY <1>3 DEF CloseInv, Walked, Entered, TypeOK
<1> QED BY <1>1, <1>2, <1>4 DEF CloseInv, AtStart, AcceptorDone, TerminatesOnlyIfLate

\* createConnection
LEMMA CloseConnect ==
  ASSUME TypeOK, CloseInv, NEW c \in Connection, createConnection(c)
  PROVE  CloseInv'
<1>1. /\ link[c] = "none" /\ link' = [link EXCEPT ![c] = "backlog"]
      /\ DOMAIN link = Connection
      /\ UNCHANGED <<isRunning, main, position, acceptor, socket, receivers,
                     reader, late>>
  BY DEF createConnection, threads, TypeOK
<1>2. Held'
  BY <1>1 DEF CloseInv, Held
<1>3. Running'
  BY <1>1 DEF CloseInv, Running, Entered, isOpen, TypeOK
<1>4. Walked'
  BY <1>1 DEF CloseInv, Walked, Entered, Passed
<1> QED BY <1>1, <1>2, <1>3, <1>4
        DEF CloseInv, AtStart, AcceptorDone, TerminatesOnlyIfLate

LEMMA CloseAccept ==
  ASSUME TypeOK, CloseInv, NEW c \in Connection, Accept(c)
  PROVE  CloseInv'
<1>1. PICK d \in Descriptor :
        isFree(d) /\ socket' = [socket EXCEPT ![c] = d]
  BY DEF Accept
<1>2. /\ link[c] = "backlog" /\ link' = [link EXCEPT ![c] = "fresh"]
      /\ reader' = [reader EXCEPT ![c] = "check"]
      /\ acceptor = "accept" /\ acceptor' = "insert"
      /\ main \in {"pop", "waiting", "stop", "shut"}
      /\ UNCHANGED <<isRunning, main, position, receivers, late>>
  BY DEF Accept, isListening
<1>3. /\ DOMAIN link = Connection /\ DOMAIN reader = Connection
      /\ DOMAIN socket = Connection /\ d # 0
  BY NumberAssumption DEF TypeOK
<1>4. Held'
  BY <1>1, <1>2, <1>3 DEF CloseInv, Held
<1>5. Running'
  <2> SUFFICES ASSUME isRunning PROVE Running'
    BY <1>2 DEF Running
  <2>1. \A b \in Connection : isOpen(b)' /\ socket[b] # d
    BY <1>1, <1>2, <1>3 DEF CloseInv, Running, isOpen, isFree
  <2>2. /\ \A b \in Connection \ {c} : socket'[b] = socket[b]
        /\ socket'[c] = d
    BY <1>1, <1>3
  <2>3. \A a, b \in Connection :
          socket'[a] = socket'[b] /\ socket'[a] # 0 => a = b
    BY <2>1, <2>2 DEF CloseInv, Running
  <2>4. \A e \in Entered : receivers[e] \in Connection \ {c}
    BY <1>2 DEF CloseInv, Running, Entered, TypeOK
  <2> QED BY <1>2, <1>3, <2>1, <2>2, <2>3, <2>4
          DEF CloseInv, Running, Entered
<1>6. Walked'
  BY <1>2, <1>3 DEF CloseInv, Walked, Entered, Passed
<1> QED BY <1>2, <1>4, <1>5, <1>6
        DEF CloseInv, AtStart, AcceptorDone, TerminatesOnlyIfLate

LEMMA CloseInsert ==
  ASSUME TypeOK, CloseInv, NEW c \in Connection, Insert(c)
  PROVE  CloseInv'
<1> DEFINE d == socket[c]
<1>1. /\ acceptor = "insert"
      /\ link[c] = "fresh" /\ link' = [link EXCEPT ![c] = "entered"]
      /\ late' = (late \/ ~isRunning)
      /\ UNCHANGED <<isRunning, socket, reader>>
  BY DEF Insert
<1>2. /\ DOMAIN link = Connection /\ DOMAIN receivers = Descriptor
      /\ d \in Descriptor /\ c # NoConnection
  BY <1>1, NumberAssumption DEF TypeOK, CloseInv, Held
<1>3. main \notin {"closed", "gone"}
  BY <1>1 DEF CloseInv, AcceptorDone
<1>4. CASE receivers[d] = NoConnection
  <2>1. /\ receivers' = [receivers EXCEPT ![d] = c]
        /\ acceptor' = "check" /\ main' = main
        /\ main # "walk" => position' = position
    BY <1>4 DEF Insert, Race
  <2>2. Held'
    BY <1>1, <1>2, <2>1 DEF CloseInv, Held
  <2>3. Entered' = Entered \cup {d} /\ d \notin Entered
    BY <1>2, <1>4, <2>1 DEF Entered
  <2>4. Running'
    <3> SUFFICES ASSUME isRunning PROVE Running'
      BY <1>1 DEF Running
    <3>1. \A e \in Entered' : socket[receivers'[e]] = e
                             /\ link'[receivers'[e]] = "entered"
      <4>1. receivers'[d] = c /\ link'[c] = "entered"
        BY <1>1, <1>2, <2>1
      <4>2. ASSUME NEW e \in Entered
            PROVE  /\ socket[receivers'[e]] = e
                   /\ link'[receivers'[e]] = "entered"
        <5>1. receivers'[e] = receivers[e] /\ receivers[e] \in Connection
          BY <2>1, <2>3 DEF Entered, TypeOK
        <5>2. socket[receivers[e]] = e /\ link[receivers[e]] = "entered"
          BY DEF CloseInv, Running
        <5> QED BY <1>1, <1>2, <5>1, <5>2
      <4> QED BY <2>3, <4>1, <4>2
    <3> QED BY <1>1, <2>1, <3>1 DEF CloseInv, Running, isOpen
  <2>5. Walked'
    <3> SUFFICES ASSUME ~late' PROVE Walked'
      BY DEF Walked
    <3>1. isRunning /\ ~late /\ main \in {"pop", "waiting", "stop"}
      BY <1>1 DEF CloseInv, Running
    <3>2. \A e : ~Passed(e)'
      BY <2>1, <3>1 DEF Passed
    <3>3. \A b \in Connection :
            link'[b] = "entered" => \E e \in Entered' : receivers'[e] = b
      <4> SUFFICES ASSUME NEW b \in Connection, link'[b] = "entered"
                   PROVE  \E e \in Entered' : receivers'[e] = b
        OBVIOUS
      <4>1. CASE b = c
        BY <1>2, <2>1, <2>3, <4>1
      <4>2. CASE b # c
        <5>1. PICK e \in Entered : receivers[e] = b
          BY <1>1, <1>2, <3>1, <4>2 DEF CloseInv, Walked
        <5>2. e # d /\ receivers'[e] = b
          BY <2>1, <2>3, <5>1
        <5> QED BY <2>3, <5>2
      <4> QED BY <4>1, <4>2
    <3> QED BY <2>1, <3>1, <3>2, <3>3 DEF Walked
  <2> QED BY <1>3, <2>1, <2>2, <2>4, <2>5, <1>1
          DEF CloseInv, AtStart, AcceptorDone, TerminatesOnlyIfLate
<1>5. CASE receivers[d] # NoConnection
  <2>1. main' = "terminated" /\ UNCHANGED <<receivers, acceptor, position>>
    BY <1>5 DEF Insert
  <2>2. d \in Entered
    BY <1>2, <1>5 DEF Entered
  <2>3. ~isRunning
    <3> SUFFICES ASSUME isRunning PROVE FALSE
      OBVIOUS
    <3>1. socket[receivers[d]] = d /\ link[receivers[d]] = "entered"
      BY <2>2 DEF CloseInv, Running
    <3>2. receivers[d] \in Connection /\ d # 0
      BY <1>2, <1>5, NumberAssumption DEF TypeOK
    <3>3. receivers[d] = c
      BY <3>1, <3>2 DEF CloseInv, Running
    <3> QED BY <1>1, <3>1, <3>3
  <2>4. Held'
    BY <1>1, <1>2, <2>1 DEF CloseInv, Held
  <2> QED BY <1>1, <2>1, <2>3, <2>4
          DEF CloseInv, Running, AtStart, Walked, AcceptorDone, TerminatesOnlyIfLate
<1> QED BY <1>4, <1>5

\* The steps of the main thread that do not concern the readers
LEMMA CloseMain ==
  ASSUME TypeOK, CloseInv,
         main \in {"pop", "waiting", "stop"},
         main' \in {"pop", "waiting", "stop"},
         UNCHANGED <<isRunning, position, acceptor, link, socket, receivers,
                     reader, late>>
  PROVE  CloseInv'
<1>1. Held' /\ Running'
  BY DEF CloseInv, Held, Running, Entered, isOpen
<1>2. Walked'
  BY DEF CloseInv, Walked, Entered, Passed
<1> QED BY <1>1, <1>2 DEF CloseInv, AtStart, AcceptorDone, TerminatesOnlyIfLate

\* isRunning is false, and the map is walked later.
LEMMA CloseStop ==
  ASSUME TypeOK, CloseInv, StopRunning \/ ShutListener
  PROVE  CloseInv'
<1>1. /\ ~isRunning'
      /\ \/ main = "stop" /\ main' = "shut"
         \/ main = "shut" /\ main' = "walk"
      /\ UNCHANGED <<position, acceptor, link, socket, receivers, reader, late>>
  BY DEF StopRunning, ShutListener, threads, peers, CloseInv, Running
<1>2. Held' /\ Running'
  BY <1>1 DEF CloseInv, Held, Running
<1>3. position = 0 /\ position' = 0
  BY <1>1 DEF CloseInv, AtStart
<1>4. \A d \in Descriptor : ~Passed(d)'
  BY <1>1, <1>3, NumberAssumption DEF Passed
<1>5. Walked'
  BY <1>1, <1>4 DEF CloseInv, Walked, Entered
<1> QED BY <1>1, <1>2, <1>3, <1>5
        DEF CloseInv, AtStart, AcceptorDone, TerminatesOnlyIfLate

LEMMA CloseWalk ==
  ASSUME TypeOK, CloseInv, Walk
  PROVE  CloseInv'
<1>1. /\ main = "walk" /\ main' \in {"join", "joinAcceptor"}
      /\ UNCHANGED <<isRunning, acceptor, link, socket, receivers, reader, late>>
  BY DEF Walk
<1>2. ~isRunning
  BY <1>1 DEF CloseInv, Running
<1>3. Held' /\ Running'
  BY <1>1, <1>2 DEF CloseInv, Held, Running
<1>4. Entered' = Entered /\ Entered \subseteq Nat /\ position \in Nat
  BY <1>1, NumberAssumption DEF Entered, TypeOK
<1>5. Walked'
  <2>1. CASE Remaining = {} /\ main' = "joinAcceptor"
    <3>1. \A d \in Entered : Passed(d)
      BY <1>1, <1>4, <2>1 DEF Remaining, Passed
    <3> QED BY <1>1, <1>4, <2>1, <3>1 DEF CloseInv, Walked
  <2>2. ASSUME NEW d \in Remaining, \A e \in Remaining : d <= e,
               position' = d, main' = "join"
        PROVE  Walked'
    <3>1. d \in Entered /\ d \in Nat
      BY <1>4 DEF Remaining
    <3>2. \A e \in Entered : e < d => Passed(e)
      BY <1>1, <1>4, <2>2, <3>1 DEF Remaining, Passed
    <3>3. \A e \in Entered : Passed(e)' => Passed(e)
      BY <2>2, <3>2 DEF Passed
    <3> QED BY <1>1, <1>4, <2>2, <3>1, <3>3 DEF CloseInv, Walked
  <2> QED BY <2>1, <2>2 DEF Walk
<1> QED BY <1>1, <1>3, <1>5
        DEF CloseInv, AtStart, AcceptorDone, TerminatesOnlyIfLate

LEMMA CloseJoin ==
  ASSUME TypeOK, CloseInv, Join
  PROVE  CloseInv'
<1> DEFINE c == receivers[position]
<1>1. /\ main = "join" /\ main' = "walk" /\ reader[c] = "ended"
      /\ reader' = [reader EXCEPT ![c] = "joined"]
      /\ UNCHANGED <<isRunning, position, acceptor, link, socket, receivers,
                     late>>
  BY DEF Join, peers
<1>2. ~isRunning
  BY <1>1 DEF CloseInv, Running
<1>3. DOMAIN reader = Connection
  BY DEF TypeOK
<1>4. Held' /\ Running'
  BY <1>1, <1>2, <1>3 DEF CloseInv, Held, Running
<1>5. Walked'
  <2> SUFFICES ASSUME ~late, NEW d \in Entered, d <= position
               PROVE  reader'[receivers[d]] = "joined"
    <3>1. Entered' = Entered /\ \A d : Passed(d)' <=> d <= position
      BY <1>1 DEF Entered, Passed
    <3> QED BY <1>1, <3>1 DEF CloseInv, Walked
  <2>1. /\ receivers[d] \in Connection
        /\ Entered \subseteq Nat /\ d \in Nat /\ position \in Nat
    <3>1. Descriptor \subseteq Nat /\ d \in Descriptor
      BY NumberAssumption DEF Entered
    <3>2. position \in Nat
      BY <3>1 DEF TypeOK
    <3>3. receivers[d] \in Connection
      BY DEF Entered, TypeOK
    <3> QED BY <3>1, <3>2, <3>3 DEF Entered
  <2>2. CASE d = position
    BY <1>1, <1>3, <2>1, <2>2
  <2>3. CASE d < position
    <3>1. reader[receivers[d]] = "joined"
      BY <1>1, <2>3 DEF CloseInv, Walked, Passed
    <3> QED BY <1>1, <1>3, <2>1, <3>1
  <2> QED BY <2>1, <2>2, <2>3
<1> QED BY <1>1, <1>4, <1>5
        DEF CloseInv, AtStart, AcceptorDone, TerminatesOnlyIfLate

LEMMA CloseEnd ==
  ASSUME TypeOK, CloseInv, JoinAcceptor \/ Destroy
  PROVE  CloseInv'
<1>1. UNCHANGED <<isRunning, position, acceptor, link, socket, receivers,
                  reader, late>>
  BY DEF JoinAcceptor, Destroy, peers
<1>2. CASE JoinAcceptor
  <2>1. main = "joinAcceptor" /\ main' = "closed" /\ acceptor = "done"
    BY <1>2 DEF JoinAcceptor
  <2> QED BY <1>1, <2>1
          DEF CloseInv, Held, Running, AtStart, Walked, AcceptorDone,
              TerminatesOnlyIfLate, Entered, Passed
<1>3. CASE Destroy
  <2>1. main = "closed" /\ main' \in {"gone", "terminated"}
    BY <1>3 DEF Destroy
  <2>2. ASSUME ~late, NEW c \in Connection PROVE ~isLeft(c)
    <3>1. link[c] # "fresh"
      BY <2>1 DEF CloseInv, Held, AcceptorDone
    <3>2. CASE link[c] = "entered"
      BY <2>1, <2>2, <3>2 DEF CloseInv, Walked, Passed, isLeft
    <3>3. CASE link[c] # "entered"
      BY <3>1, <3>3 DEF CloseInv, Held, isLeft
    <3> QED BY <3>2, <3>3
  <2>3. main' = "terminated" => late
    BY <1>3, <2>1, <2>2 DEF Destroy
  <2>4. ~isRunning
    BY <2>1 DEF CloseInv, Running
  <2>5. Walked'
    BY <1>1, <2>1 DEF CloseInv, Walked, Entered, Passed
  <2>6. Held' /\ Running' /\ AtStart' /\ AcceptorDone'
    BY <1>1, <2>1, <2>4 DEF CloseInv, Held, Running, AtStart, AcceptorDone
  <2> QED BY <1>1, <2>3, <2>5, <2>6 DEF CloseInv, TerminatesOnlyIfLate
<1> QED BY <1>2, <1>3

\* The turns of the accept thread without a connection
LEMMA CloseAcceptor ==
  ASSUME CloseInv, Accepting \/ AcceptFails
  PROVE  CloseInv'
<1>1. /\ acceptor \in {"check", "accept"}
      /\ UNCHANGED <<isRunning, main, position, link, socket, receivers, reader,
                     late>>
  BY DEF Accepting, AcceptFails, peers
<1> QED BY <1>1 DEF CloseInv, Held, Running, AtStart, Walked, AcceptorDone,
                   TerminatesOnlyIfLate, Passed, Entered, isOpen

LEMMA CloseStep == TypeOK /\ CloseInv /\ [Next]_vars => CloseInv'
<1> SUFFICES ASSUME TypeOK, CloseInv, [Next]_vars PROVE CloseInv'
  OBVIOUS
<1>0. DOMAIN reader = Connection
  BY DEF TypeOK
<1>1. ASSUME NEW c \in Connection, sendTo(c) \/ Close(c) PROVE CloseInv'
  BY <1>1, CloseQuiet DEF sendTo, Close, Quiet, threads
<1>2. ASSUME NEW c \in Connection, receive(c) PROVE CloseInv'
  <2>1. /\ UNCHANGED <<isRunning, position, acceptor, link, socket, receivers,
                       late>>
        /\ main' = main \/ (main = "waiting" /\ main' = "pop")
    BY <1>2 DEF receive, Check, Recv, Push, Notify, threads, peers
  <2>2. reader[c] \in {"check", "recv", "push", "notify"}
    BY <1>2 DEF receive, Check, Recv, Push, Notify
  <2>3. /\ DOMAIN reader' = Connection
        /\ \A b \in Connection \ {c} : reader'[b] = reader[b]
    BY <1>0, <1>2 DEF receive, Check, Recv, Push, Notify
  <2>4. /\ reader'[c] \notin {"none", "joined"}
        /\ reader'[c] = "ended" => ~isRunning
    <3>1. CASE Check(c) \/ Push(c) \/ Notify(c)
      BY <1>0, <3>1 DEF Check, Push, Notify
    <3>2. CASE Recv(c)
      <4>1. reader'[c] \in {"recv", "check", "push"}
        BY <3>2, RecvReader DEF TypeOK
      <4> QED BY <4>1
    <3> QED BY <1>2, <3>1, <3>2 DEF receive
  <2> QED BY <2>1, <2>2, <2>3, <2>4, CloseReader
<1>3. CASE Wait \/ Wake
  BY <1>3, CloseMain DEF Wait, Wake, peers
<1>4. ASSUME NEW m \in queue, Pop(m) PROVE CloseInv'
  BY <1>4, CloseMain DEF Pop, peers
<1>5. CASE UNCHANGED vars
  BY <1>5, CloseQuiet DEF vars, Quiet
<1> QED BY <1>1, <1>2, <1>3, <1>4, <1>5, CloseConnect, CloseAccept,
           CloseInsert, CloseAcceptor, CloseStop, CloseWalk, CloseJoin, CloseEnd
        DEF Next, Peer, asyncReceive, loop, closeReceiver

(* The process dies of a thread that is not joined only if that was entered  *)
(* into the map after isRunning was set to false: closeReceiver.             *)
THEOREM TerminatesLate == Spec => []TerminatesOnlyIfLate
<1>1. CloseInv => TerminatesOnlyIfLate
  BY DEF CloseInv
<1> QED BY <1>1, CloseInit, CloseStep, TransceiverTypeCorrect, PTL DEF Spec
-----------------------------------------------------------------------------
(* The queue                                                                *)

LEMMA WakeStep ==
  TypeOK /\ CloseInv /\ NoLostWakeup /\ [Next]_vars => NoLostWakeup'
<1> SUFFICES ASSUME TypeOK, CloseInv, NoLostWakeup, [Next]_vars,
                    main' = "waiting", queue' # {}
             PROVE  \E c \in Connection : reader'[c] = "notify"
  BY DEF NoLostWakeup
<1>0. DOMAIN reader = Connection /\ DOMAIN message = Connection
  BY DEF TypeOK
<1>1. ASSUME main = "waiting", queue # {},
             \A c \in Connection : reader[c] = "notify" => reader'[c] = "notify"
      PROVE  \E c \in Connection : reader'[c] = "notify"
  BY <1>1 DEF NoLostWakeup
<1>2. ASSUME NEW c \in Connection, Push(c)
      PROVE  reader'[c] = "notify"
  BY <1>0, <1>2 DEF Push
<1>3. ASSUME NEW c \in Connection,
             createConnection(c) \/ sendTo(c) \/ Close(c) \/ Insert(c)
      PROVE  \E b \in Connection : reader'[b] = "notify"
  BY <1>1, <1>3 DEF createConnection, sendTo, Close, Insert, threads
<1>4. ASSUME NEW c \in Connection, Check(c) \/ Recv(c) \/ Accept(c)
      PROVE  \E b \in Connection : reader'[b] = "notify"
  <2>1. UNCHANGED <<main, queue>>
    BY <1>4 DEF Check, Recv, Accept, threads
  <2>2. reader[c] # "notify"
    BY <1>4 DEF Check, Recv, Accept, CloseInv, Held
  <2>3. \A b \in Connection \ {c} : reader'[b] = reader[b]
    BY <1>0, <1>4, RecvReader DEF Check, Accept
  <2> QED BY <1>1, <2>1, <2>2, <2>3
<1>5. CASE Accepting \/ AcceptFails \/ UNCHANGED vars
  BY <1>1, <1>5 DEF Accepting, AcceptFails, vars
<1>6. CASE Wait
  BY <1>6 DEF Wait, isEmpty
<1>7. ASSUME NEW c \in Connection, Notify(c) PROVE FALSE
  BY <1>7 DEF Notify
<1>8. ASSUME NEW m \in queue, Pop(m) PROVE FALSE
  BY <1>8 DEF Pop
<1>9. CASE Wake \/ closeReceiver
  BY <1>9 DEF Wake, closeReceiver, StopRunning, ShutListener, Walk, Join,
              JoinAcceptor, Destroy
<1> QED BY <1>1, <1>2, <1>3, <1>4, <1>5, <1>6, <1>7, <1>8, <1>9
        DEF Next, Peer, asyncReceive, receive, loop

(* A message is never in the queue while the main thread sleeps and nobody  *)
(* is about to wake it: push and pop of the queue.                          *)
THEOREM WakeupKept == Spec => []NoLostWakeup
<1>1. Init => NoLostWakeup
  BY DEF Init, NoLostWakeup
<1> QED BY <1>1, WakeStep, CloseInit, CloseStep, TransceiverTypeCorrect, PTL
        DEF Spec
-----------------------------------------------------------------------------
(* The lossy channel                                                        *)

Sorted(s) == \A i, j \in DOMAIN s : i <= j => s[i] <= s[j]

(* What was read comes before what was not, all of it in the order sent, and *)
(* a read that is not continued leaves no part of what it has read.          *)
InOrder(c) ==
  /\ Sorted(message[c]) /\ Sorted(stream[c])
  /\ \A i \in DOMAIN message[c] : message[c][i] <= sent[c]
  /\ \A j \in DOMAIN stream[c] : stream[c][j] <= sent[c]
  /\ \A i \in DOMAIN message[c], j \in DOMAIN stream[c] :
       /\ message[c][i] <= stream[c][j]
       /\ reader[c] = "push" => message[c][i] < stream[c][j]

OrderInv == \A c \in Connection : InOrder(c)

LEMMA OrderInit == Init => OrderInv
BY DEF Init, OrderInv, InOrder, Sorted

\* What TypeInv says of the numbers of one connection
LEMMA Texts ==
  ASSUME TypeInv, NEW c \in Connection
  PROVE  /\ message[c] \in Seq(Nat) /\ stream[c] \in Seq(Nat)
         /\ sent[c] \in Nat
         /\ DOMAIN sent = Connection /\ DOMAIN reader = Connection
         /\ DOMAIN message = Connection /\ DOMAIN stream = Connection
         /\ reader[c] = "push" => message[c] # <<>>
<1>1. \A i \in DOMAIN Size[c] : i \in Nat
  BY SizeIsSequence
<1>2. \A s \in Seq(DOMAIN Size[c]) : s \in Seq(Nat)
  BY <1>1
<1> QED BY <1>2 DEF TypeInv, TypeOK, TextPushed

\* sendTo appends units of one number, which is new.
LEMMA SendUnits ==
  ASSUME TypeInv, NEW c \in Connection, sendTo(c)
  PROVE  LET i == sent[c] + 1
             s == stream[c] \o Units(c, i)
         IN /\ sent' = [sent EXCEPT ![c] = i]
            /\ stream' = [stream EXCEPT ![c] = s]
            /\ s \in Seq(Nat)
            /\ Len(s) > Len(stream[c])
            /\ \A j \in DOMAIN s :
                 s[j] = IF j <= Len(stream[c]) THEN stream[c][j] ELSE i
<1> DEFINE i == sent[c] + 1
<1>1. i \in DOMAIN Size[c] /\ i \in Nat /\ Size[c][i] \in Nat \ {0}
  BY SizeIsSequence DEF sendTo
<1>2. /\ Units(c, i) \in Seq(Nat) /\ Len(Units(c, i)) \in Nat \ {0}
      /\ \A k \in 1 .. Len(Units(c, i)) : Units(c, i)[k] = i
  BY <1>1 DEF Units
<1>3. stream[c] \in Seq(Nat)
  BY Texts
<1> HIDE DEF i
<1>4. /\ stream[c] \o Units(c, i) \in Seq(Nat)
      /\ Len(stream[c] \o Units(c, i)) = Len(stream[c]) + Len(Units(c, i))
      /\ \A j \in 1 .. Len(stream[c]) + Len(Units(c, i)) :
           (stream[c] \o Units(c, i))[j] =
             IF j <= Len(stream[c]) THEN stream[c][j]
             ELSE Units(c, i)[j - Len(stream[c])]
  BY <1>2, <1>3, ConcatProperties
<1>5. /\ sent' = [sent EXCEPT ![c] = i]
      /\ stream' = [stream EXCEPT ![c] = stream[c] \o Units(c, i)]
  BY DEF sendTo, i
<1> DEFINE s == stream[c] \o Units(c, i)
<1> HIDE DEF s
<1>6. /\ s \in Seq(Nat) /\ Len(s) = Len(stream[c]) + Len(Units(c, i))
      /\ \A j \in 1 .. Len(s) :
           s[j] = IF j <= Len(stream[c]) THEN stream[c][j]
                  ELSE Units(c, i)[j - Len(stream[c])]
  BY <1>4 DEF s
<1>7. Len(s) > Len(stream[c]) /\ DOMAIN s = 1 .. Len(s)
  BY <1>2, <1>3, <1>6
<1>8. ASSUME NEW j \in DOMAIN s
      PROVE  s[j] = IF j <= Len(stream[c]) THEN stream[c][j] ELSE i
  <2>1. CASE j <= Len(stream[c])
    BY <1>6, <1>7, <2>1
  <2>2. CASE ~(j <= Len(stream[c]))
    <3>1. j - Len(stream[c]) \in 1 .. Len(Units(c, i))
      BY <1>2, <1>3, <1>6, <1>7, <2>2
    <3> QED BY <1>2, <1>6, <1>7, <2>2, <3>1
  <2> QED BY <2>1, <2>2
<1> QED BY <1>5, <1>6, <1>7, <1>8 DEF s, i

\* Recv moves units from the stream to the text.
LEMMA RecvUnits ==
  ASSUME TypeInv, NEW c \in Connection, Recv(c)
  PROVE  \E n \in 0 .. Len(stream[c]) :
           /\ reader'[c] = "push" => n = Len(stream[c])
           /\ DOMAIN message'[c] = 1 .. Len(message[c]) + n
           /\ DOMAIN stream'[c] = 1 .. Len(stream[c]) - n
           /\ \A i \in DOMAIN message'[c] :
                message'[c][i] = IF i <= Len(message[c]) THEN message[c][i]
                                 ELSE stream[c][i - Len(message[c])]
           /\ \A j \in DOMAIN stream'[c] : stream'[c][j] = stream[c][n + j]
<1> DEFINE n == IF Len(stream[c]) < Buffer THEN Len(stream[c]) ELSE Buffer
           front == SubSeq(stream[c], 1, n)
           rest == SubSeq(stream[c], n + 1, Len(stream[c]))
           text == message[c] \o front
<1>1. /\ stream[c] \in Seq(Nat) /\ message[c] \in Seq(Nat)
      /\ DOMAIN message = Connection /\ DOMAIN stream = Connection
      /\ DOMAIN reader = Connection
  BY Texts
<1>2. n \in 0 .. Len(stream[c]) /\ (n # Buffer => n = Len(stream[c]))
  BY <1>1, SizeAssumption
<1>3. reader'[c] = "push" => ~ReadsOn(n)
  BY <1>1 DEF Recv
<1>4. message'[c] = text /\ stream'[c] = rest
  BY <1>1 DEF Recv
<1> HIDE DEF n
<1>5. /\ front \in Seq(Nat) /\ Len(front) = n
      /\ \A i \in 1 .. n : front[i] = stream[c][i]
  <2>1. n \in Int /\ \A i \in 1 .. n : stream[c][i] \in Nat
    BY <1>1, <1>2
  <2>2. /\ front \in Seq(Nat)
        /\ Len(front) = IF 1 <= n THEN n - 1 + 1 ELSE 0
        /\ \A i \in 1 .. n - 1 + 1 : front[i] = stream[c][1 + i - 1]
    BY <2>1, SubSeqProperties
  <2> HIDE DEF front
  <2>3. \A i \in 1 .. n : 1 + i - 1 = i
    OBVIOUS
  <2> QED BY <1>2, <2>2, <2>3
<1>6. /\ rest \in Seq(Nat) /\ Len(rest) = Len(stream[c]) - n
      /\ \A j \in 1 .. Len(stream[c]) - n : rest[j] = stream[c][n + j]
  <2> DEFINE m == Len(stream[c])
  <2>0. m \in Nat
    BY <1>1
  <2>1. n + 1 \in Int /\ m \in Int /\ \A i \in n + 1 .. m : stream[c][i] \in Nat
    BY <1>1, <1>2
  <2>2. /\ rest \in Seq(Nat)
        /\ Len(rest) = IF n + 1 <= m THEN m - (n + 1) + 1 ELSE 0
        /\ \A j \in 1 .. m - (n + 1) + 1 : rest[j] = stream[c][n + 1 + j - 1]
    BY <2>1, SubSeqProperties
  <2> HIDE DEF rest, m
  <2>3. m - (n + 1) + 1 = m - n /\ \A j \in 1 .. m - n : n + 1 + j - 1 = n + j
    BY <1>2, <2>0 DEF m
  <2>4. n <= m
    BY <1>2, <2>0 DEF m
  <2> QED BY <1>2, <2>0, <2>2, <2>3, <2>4 DEF m
<1> HIDE DEF front, rest
<1>7. /\ text \in Seq(Nat) /\ Len(text) = Len(message[c]) + n
      /\ \A i \in 1 .. Len(message[c]) + n :
           text[i] = IF i <= Len(message[c]) THEN message[c][i]
                     ELSE front[i - Len(message[c])]
  BY <1>1, <1>5, ConcatProperties
<1> HIDE DEF text
<1>8. \A i \in 1 .. Len(message[c]) + n :
        i <= Len(message[c]) \/ i - Len(message[c]) \in 1 .. n
  BY <1>1, <1>2
<1>9. \A i \in 1 .. Len(message[c]) + n :
        text[i] = IF i <= Len(message[c]) THEN message[c][i]
                  ELSE stream[c][i - Len(message[c])]
  BY <1>5, <1>7, <1>8
<1>10. /\ Len(message[c]) + n \in Nat /\ Len(stream[c]) - n \in Nat
       /\ DOMAIN text = 1 .. Len(text) /\ DOMAIN rest = 1 .. Len(rest)
  BY <1>1, <1>2, <1>6, <1>7
<1>11. /\ DOMAIN text = 1 .. Len(message[c]) + n
       /\ DOMAIN rest = 1 .. Len(stream[c]) - n
  BY <1>6, <1>7, <1>10
<1>12. reader'[c] = "push" => n = Len(stream[c])
  BY <1>2, <1>3 DEF ReadsOn
<1>13. \A j \in DOMAIN rest : rest[j] = stream[c][n + j]
  BY <1>6, <1>11
<1> QED BY <1>2, <1>4, <1>9, <1>11, <1>12, <1>13

LEMMA OrderStep == TypeInv /\ OrderInv /\ [Next]_vars => OrderInv'
<1> SUFFICES ASSUME TypeInv, OrderInv, [Next]_vars, NEW b \in Connection
             PROVE  InOrder(b)'
  BY DEF OrderInv
<1>0. /\ message[b] \in Seq(Nat) /\ stream[b] \in Seq(Nat) /\ sent[b] \in Nat
      /\ DOMAIN sent = Connection /\ DOMAIN reader = Connection
      /\ DOMAIN message = Connection /\ DOMAIN stream = Connection
  BY Texts
<1>1. InOrder(b)
  BY DEF OrderInv
<1>2. ASSUME UNCHANGED <<message[b], stream[b], sent[b]>>,
             reader'[b] = "push" => reader[b] = "push"
      PROVE  InOrder(b)'
  BY <1>1, <1>2 DEF InOrder, Sorted
<1>3. ASSUME NEW c \in Connection, sendTo(c) PROVE InOrder(b)'
  <2>1. CASE b # c
    BY <1>0, <1>2, <1>3, <2>1 DEF sendTo
  <2>2. CASE b = c
    <3> DEFINE s == stream[b] \o Units(b, sent[b] + 1)
    <3>1. /\ sent'[b] = sent[b] + 1 /\ stream'[b] = s
          /\ s \in Seq(Nat) /\ Len(s) > Len(stream[b])
          /\ \A j \in DOMAIN s :
               s[j] = IF j <= Len(stream[b]) THEN stream[b][j] ELSE sent[b] + 1
      BY <1>0, <1>3, <2>2, SendUnits
    <3>2. message'[b] = message[b] /\ reader'[b] = reader[b]
      BY <1>3 DEF sendTo
    <3> HIDE DEF s
    <3>3. \A j \in DOMAIN s :
            /\ j \in Nat /\ s[j] \in Nat
            /\ \/ j \in DOMAIN stream[b] /\ s[j] = stream[b][j]
               \/ j > Len(stream[b]) /\ s[j] = sent[b] + 1
      BY <1>0, <3>1
    <3>4. Sorted(s) /\ \A j \in DOMAIN s : s[j] <= sent[b] + 1
      <4>1. \A j \in DOMAIN stream[b] :
              /\ j \in Nat /\ j <= Len(stream[b])
              /\ stream[b][j] \in Nat /\ stream[b][j] <= sent[b]
        BY <1>0, <1>1 DEF InOrder
      <4>2. \A j \in DOMAIN s : s[j] <= sent[b] + 1
        BY <1>0, <3>3, <4>1
      <4> SUFFICES ASSUME NEW i \in DOMAIN s, NEW j \in DOMAIN s, i <= j
                   PROVE  s[i] <= s[j]
        BY <4>2 DEF Sorted
      <4>3. CASE j \in DOMAIN stream[b] /\ s[j] = stream[b][j]
        <5>1. i \in DOMAIN stream[b] /\ s[i] = stream[b][i]
          BY <1>0, <3>3, <4>1, <4>3
        <5> QED BY <1>1, <4>3, <5>1 DEF InOrder, Sorted
      <4>4. CASE s[j] = sent[b] + 1
        BY <4>2, <4>4
      <4> QED BY <3>3, <4>3, <4>4
    <3>5. \A i \in DOMAIN message[b] : message[b][i] \in Nat
      BY <1>0
    <3>6. \A i \in DOMAIN message[b] : message[b][i] <= sent[b]
      BY <1>1 DEF InOrder
    <3>7. \A i \in DOMAIN message[b], j \in DOMAIN s :
            /\ message[b][i] <= s[j]
            /\ reader[b] = "push" => message[b][i] < s[j]
      BY <1>0, <1>1, <3>3, <3>5, <3>6 DEF InOrder
    <3>8. \A i \in DOMAIN message[b] : message[b][i] <= sent[b] + 1
      BY <1>0, <3>5, <3>6
    <3> QED BY <1>1, <3>1, <3>2, <3>4, <3>7, <3>8 DEF InOrder
  <2> QED BY <2>1, <2>2
<1>4. ASSUME NEW c \in Connection, Recv(c) PROVE InOrder(b)'
  <2>1. CASE b # c
    BY <1>0, <1>2, <1>4, <2>1 DEF Recv, peers
  <2>2. CASE b = c
    <3>1. PICK n \in 0 .. Len(stream[b]) :
            /\ reader'[b] = "push" => n = Len(stream[b])
            /\ DOMAIN message'[b] = 1 .. Len(message[b]) + n
            /\ DOMAIN stream'[b] = 1 .. Len(stream[b]) - n
            /\ \A i \in DOMAIN message'[b] :
                 message'[b][i] = IF i <= Len(message[b]) THEN message[b][i]
                                  ELSE stream[b][i - Len(message[b])]
            /\ \A j \in DOMAIN stream'[b] : stream'[b][j] = stream[b][n + j]
      BY <1>4, <2>2, RecvUnits
    <3>2. sent'[b] = sent[b]
      BY <1>4 DEF Recv, peers
    <3>3. \A i \in DOMAIN message'[b] :
            \/ i \in DOMAIN message[b] /\ message'[b][i] = message[b][i]
            \/ /\ i > Len(message[b]) /\ i - Len(message[b]) \in 1 .. n
               /\ message'[b][i] = stream[b][i - Len(message[b])]
      BY <1>0, <3>1
    <3>4. \A j \in DOMAIN stream'[b] :
            /\ j \in Nat /\ n + j \in DOMAIN stream[b] /\ n + j > n
            /\ stream'[b][j] = stream[b][n + j]
      BY <1>0, <3>1
    <3>5. /\ Len(message[b]) \in Nat /\ Len(stream[b]) \in Nat
          /\ 1 .. n \subseteq DOMAIN stream[b]
          /\ DOMAIN message'[b] \subseteq Nat
          /\ DOMAIN message[b] = 1 .. Len(message[b])
          /\ DOMAIN stream[b] = 1 .. Len(stream[b])
      BY <1>0, <3>1
    <3>6. Sorted(stream'[b])
      BY <1>1, <3>4 DEF InOrder, Sorted
    <3>7. Sorted(message'[b])
      <4> SUFFICES ASSUME NEW i \in DOMAIN message'[b],
                          NEW j \in DOMAIN message'[b], i <= j
                   PROVE  message'[b][i] <= message'[b][j]
        BY DEF Sorted
      <4>1. CASE i \in DOMAIN message[b] /\ j \in DOMAIN message[b]
        BY <1>1, <3>3, <3>5, <4>1 DEF InOrder, Sorted
      <4>2. CASE i \in DOMAIN message[b] /\ j \notin DOMAIN message[b]
        BY <1>1, <3>3, <3>5, <4>2 DEF InOrder
      <4>3. CASE i \notin DOMAIN message[b]
        <5>1. /\ i - Len(message[b]) \in DOMAIN stream[b]
              /\ message'[b][i] = stream[b][i - Len(message[b])]
          BY <3>3, <3>5, <4>3
        <5>2. j \notin DOMAIN message[b] /\ i \in Nat /\ j \in Nat
          BY <3>3, <3>5, <4>3
        <5>3. /\ j - Len(message[b]) \in DOMAIN stream[b]
              /\ message'[b][j] = stream[b][j - Len(message[b])]
          BY <3>3, <3>5, <5>2
        <5>4. i - Len(message[b]) <= j - Len(message[b])
          BY <3>5, <5>2
        <5> QED BY <1>1, <5>1, <5>3, <5>4 DEF InOrder, Sorted
      <4> QED BY <4>1, <4>2, <4>3
    <3>8. \A i \in DOMAIN message'[b], j \in DOMAIN stream'[b] :
            /\ message'[b][i] <= stream'[b][j]
            /\ reader'[b] = "push" => message'[b][i] < stream'[b][j]
      <4> SUFFICES ASSUME NEW i \in DOMAIN message'[b], NEW j \in DOMAIN stream'[b]
                   PROVE  /\ message'[b][i] <= stream'[b][j]
                          /\ reader'[b] # "push"
        OBVIOUS
      <4>1. reader'[b] # "push"
        <5>1. DOMAIN stream'[b] = 1 .. Len(stream[b]) - n
          BY <3>1
        <5>2. Len(stream[b]) - n > 0
          BY <3>5, <5>1
        <5>3. n # Len(stream[b])
          BY <3>5, <5>2
        <5> QED BY <3>1, <5>3
      <4>2. CASE i \in DOMAIN message[b]
        <5>1. message'[b][i] = message[b][i]
          BY <3>3, <3>5, <4>2
        <5>2. n + j \in DOMAIN stream[b] /\ stream'[b][j] = stream[b][n + j]
          BY <3>4
        <5> QED BY <1>1, <4>1, <4>2, <5>1, <5>2 DEF InOrder
      <4>3. CASE i \notin DOMAIN message[b]
        <5>1. /\ i - Len(message[b]) \in 1 .. n
              /\ message'[b][i] = stream[b][i - Len(message[b])]
          BY <3>3, <4>3
        <5>2. i - Len(message[b]) \in DOMAIN stream[b]
          BY <3>5, <5>1
        <5>3. i - Len(message[b]) <= n + j
          BY <3>4, <5>1
        <5> QED BY <1>1, <3>4, <4>1, <5>1, <5>2, <5>3 DEF InOrder, Sorted
      <4> QED BY <4>1, <4>2, <4>3
    <3>9. /\ \A i \in DOMAIN message'[b] : message'[b][i] <= sent[b]
          /\ \A j \in DOMAIN stream'[b] : stream'[b][j] <= sent[b]
      <4>1. \A j \in DOMAIN stream[b] : stream[b][j] <= sent[b]
        BY <1>1 DEF InOrder
      <4>2. \A i \in DOMAIN message[b] : message[b][i] <= sent[b]
        BY <1>1 DEF InOrder
      <4> QED BY <3>3, <3>4, <3>5, <4>1, <4>2
    <3> QED BY <3>2, <3>6, <3>7, <3>8, <3>9 DEF InOrder
  <2> QED BY <2>1, <2>2
<1>5. ASSUME NEW c \in Connection, Push(c) PROVE InOrder(b)'
  <2>1. CASE b # c
    BY <1>0, <1>2, <1>5, <2>1 DEF Push, peers
  <2>2. CASE b = c
    <3>1. /\ message'[b] = <<>> /\ reader'[b] = "notify"
          /\ stream'[b] = stream[b] /\ sent'[b] = sent[b]
      BY <1>0, <1>5, <2>2 DEF Push, peers
    <3> QED BY <1>1, <3>1 DEF InOrder, Sorted
  <2> QED BY <2>1, <2>2
<1>6. ASSUME NEW c \in Connection, Check(c) \/ Notify(c) \/ Accept(c)
      PROVE  InOrder(b)'
  BY <1>0, <1>2, <1>6 DEF Check, Notify, Accept, peers
<1>7. ASSUME NEW c \in Connection, createConnection(c) \/ Close(c) \/ Insert(c)
      PROVE  InOrder(b)'
  BY <1>2, <1>7 DEF createConnection, Close, Insert
<1>8. CASE Accepting \/ AcceptFails \/ Wait \/ Wake \/ UNCHANGED vars
  BY <1>2, <1>8 DEF Accepting, AcceptFails, Wait, Wake, vars, peers
<1>9. ASSUME NEW m \in queue, Pop(m) PROVE InOrder(b)'
  BY <1>2, <1>9 DEF Pop, peers
<1>10. CASE closeReceiver
  <2>1. /\ UNCHANGED <<message, stream, sent>>
        /\ reader'[b] = "push" => reader[b] = "push"
    BY <1>0, <1>10 DEF closeReceiver, StopRunning, ShutListener, Walk, Join,
                       JoinAcceptor, Destroy, peers
  <2> QED BY <1>2, <2>1
<1> QED BY <1>3, <1>4, <1>5, <1>6, <1>7, <1>8, <1>9, <1>10
        DEF Next, Peer, asyncReceive, receive, loop

\* The numbers of a sequence
Numbers(s) == {s[k] : k \in DOMAIN s}

LEMMA ChannelStep ==
  ASSUME TypeInv, OrderInv, Next
  PROVE  [Channel!Next]_<<sent, waiting, queue>>
<1> DEFINE Mapped(c) == Numbers(message[c]) \cup Numbers(stream[c])
<1>0. /\ waiting = [c \in Connection |-> Mapped(c)]
      /\ DOMAIN sent = Connection /\ DOMAIN message = Connection
      /\ DOMAIN stream = Connection
  BY DEF waiting, TypeInv, TypeOK, Numbers
<1>1. ASSUME UNCHANGED <<message, stream, sent, queue>>
      PROVE  UNCHANGED <<sent, waiting, queue>>
  BY <1>1 DEF waiting
<1>2. ASSUME NEW c \in Connection, sendTo(c) PROVE Channel!Send(c)
  <2> DEFINE s == stream[c] \o Units(c, sent[c] + 1)
  <2>1. /\ sent' = [sent EXCEPT ![c] = sent[c] + 1]
        /\ stream' = [stream EXCEPT ![c] = s]
        /\ s \in Seq(Nat) /\ Len(s) > Len(stream[c])
        /\ \A j \in DOMAIN s :
             s[j] = IF j <= Len(stream[c]) THEN stream[c][j] ELSE sent[c] + 1
    BY <1>2, SendUnits
  <2>2. message' = message /\ queue' = queue
    BY <1>2 DEF sendTo
  <2>3. stream[c] \in Seq(Nat)
    BY Texts
  <2> HIDE DEF s
  <2>4. Numbers(s) = Numbers(stream[c]) \cup {sent[c] + 1}
    <3>1. Len(s) \in DOMAIN s /\ s[Len(s)] = sent[c] + 1
      BY <2>1, <2>3
    <3>2. \A j \in DOMAIN stream[c] : j \in DOMAIN s /\ s[j] = stream[c][j]
      BY <2>1, <2>3
    <3>3. \A j \in DOMAIN s :
            s[j] = sent[c] + 1 \/ (j \in DOMAIN stream[c] /\ s[j] = stream[c][j])
      BY <2>1, <2>3
    <3> QED BY <3>1, <3>2, <3>3 DEF Numbers
  <2>5. waiting' = [waiting EXCEPT ![c] = @ \cup {sent[c] + 1}]
    <3>1. waiting' = [b \in Connection |-> Mapped(b)']
      BY DEF waiting, Numbers
    <3>2. \A b \in Connection \ {c} : Mapped(b)' = Mapped(b)
      BY <1>0, <2>1, <2>2
    <3>3. Mapped(c)' = Mapped(c) \cup {sent[c] + 1}
      BY <1>0, <2>1, <2>2, <2>4
    <3> HIDE DEF Mapped
    <3> QED BY <1>0, <3>1, <3>2, <3>3
  <2> QED BY <2>1, <2>2, <2>5 DEF Channel!Send
<1>3. ASSUME NEW c \in Connection, Recv(c)
      PROVE  UNCHANGED <<sent, waiting, queue>>
  <2>1. PICK n \in 0 .. Len(stream[c]) :
          /\ DOMAIN message'[c] = 1 .. Len(message[c]) + n
          /\ DOMAIN stream'[c] = 1 .. Len(stream[c]) - n
          /\ \A i \in DOMAIN message'[c] :
               message'[c][i] = IF i <= Len(message[c]) THEN message[c][i]
                                ELSE stream[c][i - Len(message[c])]
          /\ \A j \in DOMAIN stream'[c] : stream'[c][j] = stream[c][n + j]
    BY <1>3, RecvUnits
  <2>2. /\ Len(message[c]) \in Nat /\ Len(stream[c]) \in Nat
        /\ DOMAIN message[c] = 1 .. Len(message[c])
        /\ DOMAIN stream[c] = 1 .. Len(stream[c])
    BY Texts
  <2>3. Mapped(c)' \subseteq Mapped(c)
    <3>1. \A i \in DOMAIN message'[c] :
            \/ i \in DOMAIN message[c] /\ message'[c][i] = message[c][i]
            \/ /\ i - Len(message[c]) \in DOMAIN stream[c]
               /\ message'[c][i] = stream[c][i - Len(message[c])]
      BY <2>1, <2>2
    <3>2. \A j \in DOMAIN stream'[c] :
            n + j \in DOMAIN stream[c] /\ stream'[c][j] = stream[c][n + j]
      BY <2>1, <2>2
    <3> QED BY <3>1, <3>2 DEF Numbers
  <2>4. Mapped(c) \subseteq Mapped(c)'
    <3>1. \A i \in DOMAIN message[c] :
            i \in DOMAIN message'[c] /\ message'[c][i] = message[c][i]
      BY <2>1, <2>2
    <3>2. ASSUME NEW j \in DOMAIN stream[c]
          PROVE  stream[c][j] \in Mapped(c)'
      <4>1. CASE j <= n
        <5> DEFINE i == Len(message[c]) + j
        <5>1. i \in DOMAIN message'[c] /\ ~(i <= Len(message[c]))
          BY <2>1, <2>2, <4>1
        <5>2. i - Len(message[c]) = j
          BY <2>2
        <5>3. message'[c][i] = stream[c][j]
          BY <2>1, <5>1, <5>2
        <5> QED BY <5>1, <5>3 DEF Numbers
      <4>2. CASE j > n
        <5>1. j - n \in DOMAIN stream'[c] /\ n + (j - n) = j
          BY <2>1, <2>2, <4>2
        <5>2. stream'[c][j - n] = stream[c][j]
          BY <2>1, <5>1
        <5> QED BY <5>1, <5>2 DEF Numbers
      <4> QED BY <2>2, <4>1, <4>2
    <3> QED BY <3>1, <3>2 DEF Numbers
  <2>5. /\ \A b \in Connection \ {c} : message'[b] = message[b] /\ stream'[b] = stream[b]
        /\ sent' = sent /\ queue' = queue
    BY <1>0, <1>3 DEF Recv, peers
  <2>6. waiting' = [b \in Connection |-> Mapped(b)']
    BY DEF waiting, Numbers
  <2>7. \A b \in Connection : Mapped(b)' = Mapped(b)
    BY <2>3, <2>4, <2>5
  <2> HIDE DEF Mapped
  <2> QED BY <1>0, <2>5, <2>6, <2>7
<1>4. ASSUME NEW c \in Connection, Push(c) PROVE Channel!Deliver(c)
  <2> DEFINE first == Head(message[c])
             last == message[c][Len(message[c])]
  <2>1. /\ message[c] \in Seq(Nat) /\ stream[c] \in Seq(Nat)
        /\ message[c] # <<>> /\ reader[c] = "push"
    BY <1>4, Texts DEF Push
  <2>2. /\ message' = [message EXCEPT ![c] = <<>>]
        /\ queue' = queue \cup {<<c, first>>}
        /\ stream' = stream /\ sent' = sent
    BY <1>4 DEF Push, Parsed, peers
  <2>3. /\ 1 \in DOMAIN message[c] /\ first = message[c][1]
        /\ Len(message[c]) \in DOMAIN message[c]
        /\ \A i \in DOMAIN message[c] :
             /\ message[c][i] \in Nat
             /\ 1 <= i /\ i <= Len(message[c])
        /\ \A j \in DOMAIN stream[c] : stream[c][j] \in Nat
    BY <2>1
  <2>4. InOrder(c)
    BY DEF OrderInv
  <2>5. first \in Mapped(c) /\ last \in Mapped(c)
    BY <2>3 DEF Numbers
  <2> HIDE DEF first, last
  <2>6. \A i \in DOMAIN message[c] : first <= message[c][i] /\ message[c][i] <= last
    BY <2>3, <2>4 DEF InOrder, Sorted, first, last
  <2>7. \A j \in DOMAIN stream[c] : first <= stream[c][j] /\ last < stream[c][j]
    BY <2>1, <2>3, <2>4 DEF InOrder, first, last
  <2>8. \A k \in Mapped(c) : first <= k
    BY <2>6, <2>7 DEF Numbers
  <2>9. {k \in Mapped(c) : last < k} = Numbers(stream[c])
    <3>1. last \in Nat
      BY <2>3 DEF last
    <3>2. \A i \in DOMAIN message[c] : ~(last < message[c][i])
      BY <2>3, <2>6, <3>1
    <3> QED BY <2>7, <3>2 DEF Numbers
  <2>10. waiting' = [waiting EXCEPT ![c] = {k \in @ : last < k}]
    <3>1. waiting' = [b \in Connection |-> Mapped(b)']
      BY DEF waiting, Numbers
    <3>2. \A b \in Connection \ {c} : Mapped(b)' = Mapped(b)
      BY <1>0, <2>2
    <3>3. Mapped(c)' = Numbers(stream[c])
      BY <1>0, <2>2 DEF Numbers
    <3> HIDE DEF Mapped
    <3> QED BY <1>0, <2>9, <3>1, <3>2, <3>3
  <2>11. waiting[c] = Mapped(c)
    BY <1>0
  <2> QED BY <2>2, <2>5, <2>8, <2>10, <2>11 DEF Channel!Deliver
<1>5. ASSUME NEW m \in queue, Pop(m) PROVE Channel!Take
  BY <1>5, <1>1 DEF Pop, peers, waiting, Channel!Take
<1>6. ASSUME NEW c \in Connection,
             \/ createConnection(c) \/ Close(c) \/ Accept(c) \/ Insert(c)
             \/ Check(c) \/ Notify(c)
      PROVE  UNCHANGED <<message, stream, sent, queue>>
  BY <1>6 DEF createConnection, Close, Accept, Insert, Check, Notify, peers
<1>7. CASE Accepting \/ AcceptFails \/ Wait \/ Wake \/ closeReceiver
  BY <1>1, <1>7
     DEF Accepting, AcceptFails, Wait, Wake, closeReceiver, StopRunning,
         ShutListener, Walk, Join, JoinAcceptor, Destroy, peers
<1> HIDE DEF Mapped
<1> QED BY <1>1, <1>2, <1>3, <1>4, <1>5, <1>6, <1>7
        DEF Next, Peer, asyncReceive, receive, loop, Channel!Next

(* Whatever sizes messages and buffer have, a connection keeps the order and *)
(* repeats nothing; what is lost was read together with a message sent       *)
(* before it, which is queued: sendTo, receive and the queue.                *)
THEOREM TransceiverImplementsChannel == Spec => ImplementsLossyChannel
<1>1. Init => Channel!Init
  BY DEF Init, Channel!Init, waiting
<1>2. TypeInv /\ OrderInv /\ [Next]_vars => [Channel!Next]_<<sent, waiting, queue>>
  <2>1. CASE UNCHANGED vars
    BY <2>1 DEF vars, waiting
  <2> QED BY <2>1, ChannelStep
<1> QED BY <1>1, <1>2, TypeInit, TypeStep, OrderInit, OrderStep, PTL
        DEF Spec, ImplementsLossyChannel, Channel!Spec

-----------------------------------------------------------------------------
(* Whole messages                                                           *)

Places(s, i) == {k \in DOMAIN s : s[k] = i}
Count(s, i) == Cardinality(Places(s, i))

\* Of every message of which something is there, all is there.
Whole(c) ==
  \A i \in Numbers(message[c]) \cup Numbers(stream[c]) :
    Count(message[c], i) + Count(stream[c], i) = Size[c][i]

WholeInv == \A c \in Connection : Whole(c)

LEMMA Shifted ==
  ASSUME NEW S \in SUBSET Int, IsFiniteSet(S), NEW m \in Int, NEW T,
         \A k : k \in T <=> k \in Int /\ k - m \in S
  PROVE  IsFiniteSet(T) /\ Cardinality(T) = Cardinality(S)
<1> DEFINE f == [k \in S |-> k + m]
<1>1. f \in [S -> T]
  <2>1. ASSUME NEW k \in S PROVE k + m \in T
    <3>1. k + m \in Int /\ (k + m) - m = k
      OBVIOUS
    <3> QED BY <3>1
  <2> QED BY <2>1
<1>2. \A j, k \in S : f[j] = f[k] => j = k
  OBVIOUS
<1>3. ASSUME NEW t \in T PROVE \E k \in S : f[k] = t
  <2>1. t \in Int /\ t - m \in S
    OBVIOUS
  <2>2. f[t - m] = t
    BY <2>1
  <2> QED BY <2>1, <2>2
<1>4. f \in Bijection(S, T)
  <2> HIDE DEF f
  <2> QED BY <1>1, <1>2, <1>3
          DEF Bijection, Injection, Surjection, IsInjective
<1>5. ExistsBijection(S, T)
  BY <1>4 DEF ExistsBijection
<1> QED BY <1>5, FS_Bijection

LEMMA PlacesFinite ==
  ASSUME NEW n \in Nat, NEW s, DOMAIN s = 1 .. n, NEW i
  PROVE  /\ Places(s, i) \in SUBSET Int /\ IsFiniteSet(Places(s, i))
         /\ Count(s, i) \in Nat
<1>1. IsFiniteSet(1 .. n)
  BY FS_Interval
<1>2. Places(s, i) \in SUBSET (1 .. n) /\ 1 .. n \subseteq Int
  BY DEF Places
<1>3. IsFiniteSet(Places(s, i))
  BY <1>1, <1>2, FS_Subset
<1> QED BY <1>2, <1>3, FS_CardinalityType DEF Count

LEMMA NoPlace ==
  ASSUME NEW s, NEW i, \A k \in DOMAIN s : s[k] # i
  PROVE  Count(s, i) = 0
<1>1. Places(s, i) = {}
  BY DEF Places
<1> QED BY <1>1, FS_EmptySet DEF Count

\* u is s and t behind it.
Joined(u, s, a, t, b) ==
  /\ DOMAIN s = 1 .. a /\ DOMAIN t = 1 .. b /\ DOMAIN u = 1 .. (a + b)
  /\ \A k \in 1 .. a : u[k] = s[k]
  /\ \A k \in 1 .. b : u[a + k] = t[k]

LEMMA JoinedCount ==
  ASSUME NEW a \in Nat, NEW b \in Nat, NEW s, NEW t, NEW u,
         Joined(u, s, a, t, b), NEW i
  PROVE  Count(u, i) = Count(s, i) + Count(t, i)
<1> DEFINE S == Places(s, i)
           B == Places(t, i)
           T == {k \in Places(u, i) : k > a}
<1> USE DEF Joined
<1>1. /\ S \in SUBSET Int /\ IsFiniteSet(S)
      /\ B \in SUBSET Int /\ IsFiniteSet(B)
      /\ Count(s, i) \in Nat /\ Count(t, i) \in Nat
  BY PlacesFinite
<1>2. ASSUME NEW k PROVE k \in T <=> k \in Int /\ k - a \in B
  <2>1. ASSUME k \in T PROVE k \in Int /\ k - a \in B
    <3>1. k \in 1 .. (a + b) /\ u[k] = i /\ k > a
      BY <2>1 DEF Places
    <3>2. k - a \in 1 .. b /\ a + (k - a) = k
      BY <3>1
    <3>3. t[k - a] = i
      BY <3>1, <3>2
    <3> QED BY <3>1, <3>2, <3>3 DEF Places
  <2>2. ASSUME k \in Int, k - a \in B PROVE k \in T
    <3>1. k - a \in 1 .. b /\ t[k - a] = i
      BY <2>2 DEF Places
    <3>2. k \in 1 .. (a + b) /\ k > a /\ a + (k - a) = k
      BY <2>2, <3>1
    <3>3. u[k] = i
      BY <3>1, <3>2
    <3> QED BY <3>2, <3>3 DEF Places
  <2> QED BY <2>1, <2>2
<1>3. Places(u, i) = S \cup T /\ S \cap T = {}
  <2>1. ASSUME NEW k \in S PROVE k \in Places(u, i) /\ k \notin T
    BY DEF Places
  <2>2. ASSUME NEW k \in Places(u, i), k \notin T PROVE k \in S
    BY <2>2 DEF Places
  <2> QED BY <2>1, <2>2
<1> HIDE DEF S, B, T
<1>4. IsFiniteSet(T) /\ Cardinality(T) = Cardinality(B)
  BY <1>1, <1>2, Shifted
<1>5. /\ Cardinality(S \cup T) =
           Cardinality(S) + Cardinality(T) - Cardinality(S \cap T)
      /\ Cardinality({}) = 0
  BY <1>1, <1>4, FS_Union, FS_EmptySet
<1>6. Cardinality(S \cup T) = Cardinality(S) + Cardinality(B)
  <2>1. Cardinality(S) \in Nat /\ Cardinality(B) \in Nat
    BY <1>1, FS_CardinalityType
  <2>2. Cardinality(S \cap T) = 0 /\ Cardinality(T) = Cardinality(B)
    BY <1>3, <1>4, <1>5, Zenon
  <2> QED BY <1>5, <2>1, <2>2
<1> QED BY <1>3, <1>6 DEF Count, S, B

LEMMA UnitsCount ==
  ASSUME NEW c \in Connection, NEW j \in DOMAIN Size[c], NEW i
  PROVE  Count(Units(c, j), i) = IF i = j THEN Size[c][j] ELSE 0
<1>1. Size[c][j] \in Nat /\ Size[c][j] > 0
  BY SizeIsSequence
<1>2. CASE i = j
  <2>1. Places(Units(c, j), i) = 1 .. Size[c][j]
    BY <1>2 DEF Places, Units
  <2>2. Cardinality(1 .. Size[c][j]) =
          IF 1 > Size[c][j] THEN 0 ELSE Size[c][j] - 1 + 1
    <3>1. 1 \in Int /\ Size[c][j] \in Int
      BY <1>1
    <3> QED BY <3>1, FS_Interval, Zenon
  <2>3. Cardinality(1 .. Size[c][j]) = Size[c][j]
    BY <1>1, <2>2
  <2> QED BY <1>2, <2>1, <2>3 DEF Count
<1>3. CASE i # j
  <2>1. \A k \in DOMAIN Units(c, j) : Units(c, j)[k] # i
    BY <1>3 DEF Units
  <2> QED BY <1>3, <2>1, NoPlace
<1> QED BY <1>2, <1>3

LEMMA WholeInit == Init => WholeInv
BY DEF Init, WholeInv, Whole, Numbers

\* What sendTo appends is a whole message with a new number.
LEMMA WholeSend ==
  ASSUME TypeInv, OrderInv, NEW c \in Connection, Whole(c), sendTo(c)
  PROVE  Whole(c)'
<1> DEFINE j == sent[c] + 1
           s == stream[c]
           t == Units(c, j)
<1>1. /\ j \in DOMAIN Size[c] /\ message'[c] = message[c]
      /\ stream'[c] = s \o t /\ sent[c] \in Nat /\ j \in Nat
      /\ s \in Seq(Nat) /\ message[c] \in Seq(Nat)
  <2>1. /\ sent[c] \in Nat /\ stream[c] \in Seq(Nat) /\ message[c] \in Seq(Nat)
        /\ DOMAIN stream = Connection
    BY Texts
  <2>2. /\ j \in DOMAIN Size[c] /\ message' = message
        /\ stream' = [stream EXCEPT ![c] = stream[c] \o t]
    BY DEF sendTo
  <2> HIDE DEF t
  <2>3. stream'[c] = stream[c] \o t
    BY <2>1, <2>2
  <2> QED BY <2>1, <2>2, <2>3
<1>2. Size[c][j] \in Nat /\ Size[c][j] > 0
  BY <1>1, SizeIsSequence
<1>3. t \in Seq(Nat)
  BY <1>1, <1>2 DEF Units
<1>4. \A k \in DOMAIN t : t[k] = j
  BY DEF Units
<1>5. /\ \A k \in DOMAIN message[c] : message[c][k] \in Nat /\ message[c][k] < j
      /\ \A k \in DOMAIN s : s[k] \in Nat /\ s[k] < j
  <2>1. /\ \A k \in DOMAIN message[c] : message[c][k] <= sent[c]
        /\ \A k \in DOMAIN s : s[k] <= sent[c]
    BY DEF OrderInv, InOrder
  <2>2. /\ \A k \in DOMAIN message[c] : message[c][k] \in Nat
        /\ \A k \in DOMAIN s : s[k] \in Nat
    BY <1>1, ElementOfSeq, LenProperties
  <2> QED BY <1>1, <2>1, <2>2
<1>6. \A i : Count(t, i) = IF i = j THEN Size[c][j] ELSE 0
  BY <1>1, UnitsCount
<1> HIDE DEF s, t, j
<1>7. /\ Len(s) \in Nat /\ Len(t) \in Nat
      /\ DOMAIN s = 1 .. Len(s) /\ DOMAIN t = 1 .. Len(t)
  BY <1>1, <1>3, LenProperties
<1>8. Joined(s \o t, s, Len(s), t, Len(t))
  <2>1. /\ s \o t \in Seq(Nat) /\ Len(s \o t) = Len(s) + Len(t)
        /\ \A i \in 1 .. Len(s) + Len(t) :
             (s \o t)[i] = IF i <= Len(s) THEN s[i] ELSE t[i - Len(s)]
    BY <1>1, <1>3, ConcatProperties
  <2>2. DOMAIN (s \o t) = 1 .. (Len(s) + Len(t))
    BY <2>1, LenProperties
  <2>3. ASSUME NEW k \in 1 .. Len(s) PROVE (s \o t)[k] = s[k]
    BY <1>7, <2>1
  <2>4. ASSUME NEW k \in 1 .. Len(t) PROVE (s \o t)[Len(s) + k] = t[k]
    <3>1. /\ Len(s) + k \in 1 .. Len(s) + Len(t) /\ ~(Len(s) + k <= Len(s))
          /\ Len(s) + k - Len(s) = k
      BY <1>7
    <3> QED BY <2>1, <3>1
  <2> QED BY <1>7, <2>2, <2>3, <2>4 DEF Joined
<1>9. \A i : Count(s \o t, i) = Count(s, i) + Count(t, i)
  BY <1>7, <1>8, JoinedCount
<1>10. \A i : Count(s, i) \in Nat /\ Count(message[c], i) \in Nat
  BY <1>1, PlacesFinite, LenProperties
<1>11. ASSUME NEW i \in Numbers(message[c]) \cup Numbers(s \o t)
       PROVE  Count(message[c], i) + Count(s \o t, i) = Size[c][i]
  <2>1. CASE i = j
    <3>1. Count(message[c], i) = 0 /\ Count(s, i) = 0
      BY <1>1, <1>5, <2>1, NoPlace
    <3> QED BY <1>2, <1>6, <1>9, <2>1, <3>1
  <2>2. CASE i # j
    <3>1. i \in Numbers(message[c]) \cup Numbers(s)
      <4>1. ASSUME NEW k \in 1 .. (Len(s) + Len(t)), (s \o t)[k] = i
            PROVE  i \in Numbers(s)
        <5>1. CASE k \in 1 .. Len(s)
          BY <1>7, <1>8, <4>1, <5>1 DEF Joined, Numbers
        <5>2. CASE k \notin 1 .. Len(s)
          <6>1. k - Len(s) \in 1 .. Len(t) /\ Len(s) + (k - Len(s)) = k
            BY <1>7, <5>2
          <6>2. (s \o t)[k] = t[k - Len(s)]
            BY <1>8, <6>1 DEF Joined
          <6> QED BY <1>4, <1>7, <2>2, <4>1, <6>1, <6>2
        <5> QED BY <5>1, <5>2
      <4>2. DOMAIN (s \o t) = 1 .. (Len(s) + Len(t))
        BY <1>8 DEF Joined
      <4> QED BY <4>1, <4>2 DEF Numbers
    <3>2. Count(message[c], i) + Count(s, i) = Size[c][i]
      BY <3>1 DEF Whole, s
    <3> QED BY <1>6, <1>9, <1>10, <2>2, <3>2
  <2> QED BY <2>1, <2>2
<1> QED BY <1>1, <1>11 DEF Whole

\* A read moves units from one to the other.
LEMMA WholeRecv ==
  ASSUME TypeInv, NEW c \in Connection, Whole(c), Recv(c)
  PROVE  Whole(c)'
<1> DEFINE s == stream[c]
           m == message[c]
<1>1. PICK n \in 0 .. Len(s) :
        /\ DOMAIN message'[c] = 1 .. Len(m) + n
        /\ DOMAIN stream'[c] = 1 .. Len(s) - n
        /\ \A i \in DOMAIN message'[c] :
             message'[c][i] = IF i <= Len(m) THEN m[i] ELSE s[i - Len(m)]
        /\ \A j \in DOMAIN stream'[c] : stream'[c][j] = s[n + j]
  BY RecvUnits
<1> DEFINE f == [k \in 1 .. n |-> s[k]]
<1>2. /\ Len(s) \in Nat /\ Len(m) \in Nat /\ n \in Nat /\ Len(s) - n \in Nat
      /\ DOMAIN s = 1 .. Len(s) /\ DOMAIN m = 1 .. Len(m)
  <2>1. s \in Seq(Nat) /\ m \in Seq(Nat)
    BY Texts
  <2>2. /\ Len(s) \in Nat /\ Len(m) \in Nat
        /\ DOMAIN s = 1 .. Len(s) /\ DOMAIN m = 1 .. Len(m)
    BY <2>1, LenProperties
  <2> QED BY <2>2
<1>3. /\ DOMAIN f = 1 .. n /\ \A k \in 1 .. n : f[k] = s[k]
  OBVIOUS
<1>4. PICK u, r : u = message'[c] /\ r = stream'[c]
  OBVIOUS
<1> HIDE DEF f, s, m
<1>5. Joined(u, m, Len(m), f, n)
  <2>1. ASSUME NEW k \in 1 .. Len(m) PROVE u[k] = m[k]
    <3>1. k \in 1 .. Len(m) + n /\ k <= Len(m)
      BY <1>2
    <3> QED BY <1>1, <1>4, <3>1
  <2>2. ASSUME NEW k \in 1 .. n PROVE u[Len(m) + k] = f[k]
    <3>1. /\ Len(m) + k \in 1 .. Len(m) + n /\ ~(Len(m) + k <= Len(m))
          /\ Len(m) + k - Len(m) = k
      BY <1>2
    <3> QED BY <1>1, <1>3, <1>4, <3>1
  <2> QED BY <1>1, <1>2, <1>3, <1>4, <2>1, <2>2 DEF Joined
<1>6. Joined(s, f, n, r, Len(s) - n)
  <2>1. DOMAIN s = 1 .. (n + (Len(s) - n))
    BY <1>2
  <2>2. \A k \in 1 .. (Len(s) - n) : s[n + k] = r[k]
    BY <1>1, <1>4
  <2>3. \A k \in 1 .. n : s[k] = f[k]
    BY <1>3
  <2> QED BY <1>1, <1>3, <1>4, <2>1, <2>2, <2>3 DEF Joined
<1>7. \A i : /\ Count(u, i) = Count(m, i) + Count(f, i)
             /\ Count(s, i) = Count(f, i) + Count(r, i)
  BY <1>2, <1>5, <1>6, JoinedCount
<1>8. \A i : Count(m, i) \in Nat /\ Count(f, i) \in Nat /\ Count(r, i) \in Nat
  BY <1>1, <1>2, <1>3, <1>4, PlacesFinite
<1>9. ASSUME NEW i \in Numbers(u) \cup Numbers(r)
      PROVE  Count(u, i) + Count(r, i) = Size[c][i]
  <2>1. i \in Numbers(m) \cup Numbers(s)
    <3>1. ASSUME NEW k \in DOMAIN u PROVE u[k] \in Numbers(m) \cup Numbers(s)
      <4>1. CASE k <= Len(m)
        <5>1. k \in 1 .. Len(m)
          BY <1>1, <1>2, <1>4, <4>1
        <5> QED BY <1>1, <1>2, <1>4, <4>1, <5>1 DEF Numbers
      <4>2. CASE ~(k <= Len(m))
        <5>1. k - Len(m) \in 1 .. Len(s)
          BY <1>1, <1>2, <1>4, <4>2
        <5> QED BY <1>1, <1>2, <1>4, <4>2, <5>1 DEF Numbers
      <4> QED BY <4>1, <4>2
    <3>2. ASSUME NEW k \in DOMAIN r PROVE r[k] \in Numbers(s)
      <4>1. n + k \in 1 .. Len(s)
        BY <1>1, <1>2, <1>4
      <4> QED BY <1>1, <1>2, <1>4, <4>1 DEF Numbers
    <3> QED BY <3>1, <3>2 DEF Numbers
  <2>2. Count(m, i) + Count(s, i) = Size[c][i]
    BY <2>1 DEF Whole, s, m
  <2> QED BY <1>7, <1>8, <2>2
<1>10. ASSUME NEW i \in Numbers(message'[c]) \cup Numbers(stream'[c])
       PROVE  Count(message'[c], i) + Count(stream'[c], i) = Size[c][i]
  BY <1>4, <1>9
<1> QED BY <1>10 DEF Whole

\* What is pushed is not in the stream any more.
LEMMA WholePush ==
  ASSUME TypeInv, OrderInv, NEW c \in Connection, Whole(c), Push(c)
  PROVE  Whole(c)'
<1>1. /\ message'[c] = <<>> /\ stream'[c] = stream[c] /\ reader[c] = "push"
  BY Texts DEF Push, peers
<1>2. /\ message[c] \in Seq(Nat) /\ stream[c] \in Seq(Nat)
      /\ DOMAIN stream[c] = 1 .. Len(stream[c]) /\ Len(stream[c]) \in Nat
      /\ \A k \in DOMAIN message[c] : message[c][k] \in Nat
      /\ \A k \in DOMAIN stream[c] : stream[c][k] \in Nat
  BY Texts, LenProperties, ElementOfSeq
<1>3. \A k \in DOMAIN message[c], j \in DOMAIN stream[c] :
        message[c][k] < stream[c][j]
  BY <1>1 DEF OrderInv, InOrder
<1>4. ASSUME NEW i \in Numbers(stream[c])
      PROVE  Count(<<>>, i) + Count(stream[c], i) = Size[c][i]
  <2>1. PICK j \in DOMAIN stream[c] : stream[c][j] = i
    BY DEF Numbers
  <2>2. Count(message[c], i) = 0 /\ Count(<<>>, i) = 0
    <3>1. \A k \in DOMAIN message[c] : message[c][k] # i
      BY <1>2, <1>3, <2>1
    <3> QED BY <3>1, NoPlace
  <2>3. Count(message[c], i) + Count(stream[c], i) = Size[c][i]
    BY DEF Whole
  <2> QED BY <2>2, <2>3
<1>5. Numbers(<<>>) = {}
  BY DEF Numbers
<1> QED BY <1>1, <1>4, <1>5 DEF Whole

LEMMA WholeStep == TypeInv /\ OrderInv /\ WholeInv /\ [Next]_vars => WholeInv'
<1> SUFFICES ASSUME TypeInv, OrderInv, WholeInv, [Next]_vars,
                    NEW b \in Connection
             PROVE  Whole(b)'
  BY DEF WholeInv
<1>0. /\ DOMAIN message = Connection /\ DOMAIN stream = Connection
  BY Texts
<1>1. Whole(b)
  BY DEF WholeInv
<1>2. ASSUME UNCHANGED <<message[b], stream[b]>> PROVE Whole(b)'
  BY <1>1, <1>2 DEF Whole
<1>3. ASSUME NEW c \in Connection, sendTo(c) \/ Recv(c) \/ Push(c)
      PROVE  Whole(b)'
  <2>1. CASE b = c
    BY <1>1, <1>3, <2>1, WholeSend, WholeRecv, WholePush
  <2>2. CASE b # c
    BY <1>0, <1>2, <1>3, <2>2 DEF sendTo, Recv, Push, peers
  <2> QED BY <2>1, <2>2
<1>4. CASE UNCHANGED <<message, stream>>
  BY <1>2, <1>4
<1>5. ASSUME NEW c \in Connection,
             \/ createConnection(c) \/ Close(c) \/ Accept(c) \/ Insert(c)
             \/ Check(c) \/ Notify(c)
      PROVE  UNCHANGED <<message, stream>>
  BY <1>5 DEF createConnection, Close, Accept, Insert, Check, Notify
<1>6. CASE Accepting \/ AcceptFails \/ loop \/ Wake \/ UNCHANGED vars
  BY <1>4, <1>6 DEF Accepting, AcceptFails, loop, Wait, Pop, Wake, vars
<1>7. CASE closeReceiver
  BY <1>4, <1>7 DEF closeReceiver, StopRunning, ShutListener, Walk, Join,
                    JoinAcceptor, Destroy
<1> QED BY <1>3, <1>4, <1>5, <1>6, <1>7 DEF Next, Peer, asyncReceive, receive

(* Whatever the sizes of messages and buffer, and however sends and reads    *)
(* interleave, the text that receive hands to MessageFactory::create begins  *)
(* with a whole message: a read that is not continued has taken all that was *)
(* there, and peers send whole messages.                                     *)
THEOREM MessagesAreWhole == Spec => []NoHalfMessage
<1>1. ASSUME TypeInv, OrderInv, WholeInv PROVE NoHalfMessage
  <2> SUFFICES ASSUME NEW c \in Connection, reader[c] = "push"
               PROVE  Size[c][Head(message[c])] =
                        Cardinality({k \in DOMAIN message[c] :
                                       message[c][k] = Head(message[c])})
    BY DEF NoHalfMessage
  <2> DEFINE i == Head(message[c])
  <2>1. /\ message[c] \in Seq(Nat) /\ message[c] # <<>>
        /\ stream[c] \in Seq(Nat)
    BY <1>1, Texts
  <2>2. 1 \in DOMAIN message[c] /\ i = message[c][1]
    BY <2>1
  <2>3. /\ DOMAIN message[c] = 1 .. Len(message[c]) /\ Len(message[c]) \in Nat
    BY <2>1, LenProperties
  <2>4. \A k \in DOMAIN stream[c] : stream[c][k] # i
    <3>1. \A k \in DOMAIN stream[c] : i < stream[c][k]
      BY <1>1, <2>2 DEF OrderInv, InOrder
    <3>2. i \in Nat /\ \A k \in DOMAIN stream[c] : stream[c][k] \in Nat
      BY <2>1, <2>2, <2>3, ElementOfSeq, LenProperties
    <3> QED BY <3>1, <3>2
  <2>5. Count(stream[c], i) = 0
    BY <2>4, NoPlace
  <2>6. i \in Numbers(message[c])
    BY <2>2 DEF Numbers
  <2> HIDE DEF i
  <2>7. Count(message[c], i) + Count(stream[c], i) = Size[c][i]
    BY <1>1, <2>6 DEF WholeInv, Whole
  <2>8. Count(message[c], i) \in Nat
    BY <2>3, PlacesFinite
  <2>9. Count(message[c], i) = Size[c][i]
    BY <2>5, <2>7, <2>8
  <2> QED BY <2>9 DEF Count, Places, i
<1> QED BY <1>1, TypeInit, TypeStep, OrderInit, OrderStep, WholeInit, WholeStep,
           PTL DEF Spec
=============================================================================
