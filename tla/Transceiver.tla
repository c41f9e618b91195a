----------------------------- MODULE Transceiver -----------------------------
(***************************************************************************)
(* AsyncronousNodeTransceiver and the MessagePriorityConcurrentQueue of    *)
(* one node: the thread that accepts connections, a thread for each of     *)
(* them that reads messages into the queue, and the main thread, which     *)
(* takes messages out and at last runs closeReceiver and the destructors.  *)
(*                                                                         *)
(* The peers connect, send and close.  A send arrives as a whole, as it    *)
(* does between processes of one machine; a stream is a sequence of units, *)
(* each the number of the message it belongs to.                           *)
(***************************************************************************)
EXTENDS Naturals, Sequences, FiniteSets

CONSTANTS
  Connection,  \* the connections that peers may open
  Size,        \* Size[c]: the sizes of the messages sent over c, in units
  Buffer,      \* the size of the buffer of a read, in units
  Control,     \* the control messages; all others are application messages
  Descriptor   \* the numbers that the system may give to accepted sockets

(* The definitions whose names end in Slip are slips the code could contain, *)
(* beside what it does contain; no other definition uses them.               *)

NoConnection == 0

ASSUME SizeAssumption ==
  /\ Size \in [Connection -> Seq(Nat \ {0})]
  /\ Buffer \in Nat \ {0}
ASSUME NumberAssumption ==
  /\ NoConnection \notin Connection
  /\ Descriptor \subseteq Nat \ {0}

\* A message is known by its connection and its number there.
Message == UNION {{c} \X DOMAIN Size[c] : c \in Connection}

VARIABLES
  isRunning,  \* AsyncronousNodeTransceiver::isRunning
  main,       \* where the main thread is
  position,   \* the key closeReceiver's iterator is at, 0 before the first
  acceptor,   \* where the thread in asyncReceive is
  link,       \* link[c]: how far a connection has come
  socket,     \* socket[c]: its descriptor, 0 until it is accepted
  receivers,  \* the map of reader threads, which are named by connection
  reader,     \* reader[c]: where the thread in receive is
  sent,       \* sent[c]: how many messages the peer has sent
  stream,     \* stream[c]: what was sent and not yet read
  shut,       \* shut[c]: which ends of it have been shut down
  message,    \* message[c]: the local variable of receive
  queue,      \* MessagePriorityConcurrentQueue::queue_
  late        \* history: a reader was entered after isRunning was set to false

peers == <<link, socket, sent, shut>>
threads == <<main, position, acceptor, receivers>>
vars == <<isRunning, main, position, acceptor, link, socket, receivers, reader,
          sent, stream, shut, message, queue, late>>

Init ==
  /\ isRunning = TRUE
  /\ main = "pop"
  /\ position = 0
  /\ acceptor = "check"
  /\ link = [c \in Connection |-> "none"]
  /\ socket = [c \in Connection |-> 0]
  /\ receivers = [d \in Descriptor |-> NoConnection]
  /\ reader = [c \in Connection |-> "none"]
  /\ sent = [c \in Connection |-> 0]
  /\ stream = [c \in Connection |-> <<>>]
  /\ shut = [c \in Connection |-> {}]
  /\ message = [c \in Connection |-> <<>>]
  /\ queue = {}
  /\ late = FALSE

-----------------------------------------------------------------------------
(* The peers, as the sending half of the class makes them behave            *)

isAlive == main \notin {"gone", "terminated"}
isListening == main \in {"pop", "waiting", "stop", "shut"}

\* createConnection; the system accepts on behalf of the process.
createConnection(c) ==
  /\ isListening
  /\ link[c] = "none"
  /\ link' = [link EXCEPT ![c] = "backlog"]
  /\ UNCHANGED <<isRunning, threads, socket, reader, sent, stream, shut,
                 message, queue, late>>

UnitsSlip(c, i) == [k \in 1 .. Size[c][i] |-> i] \o <<0>>
Units(c, i) == [k \in 1 .. Size[c][i] |-> i]

sendTo(c) ==
  LET i == sent[c] + 1
  IN /\ link[c] # "none" /\ "peer" \notin shut[c]
     /\ i \in DOMAIN Size[c]
     /\ sent' = [sent EXCEPT ![c] = i]
     /\ stream' = [stream EXCEPT ![c] = @ \o Units(c, i)]
     /\ UNCHANGED <<isRunning, threads, link, socket, reader, shut, message,
                    queue, late>>

\* The peer ends.
Close(c) ==
  /\ link[c] # "none" /\ "peer" \notin shut[c]
  /\ shut' = [shut EXCEPT ![c] = @ \cup {"peer"}]
  /\ UNCHANGED <<isRunning, threads, link, socket, reader, sent, stream,
                 message, queue, late>>

-----------------------------------------------------------------------------
(* asyncReceive                                                             *)

Accepting ==
  /\ isAlive
  /\ acceptor = "check"
  /\ acceptor' = IF isRunning THEN "accept" ELSE "done"
  /\ UNCHANGED <<isRunning, main, position, receivers, reader, peers, stream,
                 message, queue, late>>

\* A reader closes its socket when it ends, and the number is free again.
isOpen(c) == reader[c] \notin {"ended", "joined"}
isFree(d) == \A c \in Connection : socket[c] = d => ~isOpen(c)

\* The new thread runs before it is entered into the map.
Accept(c) ==
  /\ isAlive
  /\ acceptor = "accept"
  /\ isListening
  /\ link[c] = "backlog"
  /\ \E d \in Descriptor :
       isFree(d) /\ socket' = [socket EXCEPT ![c] = d]
  /\ link' = [link EXCEPT ![c] = "fresh"]
  /\ reader' = [reader EXCEPT ![c] = "check"]
  /\ acceptor' = "insert"
  /\ UNCHANGED <<isRunning, main, position, receivers, sent, stream, shut,
                 message, queue, late>>

\* accept fails when the listening socket has been shut down.
AcceptFails ==
  /\ isAlive
  /\ acceptor = "accept"
  /\ ~isListening
  /\ acceptor' = "check"
  /\ UNCHANGED <<isRunning, main, position, receivers, reader, peers, stream,
                 message, queue, late>>

\* Nobody guards the map.  The iterator of closeReceiver, if it is being
\* advanced, may end up anywhere behind where it was.
Race ==
  IF main = "walk"
  THEN position' \in {p \in Descriptor \cup {position} : position <= p}
  ELSE position' = position

\* insert keeps an entry that is there, and the new thread, which is still
\* joinable, is destroyed: the process terminates.
Insert(c) ==
  /\ isAlive
  /\ acceptor = "insert"
  /\ link[c] = "fresh"
  /\ link' = [link EXCEPT ![c] = "entered"]
  /\ late' = (late \/ ~isRunning)
  /\ IF receivers[socket[c]] = NoConnection
     THEN /\ receivers' = [receivers EXCEPT ![socket[c]] = c]
          /\ acceptor' = "check"
          /\ Race
          /\ UNCHANGED main
     ELSE /\ main' = "terminated"
          /\ UNCHANGED <<receivers, acceptor, position>>
  /\ UNCHANGED <<isRunning, socket, reader, sent, stream, shut, message,
                 queue>>

-----------------------------------------------------------------------------
(* receive, for each connection                                             *)

\* The head of the loop, or the end of the thread
Check(c) ==
  /\ isAlive
  /\ reader[c] = "check"
  /\ reader' = [reader EXCEPT ![c] = IF isRunning THEN "recv" ELSE "ended"]
  /\ UNCHANGED <<isRunning, threads, peers, stream, message, queue, late>>

ReadsOnSlip(n) == FALSE
ReadsOn(n) == n = Buffer

\* A read that fills the buffer is followed by another one, which waits if
\* there is nothing more.  At the end of the stream a read returns nothing.
Recv(c) ==
  LET n == IF Len(stream[c]) < Buffer THEN Len(stream[c]) ELSE Buffer
  IN /\ isAlive
     /\ reader[c] = "recv"
     /\ stream[c] # <<>> \/ shut[c] # {}
     /\ message' = [message EXCEPT ![c] = @ \o SubSeq(stream[c], 1, n)]
     /\ stream' = [stream EXCEPT ![c] = SubSeq(@, n + 1, Len(@))]
     /\ reader' = [reader EXCEPT
                     ![c] = CASE ReadsOn(n) -> "recv"
                              [] ~ReadsOn(n) /\ message'[c] = <<>> -> "check"
                              [] ~ReadsOn(n) /\ message'[c] # <<>> -> "push"]
     /\ UNCHANGED <<isRunning, threads, peers, queue, late>>

\* The parser stops at the end of the first message in the text.
Parsed(c) == <<c, Head(message[c])>>

\* MessagePriorityConcurrentQueue::push up to the unlock
Push(c) ==
  /\ isAlive
  /\ reader[c] = "push"
  /\ queue' = queue \cup {Parsed(c)}
  /\ message' = [message EXCEPT ![c] = <<>>]
  /\ reader' = [reader EXCEPT ![c] = "notify"]
  /\ UNCHANGED <<isRunning, threads, peers, stream, late>>

Notify(c) ==
  /\ isAlive
  /\ reader[c] = "notify"
  /\ main' = IF main = "waiting" THEN "pop" ELSE main
  /\ reader' = [reader EXCEPT ![c] = "check"]
  /\ UNCHANGED <<isRunning, position, acceptor, receivers, peers, stream,
                 message, queue, late>>

-----------------------------------------------------------------------------
(* The main thread                                                          *)

\* MessagePriorisation: control messages first
isTop(m) == m \in Control \/ queue \cap Control = {}

isEmptySlip(q) == Cardinality(q) < 2
isEmpty(q) == q = {}

Wait ==
  /\ main = "pop"
  /\ isEmpty(queue)
  /\ main' = "waiting"
  /\ UNCHANGED <<isRunning, position, acceptor, receivers, reader, peers,
                 stream, message, queue, late>>

\* A condition variable may wake a thread without a reason.
Wake ==
  /\ main = "waiting"
  /\ main' = "pop"
  /\ UNCHANGED <<isRunning, position, acceptor, receivers, reader, peers,
                 stream, message, queue, late>>

\* pop, and what NodeCore::loop does: after a control message, it may end.
Pop(m) ==
  /\ main = "pop"
  /\ ~isEmpty(queue)
  /\ isTop(m)
  /\ queue' = queue \ {m}
  /\ main' \in IF m \in Control THEN {"pop", "stop"} ELSE {"pop"}
  /\ UNCHANGED <<isRunning, position, acceptor, receivers, reader, peers,
                 stream, message, late>>

\* closeReceiver
StopRunning ==
  /\ main = "stop"
  /\ isRunning' = FALSE
  /\ main' = "shut"
  /\ UNCHANGED <<position, acceptor, receivers, reader, peers, stream, message,
                 queue, late>>

ShutListener ==
  /\ main = "shut"
  /\ main' = "walk"
  /\ UNCHANGED <<isRunning, position, acceptor, receivers, reader, peers,
                 stream, message, queue, late>>

Entered == {d \in Descriptor : receivers[d] # NoConnection}

\* The entries that the iterator has still to come to
RemainingSlip == {d \in Entered : position + 1 < d}
Remaining == {d \in Entered : position < d}

\* shutdown of the socket d, whichever connection it belongs to by now
ShutDownSlip(d) == shut
ShutDown(d) ==
  [c \in Connection |->
     shut[c] \cup {end \in {"node"} : socket[c] = d /\ isOpen(c)}]

Walk ==
  /\ main = "walk"
  /\ IF Remaining = {}
     THEN main' = "joinAcceptor" /\ UNCHANGED <<position, shut>>
     ELSE \E d \in Remaining :
            /\ \A e \in Remaining : d <= e
            /\ position' = d
            /\ shut' = ShutDown(d)
            /\ main' = "join"
  /\ UNCHANGED <<isRunning, acceptor, receivers, reader, link, socket, sent,
                 stream, message, queue, late>>

Join ==
  LET c == receivers[position]
  IN /\ main = "join"
     /\ reader[c] = "ended"
     /\ reader' = [reader EXCEPT ![c] = "joined"]
     /\ main' = "walk"
     /\ UNCHANGED <<isRunning, position, acceptor, receivers, peers, stream,
                    message, queue, late>>

JoinAcceptor ==
  /\ main = "joinAcceptor"
  /\ acceptor = "done"
  /\ main' = "closed"
  /\ UNCHANGED <<isRunning, position, acceptor, receivers, reader, peers,
                 stream, message, queue, late>>

isLeft(c) == reader[c] \notin {"none", "joined"}

\* The map is destroyed; so is the process, if a thread in it is joinable.
Destroy ==
  /\ main = "closed"
  /\ main' = IF \E c \in Connection : isLeft(c) THEN "terminated" ELSE "gone"
  /\ UNCHANGED <<isRunning, position, acceptor, receivers, reader, peers,
                 stream, message, queue, late>>

-----------------------------------------------------------------------------
Peer == \E c \in Connection : createConnection(c) \/ sendTo(c) \/ Close(c)

asyncReceive ==
  Accepting \/ AcceptFails \/ \E c \in Connection : Accept(c) \/ Insert(c)

receive(c) == Check(c) \/ Recv(c) \/ Push(c) \/ Notify(c)

loop == Wait \/ \E m \in queue : Pop(m)

closeReceiver ==
  StopRunning \/ ShutListener \/ Walk \/ Join \/ JoinAcceptor \/ Destroy

Next == \/ Peer
        \/ asyncReceive
        \/ \E c \in Connection : receive(c)
        \/ loop
        \/ Wake
        \/ closeReceiver

Spec == Init /\ [][Next]_vars

\* The threads are fair; the peers and spurious wakeups are not.
FairSpec ==
  /\ Spec
  /\ WF_vars(asyncReceive)
  /\ WF_vars(loop)
  /\ WF_vars(closeReceiver)
  /\ \A c \in Connection : WF_vars(receive(c))

-----------------------------------------------------------------------------
TypeOK ==
  /\ isRunning \in BOOLEAN
  /\ main \in {"pop", "waiting", "stop", "shut", "walk", "join",
               "joinAcceptor", "closed", "gone", "terminated"}
  /\ position \in Descriptor \cup {0}
  /\ acceptor \in {"check", "accept", "insert", "done"}
  /\ link \in [Connection -> {"none", "backlog", "fresh", "entered"}]
  /\ socket \in [Connection -> Descriptor \cup {0}]
  /\ receivers \in [Descriptor -> Connection \cup {NoConnection}]
  /\ reader \in [Connection -> {"none", "check", "recv", "push", "notify",
                                "ended", "joined"}]
  /\ sent \in [Connection -> Nat]
  /\ shut \in [Connection -> SUBSET {"peer", "node"}]
  /\ DOMAIN stream = Connection /\ DOMAIN message = Connection
  /\ \A c \in Connection : /\ stream[c] \in Seq(DOMAIN Size[c])
                           /\ message[c] \in Seq(DOMAIN Size[c])
  /\ queue \subseteq Message
  /\ late \in BOOLEAN

(* The text given to MessageFactory::create begins with a whole message,     *)
(* whatever the sizes of the messages and of the buffer: the parser, whose   *)
(* failure would kill the process, never sees a part of one.                 *)
NoHalfMessage ==
  \A c \in Connection :
    reader[c] = "push" =>
      Size[c][Head(message[c])] =
        Cardinality({k \in DOMAIN message[c] : message[c][k] = Head(message[c])})

(* While the main thread sleeps and there is a message, somebody is about to *)
(* wake it: the queue is checked and left under one lock.                    *)
NoLostWakeup ==
  main = "waiting" /\ queue # {} => \E c \in Connection : reader[c] = "notify"

(* The process only dies of a thread that was not joined if a connection was *)
(* accepted behind closeReceiver's back: a reader entered after isRunning    *)
(* was set to false.                                                         *)
TerminatesOnlyIfLate == main = "terminated" => late

(* Every message in the queue is handled, unless the node stops before.      *)
Served ==
  \A m \in Message : m \in queue ~> m \notin queue \/ ~isRunning

(* closeReceiver returns, whatever the threads are doing when it starts.     *)
Closes == main = "stop" ~> main \in {"gone", "terminated"}

-----------------------------------------------------------------------------
waiting == [c \in Connection |->
              {message[c][k] : k \in DOMAIN message[c]}
                \cup {stream[c][k] : k \in DOMAIN stream[c]}]

Channel == INSTANCE LossyChannel

(* Each connection is a channel that keeps the order, repeats nothing and    *)
(* loses a message only together with one that was sent before it and is     *)
(* queued: what EchoWave assumes when it loses messages.                     *)
ImplementsLossyChannel == Channel!Spec
=============================================================================
