------------------------------ MODULE Election ------------------------------
(***************************************************************************)
(* VoterNodeCoreImpl and CandidateNodeCoreImpl on top of core::NodeCore,   *)
(* with the vector times and the snapshot.  Two candidates ask for votes,  *)
(* with a VoteMe that floods the graph or with a campaign, an ECHO wave of *)
(* application messages; the voters change their politics, answer, and     *)
(* pass on the VoteMe of whom they vote for.                               *)
(*                                                                         *)
(* One step is one turn of NodeCore::loop.  Control waves and shutdowns    *)
(* are modelled in EchoWave: here a node learns of the termination time    *)
(* at any moment.  No message is lost: one that is never handled does as   *)
(* much harm to the properties below.                                      *)
(***************************************************************************)
EXTENDS VectorTime, Integers, FiniteSets

CONSTANTS
  Neighbors,        \* NodeCore::neighbors of every node
  recallPeriod,     \* CandidateNodeCoreImpl::recallPeriod of all
  Opinion,          \* the politics a voter next to no candidate starts with
  Prompted,         \* candidates that get a control message at the start
  MaxCalls,         \* bound: how many VoteMe and campaigns there may be
  Informed          \* bound: the nodes that have the termination time from
                    \* the beginning

(* The definitions whose names end in Slip are slips the code could contain, *)
(* beside what it does contain; no other definition uses them.               *)

\* NodeElectionSettings takes the number of nodes for the greatest identifier.
\* With a gap in the identifiers there is one candidate.
biggestNodeID == Cardinality(Node)
Candidate == Node \cap {1, biggestNodeID}
Voter == Node \ Candidate
Number == 1 .. MaxCalls   \* in the order in which random draws them
NoNode == 0

ASSUME NeighborsAssumption == Neighbors \in [Node -> SUBSET Node]
ASSUME CandidateAssumption ==
  /\ 1 \in Node
  /\ Prompted \subseteq Candidate
  /\ Opinion \subseteq (0 .. 100) \X (0 .. 100)
\* With a period of 0 the remainder is undefined and the process dies.
ASSUME NumberAssumption ==
  /\ recallPeriod \in Nat \ {0}
  /\ MaxCalls \in Nat
  /\ Informed \subseteq Node

\* Contents: the candidate who calls, or one of these
START == 0
IVoteYou == -1
IDontVoteYou == -2

VARIABLES
  impl,              \* impl[n]: politics, receivedMessageNumbers and recalls
  pastImpl,          \* pastImpl[n]: the copy of impl[n], or NoImpl
  timeMap,           \* timeMap[n]: NodeCore::vectorTime
  termininationTime, \* termininationTime[n]: of the same object
  FirstNeighborID,   \* echo buffer: who brought campaign w to n, or NoNode
  counter,           \* echo buffer: messages of campaign w that n has counted
  drawn,             \* the numbers drawn so far are 1, ..., drawn
  network,           \* the messages sent and not yet handled, no two alike
  cut,               \* history: the vector time of pastImpl[n]
  onTime             \* history: n learned the termination time before its own
                     \* clock reached it

vars == <<impl, pastImpl, timeMap, termininationTime, FirstNeighborID,
          counter, drawn, network, cut, onTime>>

NoImpl == [recalls |-> -1]
NoCut == [k \in {} |-> 0]

\* NodeElectionSettings: whom a candidate is next to, votes for it.
Friend(n, c) == c \in Neighbors[n]
Convinced(n) ==
  CASE Friend(n, 1) -> {<<100, 0>>}
    [] ~Friend(n, 1) /\ Friend(n, biggestNodeID) -> {<<0, 100>>}
    [] OTHER -> Opinion

Starting(n) == IF n \in Voter THEN Convinced(n) ELSE {<<0, 0>>}

InitiatorMessage(n) ==
  [type |-> "normal", number |-> 0, sourceID |-> NoNode, destinationID |-> n,
   content |-> START, vectorTime |-> NoTime]

Init ==
  /\ impl \in [Node -> [recalls : {0},
                        politics : UNION {Starting(n) : n \in Node},
                        receivedMessageNumbers : {{}}]]
  /\ \A n \in Node : impl[n].politics \in Starting(n)
  /\ pastImpl = [n \in Node |-> NoImpl]
  /\ timeMap = [n \in Node |-> NoTime]
  /\ termininationTime =
       [n \in Node |-> IF n \in Informed THEN TerminationTime ELSE 0]
  /\ FirstNeighborID = [n \in Node |-> [w \in Number |-> NoNode]]
  /\ counter = [n \in Node |-> [w \in Number |-> 0]]
  /\ drawn = 0
  /\ network = {InitiatorMessage(n) : n \in Prompted}
  /\ cut = [n \in Node |-> NoCut]
  /\ onTime = [n \in Node |-> TRUE]

-----------------------------------------------------------------------------
(* VoterNodeCoreImpl: what a message does to its state                      *)

UnlimitedSlip(x) == x
limitConfidenceLevel(x) == CASE x > 100 -> 100 [] x < 0 -> 0 [] OTHER -> x
Limited(p) == <<limitConfidenceLevel(p[1]), limitConfidenceLevel(p[2])>>

\* A campaign strengthens whoever leads.  Whose campaign it is makes no
\* difference: both branches take politics 1 for the candidate's.
Campaigned(p) ==
  CASE p[1] < p[2] -> Limited(<<p[1] - 1, p[2] + 1>>)
    [] p[1] > p[2] -> Limited(<<p[1] + 1, p[2] - 1>>)
    [] p[1] = p[2] -> p

Side(party) == IF party = 1 THEN 1 ELSE 2
Other(party) == 3 - Side(party)

\* A VoteMe adds a tenth to the candidate's level, and takes a tenth of the
\* new level from the opponent.
Persuaded(p, party) ==
  LET own == p[Side(party)] + p[Side(party)] \div 10
      level == IF own > 100 THEN 100 ELSE own
      rest == p[Other(party)] - level \div 10
  IN Limited(IF party = 1 THEN <<level, rest>> ELSE <<rest, level>>)

Known(i, m) == m.number \in i.receivedMessageNumbers

\* The part of process(ApplicationMessage) that does not send
UnrecordedSlip(i, m) ==
  CASE m.type = "explorer" -> [i EXCEPT !.politics = Campaigned(i.politics)]
    [] m.type = "normal" /\ ~Known(i, m) ->
         [i EXCEPT !.politics = Persuaded(i.politics, m.content)]
    [] OTHER -> i
Told(i, m) ==
  CASE m.type = "explorer" -> [i EXCEPT !.politics = Campaigned(i.politics)]
    [] m.type = "normal" /\ ~Known(i, m) ->
         [i EXCEPT !.receivedMessageNumbers = @ \cup {m.number},
                   !.politics = Persuaded(i.politics, m.content)]
    [] OTHER -> i

\* A candidate only counts.
Noted(n, i, m) ==
  IF n \in Candidate THEN [i EXCEPT !.recalls = @ + 1] ELSE Told(i, m)

-----------------------------------------------------------------------------
(* What a node has when it works on a message m: its implementation, its    *)
(* vector time, its echo buffer, the numbers drawn, what it has sent, and   *)
(* the vector time that m itself has by now.                                *)

Work(n, m, time) ==
  [impl |-> impl[n], counter |-> counter[n], drawn |-> drawn, time |-> time,
   first |-> FirstNeighborID[n], sent |-> {}, stamp |-> m.vectorTime]

Letters(type, w, n, content, time, destinations) ==
  [type : {type}, number : {w}, sourceID : {n}, destinationID : destinations,
   content : {content}, vectorTime : {time}]

\* sendToDestinationsImpl for a message that n itself made: stamp it, give it
\* to the own implementation, send it.
UncountedSlip(n, s, type, content) ==
  [s EXCEPT !.time = increase(s.time, n),
            !.sent = @ \cup Letters(type, s.drawn, n, content, s.time,
                                    Neighbors[n])]
Announced(n, s, type, content) ==
  LET now == increase(s.time, n)
  IN [s EXCEPT !.time = now,
               !.impl.recalls = @ + 1,
               !.sent = @ \cup Letters(type, s.drawn, n, content, now,
                                       Neighbors[n])]

\* A number that nobody has drawn before
Drawing(s) == [s EXCEPT !.drawn = @ + 1]

callVoteMe(n, s) == Announced(n, Drawing(s), "normal", n)

\* sendEcho enters the campaign as one that began here.
startCampaign(n, s) ==
  LET next == Drawing(s)
  IN Announced(n, [next EXCEPT !.first[next.drawn] = n], "explorer", n)

\* A candidate calls when it has counted one message more than a multiple of
\* the period.  What it then sends is counted as well, without another call:
\* two remainders in a row are not both 1.
Calls(i) == i.recalls % recallPeriod = 1
Called(n, s) ==
  CASE ~Calls(s.impl) -> {s}
    [] Calls(s.impl) /\ s.drawn < MaxCalls ->
         {callVoteMe(n, s), startCampaign(n, s)}
    [] OTHER -> {}   \* the bound

\* CandidateNodeCoreImpl::process(ApplicationMessage)
Recalled(n, s, m) == Called(n, [s EXCEPT !.impl = Noted(n, s.impl, m)])

\* sendToAll with the message being processed: it is the message itself that
\* is stamped.
Forwarded(n, s, m) ==
  LET now == increase(s.time, n)
  IN [s EXCEPT !.time = now,
               !.stamp = now,
               !.sent = @ \cup Letters("normal", m.number, n, m.content, now,
                                       Neighbors[n] \ {m.sourceID})]

UnkeptSlip(n, s, m, vote) ==
  [s EXCEPT !.sent = @ \cup Letters("normal", m.number, n, vote,
                                    increase(s.time, n), {m.content})]
Replied(n, s, m, vote) ==
  LET now == increase(s.time, n)
  IN [s EXCEPT !.time = now,
               !.sent = @ \cup Letters("normal", m.number, n, vote, now,
                                       {m.content})]

\* VoterNodeCoreImpl::process(ApplicationMessage)
Voted(n, s, m) ==
  LET next == [s EXCEPT !.impl = Told(s.impl, m)]
      p == next.impl.politics
      own == p[Side(m.content)]
      rest == p[Other(m.content)]
  IN CASE m.type # "normal" \/ Known(s.impl, m) -> next
       [] m.type = "normal" /\ ~Known(s.impl, m) /\ own < rest ->
            Replied(n, next, m, IDontVoteYou)
       [] m.type = "normal" /\ ~Known(s.impl, m) /\ own > rest ->
            Replied(n, Forwarded(n, next, m), m, IVoteYou)
       [] OTHER -> next

Processed(n, s, m) ==
  IF n \in Candidate THEN Recalled(n, s, m) ELSE {Voted(n, s, m)}

-----------------------------------------------------------------------------
(* NodeCore                                                                 *)

\* receive: merge, take the maximum, increase
Received(n, m) ==
  LET merged == merge(timeMap[n], m.vectorTime)
  IN increase(setTime(merged, n, getMaximum(merged)), n)

isMarked(n) == pastImpl[n] # NoImpl

\* The state and the vector time of the copy, which receive makes before the
\* message is processed
Terminating(n, time) ==
  isMarked(n) \/ isTerminated(time[n], termininationTime[n])
CopiedImpl(n, time) ==
  CASE isMarked(n) -> pastImpl[n]
    [] ~isMarked(n) /\ Terminating(n, time) -> impl[n]
    [] OTHER -> NoImpl
CopiedTime(n, time) ==
  CASE isMarked(n) -> cut[n]
    [] ~isMarked(n) /\ Terminating(n, time) -> timeMap[n]
    [] OTHER -> NoCut

\* processImplementations: the copy gets the message as well when the message
\* is from the past, by the time it has after the implementation's work.
AnyTimeSlip(n, s) == TRUE
IsPast(n, s) == getMaximum(s.stamp) <= termininationTime[n]

Copy(n, m, s, time) ==
  LET adds == Terminating(n, time) /\ IsPast(n, s)
      past == CopiedImpl(n, time)
  IN /\ pastImpl' = [pastImpl EXCEPT
                       ![n] = IF adds THEN Noted(n, past, m) ELSE past]
     /\ cut' = [cut EXCEPT
                  ![n] = IF adds THEN merge(CopiedTime(n, time), m.vectorTime)
                                 ELSE CopiedTime(n, time)]

\* The message is not given to the implementation.
NoCopy(n, time) ==
  /\ pastImpl' = [pastImpl EXCEPT ![n] = CopiedImpl(n, time)]
  /\ cut' = [cut EXCEPT ![n] = CopiedTime(n, time)]

\* n is done with m and has reached s.
Finish(n, m, s) ==
  /\ impl' = [impl EXCEPT ![n] = s.impl]
  /\ timeMap' = [timeMap EXCEPT ![n] = s.time]
  /\ FirstNeighborID' = [FirstNeighborID EXCEPT ![n] = s.first]
  /\ counter' = [counter EXCEPT ![n] = s.counter]
  /\ drawn' = s.drawn
  /\ network' = (network \ {m}) \cup s.sent
  /\ UNCHANGED <<termininationTime, onTime>>

\* An initial message; only candidates are sent one.  The campaign is counted
\* before it is sent, and may bring about a call of its own.
Start(m) ==
  LET n == m.destinationID
  IN /\ m.content = START
     /\ drawn < MaxCalls
     /\ \E s \in Called(n, startCampaign(n, Work(n, m, timeMap[n]))) :
          Finish(n, m, s)
     /\ UNCHANGED <<pastImpl, cut>>

HandleApplication(m) ==
  LET n == m.destinationID
      time == Received(n, m)
  IN /\ m.type = "normal" /\ m.content # START
     /\ \E s \in Processed(n, Work(n, m, time), m) :
          Finish(n, m, s) /\ Copy(n, m, s, time)

HasEntry(n, w) == FirstNeighborID[n][w] # NoNode
Degree(n) == Cardinality(Neighbors[n])

\* The explorer is passed on as a copy that has no vector time of its own;
\* on its way out the implementation gets it a second time.
FirstExplorer(m) ==
  LET n == m.destinationID
      w == m.number
      time == Received(n, m)
      entered(s) == [s EXCEPT !.first[w] = m.sourceID, !.counter[w] = 1]
      passed(s) ==
        [s EXCEPT !.time = increase(s.time, n),
                  !.sent = @ \cup Letters("explorer", w, n, m.content,
                                          increase(s.time, n),
                                          Neighbors[n] \ {m.sourceID})]
  IN /\ m.type = "explorer" /\ ~HasEntry(n, w)
     /\ \E s \in Processed(n, entered(Work(n, m, time)), m) :
          /\ \E t \in Processed(n, passed(s), m) : Finish(n, m, t)
          /\ Copy(n, m, s, time)

Counted(n, m, time) ==
  [Work(n, m, time) EXCEPT !.counter[m.number] = @ + 1]

IsLast(n, w) == counter[n][w] + 1 = Degree(n)

CountMessage(m) ==
  LET n == m.destinationID
      time == Received(n, m)
  IN /\ m.type \in {"explorer", "echo"} /\ HasEntry(n, m.number)
     /\ ~IsLast(n, m.number)
     /\ Finish(n, m, Counted(n, m, time))
     /\ NoCopy(n, time)

\* The echo is a copy of the last message, and has no vector time at all.
AnswerWave(m) ==
  LET n == m.destinationID
      w == m.number
      time == Received(n, m)
      echo == Letters("echo", w, n, m.content, NoTime, {FirstNeighborID[n][w]})
  IN /\ m.type \in {"explorer", "echo"} /\ HasEntry(n, w) /\ IsLast(n, w)
     /\ FirstNeighborID[n][w] # n
     /\ Finish(n, m, [Counted(n, m, time) EXCEPT !.sent = echo])
     /\ NoCopy(n, time)

\* "ECHO successful"
FinishCampaign(m) ==
  LET n == m.destinationID
      w == m.number
      time == Received(n, m)
  IN /\ m.type \in {"explorer", "echo"} /\ HasEntry(n, w) /\ IsLast(n, w)
     /\ FirstNeighborID[n][w] = n
     /\ \E s \in Processed(n, Counted(n, m, time), m) :
          Finish(n, m, s) /\ Copy(n, m, s, time)

\* A termination time wave completes at n: "(Re-)Set Termination Time".
SetTermininationTime(n) ==
  /\ termininationTime[n] = 0
  /\ termininationTime' = [termininationTime EXCEPT ![n] = TerminationTime]
  /\ onTime' = [onTime EXCEPT ![n] = timeMap[n][n] < TerminationTime]
  /\ UNCHANGED <<impl, pastImpl, timeMap, FirstNeighborID, counter, drawn,
                 network, cut>>

Next ==
  \/ \E m \in network : \/ Start(m) \/ HandleApplication(m)
                        \/ FirstExplorer(m) \/ CountMessage(m)
                        \/ AnswerWave(m) \/ FinishCampaign(m)
  \/ \E n \in Node : SetTermininationTime(n)

Spec == Init /\ [][Next]_vars

-----------------------------------------------------------------------------
Politics == (0 .. 100) \X (0 .. 100)
Impl == [recalls : Nat, politics : Politics,
         receivedMessageNumbers : SUBSET Number]
Message ==
  [type : {"normal", "explorer", "echo"}, number : Number \cup {0},
   sourceID : Node \cup {NoNode}, destinationID : Node,
   content : Candidate \cup {START, IVoteYou, IDontVoteYou}, vectorTime : Time]

TypeOK ==
  /\ impl \in [Node -> Impl]
  /\ pastImpl \in [Node -> Impl \cup {NoImpl}]
  /\ timeMap \in [Node -> Time]
  /\ termininationTime \in [Node -> {0, TerminationTime}]
  /\ FirstNeighborID \in [Node -> [Number -> Node \cup {NoNode}]]
  /\ counter \in [Node -> [Number -> Nat]]
  /\ drawn \in 0 .. MaxCalls
  /\ network \subseteq Message
  /\ cut \in [Node -> Time \cup {NoCut}]
  /\ onTime \in [Node -> BOOLEAN]

Core == INSTANCE Snapshot
  WITH time <- timeMap, limit <- termininationTime,
       stamps <- {m.vectorTime : m \in network}

(* Whatever candidates and voters do, NodeCore treats their messages and     *)
(* their copies as Snapshot says.                                            *)
ImplementsSnapshot == Core!Spec

(* Neither a node nor a message knows a time that its owner has not reached  *)
(* (NodeCore::sendToDestinationsImpl, sendTo).                               *)
NoFutureTime == Core!NoFutureTime

(* If the termination time is known everywhere in time, no past copy has     *)
(* seen more of a node than that node's past copy has done                   *)
(* (NodeCore::createTemporaryPastImplementation, processImplementations).    *)
ConsistentCut == Core!ConsistentCut

(* A VoteMe and its answers travel once over every connection: a voter takes *)
(* up a number once, although it comes back from every neighbour that passed *)
(* it on (VoterNodeCoreImpl::process).                                       *)
OncePerNumber ==
  \A m, x \in network :
    /\ m.type = "normal" /\ x.type = "normal"
    /\ m.number = x.number /\ m.content = x.content
    /\ m.sourceID = x.sourceID /\ m.destinationID = x.destinationID
    => m = x

(* What is sent up to the termination time and arrives after a node has      *)
(* copied its state is processed by the copy: NodeCore.cpp:189 says of this  *)
(* case "Termination Time reached and message is from Past"                  *)
(* (NodeCore::processImplementations).                                       *)
FromPast(n, m) ==
  /\ m.destinationID = n
  /\ m.type = "normal" /\ m.content # START
  /\ getMaximum(m.vectorTime) <= termininationTime[n]
PastReachesCopy ==
  [][\A n \in Node, m \in network \ network' :
       isMarked(n) /\ FromPast(n, m)
         => pastImpl'[n] = Noted(n, pastImpl[n], m)]_vars
=============================================================================
