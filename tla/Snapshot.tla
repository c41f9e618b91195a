------------------------------ MODULE Snapshot ------------------------------
(***************************************************************************)
(* What the vector times of the nodes promise a snapshot.  Every node      *)
(* copies its state when it receives something at or after the termination *)
(* time, and hands the copy whatever was sent up to that time.  The copies *)
(* of all nodes are a state the system could have been in: none of them    *)
(* knows anything that its sender's copy has not yet done.                 *)
(*                                                                         *)
(* A node does all that it does for one message in one step; how much that *)
(* is, and which messages it sends, is left open.                          *)
(***************************************************************************)
EXTENDS VectorTime

VARIABLES
  time,     \* time[n]: the vector time of n
  limit,    \* limit[n]: the termination time as n knows it, 0 until then
  onTime,   \* onTime[n]: n has learned it before its clock reached it
  cut,      \* cut[n]: the vector time of the copy of n's state, once there is
  stamps    \* the vector times of the messages under way

vars == <<time, limit, onTime, cut, stamps>>

\* A value that is no vector time: there is no copy.
NoCut == [k \in {} |-> 0]

Init ==
  /\ time = [n \in Node |-> NoTime]
  /\ limit \in [Node -> {0, TerminationTime}]
  /\ onTime = [n \in Node |-> TRUE]
  /\ cut = [n \in Node |-> NoCut]
  /\ stamps \subseteq {NoTime}

Marked(n) == cut[n] # NoCut

\* The clock of n after it has received v
Received(n, v) ==
  LET merged == merge(time[n], v)
  IN increase(setTime(merged, n, getMaximum(merged)), n)

\* From base on, n has sent something at some of its own times, and perhaps
\* messages without any.
Stamped(n, base, now) == {[base EXCEPT ![n] = t] : t \in base[n] + 1 .. now}
Working(n, base) ==
  LET now == time'[n][n]
  IN /\ time' = [time EXCEPT ![n] = [base EXCEPT ![n] = now]]
     /\ now \in Nat /\ now >= base[n]
     /\ stamps' \subseteq stamps \cup Stamped(n, base, now) \cup {NoTime}

\* The copy is of the state before the message; a message that was sent up to
\* the termination time may be added to it.
Before(n) == IF Marked(n) THEN cut[n] ELSE time[n]
Copy(n, v) ==
  IF Marked(n) \/ isTerminated(Received(n, v)[n], limit[n])
  THEN \/ cut' = [cut EXCEPT ![n] = Before(n)]
       \/ /\ getMaximum(v) <= limit[n]
          /\ cut' = [cut EXCEPT ![n] = merge(Before(n), v)]
  ELSE cut' = cut

\* A message of the application, with or without a vector time
Handle(n, v) ==
  /\ Working(n, Received(n, v))
  /\ Copy(n, v)
  /\ UNCHANGED <<limit, onTime>>

\* A control message that makes the node send
Begin(n) == Working(n, time[n]) /\ UNCHANGED <<limit, onTime, cut>>

Learn(n) ==
  /\ limit[n] = 0
  /\ limit' = [limit EXCEPT ![n] = TerminationTime]
  /\ onTime' = [onTime EXCEPT ![n] = time[n][n] < TerminationTime]
  /\ stamps' \subseteq stamps
  /\ UNCHANGED <<time, cut>>

Next == \E n \in Node : \/ \E v \in stamps \cup {NoTime} : Handle(n, v)
                        \/ Begin(n) \/ Learn(n)

Spec == Init /\ [][Next]_vars

-----------------------------------------------------------------------------
TypeOK ==
  /\ time \in [Node -> Time]
  /\ limit \in [Node -> {0, TerminationTime}]
  /\ onTime \in [Node -> BOOLEAN]
  /\ cut \in [Node -> Time \cup {NoCut}]
  /\ stamps \subseteq Time

(* A node's own time is the largest of all it knows: after a message it is   *)
(* above everything in the message (NodeCore::receive).                      *)
LocalTimeIsLargest == \A n, k \in Node : time[n][k] <= time[n][n]

(* Nobody knows a time of a node that the node has not reached yet, nor does *)
(* any message under way (NodeCore::sendToDestinationsImpl, sendTo).         *)
NoFutureTime ==
  \A k \in Node : /\ \A n \in Node : time[n][k] <= time[k][k]
                  /\ \A v \in stamps : v[k] <= time[k][k]

Learned == \A n \in Node : limit[n] # 0 => onTime[n]

(* If every node learns of the termination time before its own clock gets    *)
(* there, no copy has seen more of a node than the node's own copy has done  *)
(* (NodeCore::createTemporaryPastImplementation, processImplementations).    *)
ConsistentCut ==
  Learned => \A n, p \in Node : Marked(n) => cut[n][p] <= Before(p)[p]
=============================================================================
