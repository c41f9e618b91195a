---------------------------- MODULE LossyChannel ----------------------------
(***************************************************************************)
(* What a node may expect of its connections: the messages of one          *)
(* connection are queued in the order they were sent, each at most once;   *)
(* with a message, some that were right behind it may get lost.            *)
(***************************************************************************)
EXTENDS Naturals

CONSTANT Connection

VARIABLES
  sent,     \* sent[c]: how many messages were sent over c
  waiting,  \* waiting[c]: the numbers of those that are under way
  queue     \* the messages, pairs of connection and number, to be handled

Init ==
  /\ sent = [c \in Connection |-> 0]
  /\ waiting = [c \in Connection |-> {}]
  /\ queue = {}

Send(c) ==
  /\ sent' = [sent EXCEPT ![c] = @ + 1]
  /\ waiting' = [waiting EXCEPT ![c] = @ \cup {sent[c] + 1}]
  /\ UNCHANGED queue

\* The first message arrives; those up to last are lost with it.
Deliver(c) ==
  \E first \in waiting[c], last \in waiting[c] :
    /\ \A i \in waiting[c] : first <= i
    /\ waiting' = [waiting EXCEPT ![c] = {i \in @ : last < i}]
    /\ queue' = queue \cup {<<c, first>>}
    /\ UNCHANGED sent

Take ==
  \E m \in queue : queue' = queue \ {m} /\ UNCHANGED <<sent, waiting>>

Next == Take \/ \E c \in Connection : Send(c) \/ Deliver(c)

Spec == Init /\ [][Next]_<<sent, waiting, queue>>
=============================================================================
