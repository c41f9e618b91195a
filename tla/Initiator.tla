------------------------------ MODULE Initiator ------------------------------
(***************************************************************************)
(* The prompt of the initiator: it reads a command and what the command    *)
(* asks for, and sends one control message, which reaches a node as        *)
(* MessageFactory says; and what NodeCore makes of a message.  The model    *)
(* stops the prompt after the first message that is sent.                  *)
(***************************************************************************)
EXTENDS MessageFactory

CONSTANTS
  nodes,        \* identifiers of the nodes it knows
  TypedTimes,   \* lines typed for a termination time
  TooLong,      \* digits that make no int
  RandomNumber  \* the number random draws

VARIABLES
  input,        \* the command that is being carried out
  ordered       \* the command a message was sent for

promptVars == <<input, ordered>>

Commands == {"start", "halt", "snap", "echo", "time", "reset", "help", "exit"}
None == "none"

SHUTDOWN == <<"shutdown">>
SHUTDOWN_ALL == <<"shutdown", " ", "all">>
SHUTDOWN_ECHO == <<"shutdown", " ", "echo">>
SNAPSHOT == <<"snapshot">>
RESET == <<"reset">>

\* MessageSubType
normal == 1
explorer == 3
echo == 4
parametrize == 5

ControlMessage(type, number, content) ==
  [form |-> "ControlMessage", type |-> type, number |-> number,
   sourceID |-> 0, destinationID |-> -1,
   vectorTimes |-> [n \in {} |-> 0], content |-> content]

\* Digits that make no int are digits, and no word of the prompt has any.
ASSUME PromptAssumption ==
  /\ nodes \cup {-1, 0, normal, parametrize, RandomNumber} \subseteq Numbers
  /\ TypedTimes \subseteq Value
  /\ TooLong \in Symbol \ (Markup \cup Digits)
  /\ {"START", "shutdown", "all", "echo", "snapshot", "reset"}
       \subseteq Symbol \ (Markup \cup Digits \cup {TooLong})

isDigits(c) == c = TooLong \/ \E k \in Numbers : k >= 0 /\ c = ToString(k)
isNumber(v) == v # <<>> /\ \A i \in DOMAIN v : isDigits(v[i])

-----------------------------------------------------------------------------
PromptInit == input = None /\ ordered = None

readInput ==
  /\ input = None
  /\ message = NoMessage
  /\ input' \in Commands
  /\ UNCHANGED <<ordered, messageVars>>

\* What sends nothing: an identifier that is no number or not known, a time
\* that is no number, a node that does not listen, help, and reset, which is
\* not implemented.  Only exit ends the prompt.
Abandon ==
  /\ input \notin {None, "exit"}
  /\ input' = None
  /\ UNCHANGED <<ordered, messageVars>>

sendTo(m) ==
  /\ message' = m
  /\ ordered' = input
  /\ input' = None
  /\ UNCHANGED <<writerVars, printerVars, parserVars, text, piece, received>>

\* The same message for both candidates
tell ==
  /\ input = "start"
  /\ nodes # {}
  /\ sendTo(ControlMessage(normal, 0, <<"START">>))

sendEchoShutdown ==
  /\ input = "echo"
  /\ \E nodeID \in nodes : sendTo(ControlMessage(normal, 0, SHUTDOWN_ECHO))

halt ==
  /\ input = "halt"
  /\ \E nodeID \in nodes, command \in {SHUTDOWN, SHUTDOWN_ALL} :
       sendTo(ControlMessage(normal, nodeID, command))

snapshoot ==
  /\ input = "snap"
  /\ \E nodeID \in nodes : sendTo(ControlMessage(normal, RandomNumber, SNAPSHOT))

NormalSlip ==
  /\ input = "time"
  /\ \E nodeID \in nodes, terminationTime \in TypedTimes :
       /\ isNumber(terminationTime)
       /\ sendTo(ControlMessage(normal, RandomNumber, terminationTime))
sendInit ==
  /\ input = "time"
  /\ \E nodeID \in nodes, terminationTime \in TypedTimes :
       /\ isNumber(terminationTime)
       /\ sendTo(ControlMessage(parametrize, RandomNumber, terminationTime))

PromptNext == \/ readInput
              \/ Abandon
              \/ tell
              \/ sendEchoShutdown
              \/ halt
              \/ snapshoot
              \/ sendInit

\* The prompt, and the message it sends on its way
InitiatorInit == PromptInit /\ MessageInit /\ message = NoMessage
InitiatorNext == \/ PromptNext
                 \/ MessageNext /\ UNCHANGED promptVars
InitiatorSpec ==
  InitiatorInit /\ [][InitiatorNext]_<<messageVars, promptVars>>

-----------------------------------------------------------------------------
\* What a node does with a message: handleControlMessage, the choice that the
\* loop makes before it, and the content of the wave that it starts

\* The time that a wave sets: stoi throws for one that is too long.
setsTime(m) ==
  IF isNumber(m.content) /\ m.content[1] # TooLong THEN NumberIn(m.content)
  ELSE Null

startsWave(m) == [does |-> "wave", number |-> m.number,
            stops |-> m.content = SHUTDOWN_ECHO, time |-> setsTime(m)]

handleControlMessage(m) ==
  IF m.content = SHUTDOWN THEN [does |-> "stop"]
  ELSE IF m.content = SHUTDOWN_ALL THEN [does |-> "stop all", number |-> m.number]
  ELSE IF m.content = SHUTDOWN_ECHO THEN startsWave(m)
  ELSE IF m.content = RESET THEN [does |-> "nothing"]
  ELSE IF m.type # parametrize THEN [does |-> "process"]
  ELSE IF isNumber(m.content) THEN startsWave(m) ELSE [does |-> "nothing"]

EffectOf(m) ==
  IF m.type \in {explorer, echo} THEN [does |-> "count"]
  ELSE IF m.form = "ControlMessage" THEN handleControlMessage(m)
  ELSE [does |-> "process application"]

\* The message of the order has been read, and what the node does with it
Arrived(order) ==
  received # NoMessage /\ received.outcome = "message" /\ ordered = order
effect == EffectOf(received.message)

(* An order to start, to halt, to send an echo or to set a time has the      *)
(* effect at the node that the help of the prompt gives it: halt stops the   *)
(* node or all of them, echo starts a wave that stops, with a number that    *)
(* every such order shares, and time starts a wave with the time that was    *)
(* typed.  Nothing is said of a time that is too long for an int, which      *)
(* nobody takes over, or of snap: SnapIsNotStart.                            *)
OrderTakesEffect ==
  /\ Arrived("start") => effect = [does |-> "process"]
  /\ Arrived("halt") =>
       \/ effect = [does |-> "stop"]
       \/ \E n \in nodes : effect = [does |-> "stop all", number |-> n]
  /\ Arrived("echo") =>
       effect = [does |-> "wave", number |-> 0, stops |-> TRUE, time |-> Null]
  /\ Arrived("time") /\ message.content[1] # TooLong =>
       effect = [does |-> "wave", number |-> RandomNumber, stops |-> FALSE,
                 time |-> NumberIn(message.content)]

(* "snap - Erzeuge Schnappschuss": the order to make a snapshot does not do  *)
(* what the order to start does, for which a candidate starts its campaign   *)
(* (handleControlMessage, which has no case for it).                         *)
SnapIsNotStart ==
  Arrived("snap") =>
    effect # EffectOf(ControlMessage(normal, 0, <<"START">>))
=============================================================================
