--------------------------- MODULE MessageFactory ---------------------------
(***************************************************************************)
(* A message on its way from one node to another: MessageFactory::write    *)
(* makes a document of it and prints that, the connection delivers what it *)
(* was given in one piece or in several, and MessageFactory::read parses   *)
(* the piece that a read has returned and looks the fields up in it.       *)
(***************************************************************************)
EXTENDS XmlPrinter, XmlParser

CONSTANTS
  Messages,    \* the messages that are sent
  NoMessage    \* message if none is sent, received before one is read

VARIABLES
  message,       \* what is sent
  writing,       \* "idle", "times", "printing" or "sent"
  root,          \* the element of the message
  xvectorTimes,  \* the element of its vector times
  left,          \* the nodes whose times are not yet written
  text,          \* its text, and the NUL behind it
  piece,         \* what a read has returned of it
  received       \* what MessageFactory::create made of the piece

writerVars == <<doc, writing, root, xvectorTimes, left>>
transferVars == <<message, text, piece, received>>
messageVars == <<writerVars, printerVars, parserVars, transferVars>>

Forms == {"ControlMessage", "ApplicationMessage"}
fieldNames == {"Type", "SourceID", "DestinationID", "VectorTimes", "Content"}

\* These names are words, and no number is one.
ASSUME NameAssumption ==
  Forms \cup fieldNames \cup {"Time", "Number", "NodeID"}
    \subseteq Symbol \ Digits

\* A content has no NUL, an entity in it is several symbols, and a line end is
\* one.
Halves == ({"\n"} \X {"\r", "\r\n"}) \cup ({"\r"} \X {"\n", "\n\r"})
Contents ==
  {v \in Seq(Symbol \ ({NUL} \cup {entities[c] : c \in DOMAIN entities})) :
     \A i \in 1..Len(v) - 1 : <<v[i], v[i + 1]>> \notin Halves}
IsMessage(m) ==
  /\ m = [form |-> m.form, type |-> m.type, number |-> m.number,
          sourceID |-> m.sourceID, destinationID |-> m.destinationID,
          vectorTimes |-> m.vectorTimes, content |-> m.content]
  /\ m.form \in Forms
  /\ {m.type, m.number, m.sourceID, m.destinationID} \subseteq Numbers
  /\ IsFiniteSet(DOMAIN m.vectorTimes)
  /\ DOMAIN m.vectorTimes \subseteq Numbers
  /\ m.vectorTimes \in [DOMAIN m.vectorTimes -> Numbers]
  /\ m.content \in Contents

ASSUME MessageAssumption == \A m \in Messages : IsMessage(m)

NumberIn(v) ==
  IF v # Null /\ \E k \in Numbers : Starts(v, 1, Numeral(k))
  THEN CHOOSE k \in Numbers : Starts(v, 1, Numeral(k)) ELSE Null

-----------------------------------------------------------------------------
\* writeXMLElement: a new element, and one with a text behind those below p

NewElement(d, name) == New(d, "element", <<name>>)
Added(d, p, name, v) ==
  LET e == Fresh(d)
  IN InsertEndChild(SetText(NewElement(d, name), e, v), p, e)

NumberAttribute(name, k) == [name |-> <<name>>, value |-> Numeral(k)]

\* Bound: the cells that a step takes
HasCells(k) == Cardinality(Node \ Allocated(doc)) >= k

writeHeader ==
  /\ message # NoMessage
  /\ writing = "idle"
  /\ HasCells(8)
  /\ LET d1 == SetAttribute(NewElement(doc, message.form), Fresh(doc),
                            NumberAttribute("Number", message.number))
         d2 == Added(d1, Fresh(doc), "Type", Numeral(message.type))
         d3 == Added(d2, Fresh(doc), "SourceID", Numeral(message.sourceID))
         d4 == Added(d3, Fresh(doc), "DestinationID",
                     Numeral(message.destinationID))
     IN /\ doc' = NewElement(d4, "VectorTimes")
        /\ xvectorTimes' = Fresh(d4)
  /\ root' = Fresh(doc)
  /\ left' = DOMAIN message.vectorTimes
  /\ writing' = "times"
  /\ UNCHANGED <<printerVars, parserVars, transferVars>>

\* A turn of the loop over the map, which is in order
writeTime ==
  /\ writing = "times"
  /\ left # {}
  /\ HasCells(2)
  /\ LET id == Min(left)
         e == Fresh(doc)
         made == SetAttribute(NewElement(doc, "Time"), e,
                              NumberAttribute("NodeID", id))
         filled == SetText(made, e, Numeral(message.vectorTimes[id]))
     IN /\ doc' = InsertEndChild(filled, xvectorTimes, e)
        /\ left' = left \ {id}
  /\ UNCHANGED <<writing, root, xvectorTimes, printerVars, parserVars,
                 transferVars>>

\* The rest of it, and write up to the printer
writeContent ==
  /\ writing = "times"
  /\ left = {}
  /\ HasCells(2)
  /\ doc' = InsertEndChild(Added(InsertEndChild(doc, root, xvectorTimes), root,
                                 "Content", message.content),
                           Document, root)
  /\ writing' = "printing"
  /\ UNCHANGED <<root, xvectorTimes, left, printerVars, parserVars,
                 transferVars>>

write ==
  /\ writing = "printing"
  /\ Accept \/ Printing
  /\ UNCHANGED <<writerVars, parserVars, transferVars>>

Sends(symbols) ==
  /\ writing = "printing"
  /\ visit = "done"
  /\ text' = Append(symbols, NUL)
  /\ writing' = "sent"
  /\ UNCHANGED <<doc, root, xvectorTimes, left, printerVars, parserVars,
                 message, piece, received>>

\* The end of convertToString, and the NUL that sendTo appends
convertToString == Sends(printer.out)

\* A read returns what has come until then, and the next one goes on there.
Arrive ==
  /\ piece = <<>>
  /\ \E i, j \in DOMAIN text : i <= j /\ piece' = SubSeq(text, i, j)
  /\ UNCHANGED <<writerVars, printerVars, parserVars, message, text, received>>

-----------------------------------------------------------------------------
\* read: a field that is not there is a null pointer that it follows, which
\* ends the process; a time that is no number is an exception, for which the
\* reader closes the connection.

Dies == [outcome |-> "dies"]
Throws == [outcome |-> "throws"]

IntText(d, e) == IF NumberIn(GetText(d, e)) = Null THEN 0
                 ELSE NumberIn(GetText(d, e))

\* VectorTime::setTime, once for each time: what it has for a node that does
\* not count from 1 is left out, and of several times the largest one stays.
readTimes(d, list) ==
  LET T == ElementsBelow(d, list, <<"Time">>)
      id(i) == NumberIn(AttributeOf(d, ListOf(d, list)[i], <<"NodeID">>))
      time(i) == NumberIn(GetText(d, ListOf(d, list)[i]))
  IN [k \in {id(i) : i \in T} \ {n \in Numbers : n <= 0} |->
        Max({time(i) : i \in {j \in T : id(j) = k}})]

\* Of an element with all that is looked up in it
readMessage(d, e) ==
  LET field(name) == FirstChildElement(d, e, <<name>>)
      number == NumberIn(AttributeOf(d, e, <<"Number">>))
  IN [form |-> d.value[e][1],
      number |-> IF number = Null THEN 0 ELSE number,
      type |-> IntText(d, field("Type")),
      sourceID |-> IntText(d, field("SourceID")),
      destinationID |-> IntText(d, field("DestinationID")),
      vectorTimes |-> readTimes(d, field("VectorTimes")),
      content |-> GetText(d, field("Content"))]

hasAll(d, e, names) ==
  \A name \in names : FirstChildElement(d, e, <<name>>) # Null

hasTimes(d, list) ==
  \A i \in ElementsBelow(d, list, <<"Time">>) :
    /\ NumberIn(AttributeOf(d, ListOf(d, list)[i], <<"NodeID">>)) # Null
    /\ NumberIn(GetText(d, ListOf(d, list)[i])) # Null

hasContent(d, e) ==
  /\ hasAll(d, e, {"Content"})
  /\ GetText(d, FirstChildElement(d, e, <<"Content">>)) # Null

Reading(d) ==
  LET e == d.firstChild[Document]
  IN IF e = Null THEN Dies
     ELSE IF d.kind[e] # "element" THEN [outcome |-> "nullptr"]
     ELSE IF ~hasAll(d, e, fieldNames \ {"Content"}) THEN Dies
     ELSE IF ~hasTimes(d, FirstChildElement(d, e, <<"VectorTimes">>)) THEN Throws
     ELSE IF ~hasContent(d, e) \/ d.value[e] \notin {<<f>> : f \in Forms}
     THEN Dies
     ELSE [outcome |-> "message", message |-> readMessage(d, e)]

\* The caller has checked that the piece is not empty.
create ==
  /\ piece # <<>>
  /\ Parse(piece) \/ Parsing
  /\ UNCHANGED <<writerVars, printerVars, transferVars>>

read ==
  /\ parsedAll
  /\ received = NoMessage
  /\ received' = Reading(parsed)
  /\ UNCHANGED <<writerVars, printerVars, parserVars, message, text, piece>>

-----------------------------------------------------------------------------
TransferInit ==
  /\ message \in Messages \cup {NoMessage}
  /\ text = <<>>
  /\ piece = <<>>
  /\ received = NoMessage

MessageInit ==
  /\ doc = Empty
  /\ PrinterInit
  /\ ParserInit
  /\ TransferInit
  /\ writing = "idle"
  /\ root = Null
  /\ xvectorTimes = Null
  /\ left = {}

MessageNext == \/ writeHeader
               \/ writeTime
               \/ writeContent
               \/ write
               \/ convertToString
               \/ Arrive
               \/ create
               \/ read

MessageSpec == MessageInit /\ [][MessageNext]_messageVars

-----------------------------------------------------------------------------
isBlank(v) == ToSet(v) \subseteq Blank

\* Up to blanks before and behind, which the connection may also have cut off
isWhole ==
  LET whole == UptoNUL(text)
      part == UptoNUL(piece)
  IN \E i \in 0..Len(whole) - Len(part) :
       /\ part = SubSeq(whole, i + 1, i + Len(part))
       /\ \A k \in DOMAIN whole :
            whole[k] \notin Blank => k \in i + 1..i + Len(part)

\* What the reader makes of a message with a content that is not blank: line
\* ends are newlines, and only nodes from 1 on have a time.
asRead(m) ==
  [m EXCEPT !.vectorTimes =
              [n \in {k \in DOMAIN m.vectorTimes : k > 0} |-> m.vectorTimes[n]],
            !.content = Normalized(@)]

(* A message that arrives whole, with a content that is not blank, is read   *)
(* as the message that was sent, with all its fields: what is lost is which  *)
(* line ends the content had, and a time of a node below 1.  Nothing is said *)
(* of a message with a blank content, which ends the reader: BlankIsFatal in *)
(* MessageProofs.                                                            *)
MessageSurvives ==
  received # NoMessage /\ isWhole /\ ~isBlank(message.content) =>
    received = [outcome |-> "message", message |-> asRead(message)]

(* A piece of a message is never taken for a message, neither for the one    *)
(* that was sent nor for another one.                                        *)
PieceIsNoMessage ==
  received # NoMessage /\ ~isWhole => received.outcome # "message"
=============================================================================
