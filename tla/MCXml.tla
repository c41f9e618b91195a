------------------------------- MODULE MCXml -------------------------------
(***************************************************************************)
(* Small documents that a client edits, prints and parses; messages that   *)
(* are sent; orders that the prompt sends; nodes that start; values that   *)
(* are decoded; and the memory beneath them, a pool of items and the       *)
(* buffer of the printer: one of them happens in a behaviour.              *)
(***************************************************************************)
EXTENDS MCPrompt, XmlForm, Startup, StrPair, MemPool, PrintBuffer

VARIABLE part  \* which of them

restVars == <<startVars, strVars, poolVars, bufferVars>>
vars == <<dom, messageVars, promptVars, restVars, part>>

NodeOfKind(k, v) == [kind |-> k, value |-> <<v>>]
Kinds == {NodeOfKind("element", "a"), NodeOfKind("text", "x"),
          NodeOfKind("declaration", "\r\n")}
OneAttribute == {[name |-> <<"n">>, value |-> <<"&", "\r">>]}
DocumentNodes == 3  \* a document has at most so many

Timed == [form |-> "ApplicationMessage", type |-> 1, number |-> 0,
          sourceID |-> 2, destinationID |-> -1,
          vectorTimes |-> 0 :> 4 @@ 3 :> 2, content |-> <<"\r", "1", "<">>]
Sent == {Timed, [Timed EXCEPT !.vectorTimes = <<>>, !.content = <<" ">>]}

\* Lines as they are in the files, without a line for the listener or with
\* one, an identifier that is missing or repeated, and lines that no reader
\* accepts
AddressLine(n, name) == <<ToString(n), " ", name, ":", "7">>
Short == <<AddressLine(1, "a"), AddressLine(2, "b"), AddressLine(3, "c")>>
Addressed == {
  Short, <<AddressLine(0, "l"), <<>>>> \o Short,
  <<AddressLine(1, "a"), AddressLine(3, "c")>>,
  <<AddressLine(2, "b"), AddressLine(1, "a"), AddressLine(2, "c")>>,
  <<AddressLine(1, "a"), <<"2", " ", "b">>>>,
  <<AddressLine(1, "a"), AddressLine(2, "b") \o <<" ">>>>, <<>>}

Edge(a, b) == <<ToString(a), " ", "--", " ", ToString(b), ";">>
Lines == {<<"graph", " ", "G", " ", "{">>, <<>>, Edge(1, 2), Edge(3, 2),
          Edge(1, 1), Edge(1, 2) \o Edge(1, 3), Edge(2, 1) \o <<" ">>,
          <<"1", "--", "2", "--", "3", ";">>, <<"1", ";">>}
Graphs == {<<>>} \cup {<<a>> : a \in Lines}
                \cup {<<a, b>> : a, b \in Lines \ {<<>>}}

\* Pieces of a text, in ASCII: plain bytes and line ends, markup that is cut
\* short, named entities and numbers, among them what are digits behind a
\* second x, and those at which the UTF-8 form gets longer; the last ones have
\* none, or exceed UINT_MAX
Numbered10(s) == <<AMP, HASH>> \o s \o <<SEMICOLON>>
Numbered16(s) == Numbered10(<<SMALL_X>> \o s)
Pieces == {<<97>>, <<CR>>, <<LF>>, <<AMP>>, <<AMP, HASH>>, <<SEMICOLON>>,
           <<AMP, 108, 116, SEMICOLON>>, <<AMP, 113, 117, 111, 116, SEMICOLON>>,
           Numbered10(<<>>), Numbered10(<<54, 53>>), Numbered10(<<49, 50, 56>>),
           Numbered16(<<>>), Numbered16(<<49, 120, 50>>)}
Boundaries == {<<55, 70>>, <<56, 48>>, <<55, 102, 70>>, <<56, 48, 48>>,
               <<70, 70, 102, 70>>, <<49, 48, 48, 48, 48>>,
               <<49, 70, 70, 70, 70, 70>>, <<50, 48, 48, 48, 48, 48>>,
               <<49, 48, 48, 48, 48, 52, 49>>}
Strings == {<<97>>} \cup {a \o b : a, b \in Pieces}
  \cup {a \o b \o c : a, b, c \in Pieces} \cup {Numbered16(s) : s \in Boundaries}

\* Strings of no byte, of one and of several
Runs == {<<>>, <<97>>, <<98, 97, 98>>}

InitXml ==
  /\ Init
  /\ MessageInit
  /\ PromptInit
  /\ PoolInit
  /\ BufferInit
  /\ part \in {"document", "message", "prompt", "start", "string", "pool", "buffer"}
  /\ (part = "message") <=> (message # NoMessage)
  /\ IF part = "start" THEN TRUE
     ELSE nodeID = 1 /\ addressFile = <<>> /\ graphFile = <<>>
  /\ StartInit
  /\ IF part = "string" THEN TRUE ELSE source = <<97>> /\ flags = {}
  /\ StrInit

\* The document is finished when the printer comes to it, and what it has
\* printed is parsed.
Rewrite ==
  /\ \/ /\ visit = "idle"
        /\ Edit
        /\ Cardinality(Allocated(dom')) <= DocumentNodes
        /\ doc' = dom'
        /\ UNCHANGED <<printerVars, parserVars>>
     \/ /\ Accept \/ Printing
        /\ UNCHANGED <<dom, doc, parserVars>>
     \/ /\ visit = "done"
        /\ Parse(printer.out) \/ Parsing
        /\ UNCHANGED <<dom, doc, printerVars>>
  /\ UNCHANGED <<writing, root, xvectorTimes, left, transferVars>>

Rest ==
  \/ part = "start" /\ StartNext /\ UNCHANGED <<strVars, poolVars, bufferVars>>
  \/ part = "string" /\ StrNext /\ UNCHANGED <<startVars, poolVars, bufferVars>>
  \/ part = "pool" /\ PoolNext /\ UNCHANGED <<startVars, strVars, bufferVars>>
  \/ part = "buffer" /\ PrintFormat /\ UNCHANGED <<startVars, strVars, poolVars>>

NextXml ==
  /\ \/ part = "document" /\ Rewrite /\ UNCHANGED <<promptVars, restVars>>
     \/ part = "message" /\ MessageNext
        /\ UNCHANGED <<dom, promptVars, restVars>>
     \/ part = "prompt" /\ InitiatorNext /\ UNCHANGED <<dom, restVars>>
     \/ Rest /\ UNCHANGED <<dom, messageVars, promptVars>>
  /\ UNCHANGED part

SpecXml == InitXml /\ [][NextXml]_vars
=============================================================================
