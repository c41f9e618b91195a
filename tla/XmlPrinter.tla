----------------------------- MODULE XmlPrinter -----------------------------
(***************************************************************************)
(* XMLPrinter visits the nodes of the document doc, each before what is     *)
(* below it, elements once more behind that, and appends to its output.  A *)
(* step is one call of the visitor, or one turn of its loop over the       *)
(* attributes.                                                             *)
(***************************************************************************)
EXTENDS XmlText

VARIABLES
  doc,        \* the document that is printed
  printer,    \* the members of XMLPrinter; out is its buffer
  visit,      \* "idle", "enter", "attributes", "exit" or "done"
  at,         \* the node it is at
  attribute   \* how many attributes of it are printed

printerVars == <<printer, visit, at, attribute>>

Emit(s, symbols) == [s EXCEPT !.out = @ \o symbols]
Space(depth) == [i \in 1..depth |-> " "]
NewLine(s) == IF s.textDepth < 0 /\ ~s.firstElement THEN <<"\n">> ELSE <<>>
PrintString(v, flagged) ==
  [i \in DOMAIN v |-> IF v[i] \in flagged THEN entities[v[i]] ELSE v[i]]

SealElementIfJustOpened(s) ==
  IF s.elementJustOpened
  THEN [Emit(s, <<">">>) EXCEPT !.elementJustOpened = FALSE] ELSE s

OpenElement(s, name) ==
  LET e == SealElementIfJustOpened(s)
  IN [Emit(e, NewLine(e) \o Space(e.depth) \o <<"<">> \o name)
        EXCEPT !.elementJustOpened = TRUE, !.firstElement = FALSE,
               !.depth = @ + 1]

PushAttribute(s, a) ==
  Emit(s, <<" ">> \o a.name \o <<"=", "\"">> \o
           PrintString(a.value, DOMAIN entities) \o <<"\"">>)

CloseElement(s, name) ==
  LET depth == s.depth - 1
      layout == IF s.textDepth < 0 THEN <<"\n">> \o Space(depth) ELSE <<>>
      end == IF s.elementJustOpened THEN <<"/", ">">>
             ELSE layout \o <<"<", "/">> \o name \o <<">">>
  IN [Emit(s, end \o IF depth = 0 THEN <<"\n">> ELSE <<>>)
        EXCEPT !.depth = depth, !.elementJustOpened = FALSE,
               !.textDepth = IF @ = depth THEN -1 ELSE @]

LayoutSlip(s, kind, v) ==
  Emit(SealElementIfJustOpened(s), PrintString(v, restrictedEntities))
PushText(s, kind, v) ==
  Emit([SealElementIfJustOpened(s) EXCEPT !.textDepth = s.depth - 1],
       IF kind = "cdata" THEN <<"<", "!", "[CDATA[">> \o v \o <<"]]", ">">>
                         ELSE PrintString(v, restrictedEntities))

\* PushComment, PushDeclaration and PushUnknown
PushMarked(s, kind, v) ==
  LET h == HeaderOf(kind)
      e == SealElementIfJustOpened(s)
      layout == IF NewLine(e) = <<>> THEN <<>> ELSE <<"\n">> \o Space(e.depth)
  IN [Emit(e, layout \o h.start \o v \o h.end) EXCEPT !.firstElement = FALSE]

-----------------------------------------------------------------------------
PrinterInit ==
  /\ printer = [out |-> <<>>, elementJustOpened |-> FALSE,
                firstElement |-> TRUE, depth |-> 0, textDepth |-> -1]
  /\ visit = "idle"
  /\ at = Null
  /\ attribute = 0

\* The node n is next, or if there is none the end of its parent p.
Goes(n, p) ==
  /\ attribute' = 0
  /\ IF n # Null THEN visit' = "enter" /\ at' = n
     ELSE IF p # Document THEN visit' = "exit" /\ at' = p
     ELSE visit' = "done" /\ at' = Null
GoesOn == Goes(doc.next[at], doc.parent[at])

Accept ==
  /\ visit = "idle"
  /\ Goes(doc.firstChild[Document], Document)
  /\ UNCHANGED printer

VisitEnter ==
  /\ visit = "enter"
  /\ doc.kind[at] = "element"
  /\ printer' = OpenElement(printer, doc.value[at])
  /\ visit' = "attributes"
  /\ UNCHANGED <<at, attribute>>

VisitAttribute ==
  /\ visit = "attributes"
  /\ attribute < Len(doc.attributes[at])
  /\ attribute' = attribute + 1
  /\ printer' = PushAttribute(printer, doc.attributes[at][attribute'])
  /\ UNCHANGED <<visit, at>>

VisitChildren ==
  /\ visit = "attributes"
  /\ attribute = Len(doc.attributes[at])
  /\ Goes(doc.firstChild[at], at)
  /\ UNCHANGED printer

VisitExit ==
  /\ visit = "exit"
  /\ printer' = CloseElement(printer, doc.value[at])
  /\ GoesOn

Visit ==
  /\ visit = "enter"
  /\ doc.kind[at] # "element"
  /\ LET Push(s, kind, v) == IF isText(kind) THEN PushText(s, kind, v)
                             ELSE PushMarked(s, kind, v)
     IN printer' = Push(printer, doc.kind[at], doc.value[at])
  /\ GoesOn

Printing == \/ VisitEnter
            \/ VisitAttribute
            \/ VisitChildren
            \/ VisitExit
            \/ Visit
=============================================================================
