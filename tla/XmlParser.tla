------------------------------ MODULE XmlParser ------------------------------
(***************************************************************************)
(* XMLDocument::Parse makes a document of a text.  The functions of the     *)
(* parser call each other for what is below an element; here the elements  *)
(* whose calls have not returned are a stack, and a step is one turn of    *)
(* the loop of XMLNode::ParseDeep up to the next such call, or of the loop *)
(* of XMLElement::ParseAttributes.  An element is inserted below its       *)
(* parent when its call returns.                                           *)
(***************************************************************************)
EXTENDS XmlText

VARIABLES
  charBuffer, \* the text up to its NUL
  place,    \* the place in it
  parsed,   \* the document
  open,     \* the elements whose children are being parsed, innermost last
  tag,      \* the element whose attributes are being parsed
  closing,  \* whether that is a closing tag
  parsing   \* "idle", "children", "attributes", "done" or "failed"

parserVars == <<charBuffer, place, parsed, open, tag, closing, parsing>>

\* In the operators t is a text and p a place in it.
AtEnd(t, p) == p > Len(t)
Starts(t, p, symbols) ==
  /\ p + Len(symbols) - 1 <= Len(t)
  /\ \A i \in DOMAIN symbols : t[p + i - 1] = symbols[i]

\* The first place from p on that is at the end or has no element of S
Skip(t, p, S) ==
  IF AtEnd(t, p) THEN p
  ELSE Min({i \in p..Len(t) + 1 : AtEnd(t, i) \/ t[i] \notin S})
SkipWhiteSpace(t, p) == Skip(t, p, Blank)
ParseName(t, p) ==
  IF AtEnd(t, p) \/ ~IsNameStartChar(t[p]) THEN p
  ELSE Skip(t, p, {c \in ToSet(t) : IsNameChar(c)})

\* Where the end tag is, 0 if the text ends before
ParseText(t, p, end) ==
  LET found == {q \in p..Len(t) : Starts(t, q, end)}
  IN IF found = {} THEN 0 ELSE Min(found)

\* StrPair::GetStr, as it is asked for a value of a comment, a declaration or
\* a CDATA section: every line end becomes a newline
AsNewline(c) == IF c \in LineEnd THEN "\n" ELSE c
Normalized(v) == [i \in DOMAIN v |-> AsNewline(v[i])]

\* And as it is asked for a text or the value of an attribute, where it also
\* decodes entities.  A "&" that begins none, which no printer writes, is in
\* StrPair.
Unescaped(c) ==
  IF \E e \in DOMAIN entities : entities[e] = c
  THEN CHOOSE e \in DOMAIN entities : entities[e] = c ELSE AsNewline(c)
NewlineSlip(v) ==
  [i \in DOMAIN v |-> IF v[i] \in LineEnd THEN v[i] ELSE Unescaped(v[i])]
GetStr(v) == [i \in DOMAIN v |-> Unescaped(v[i])]

\* XMLAttribute::ParseDeep: the attribute and the place behind it, 0 if there
\* is none
NoAttribute == [p |-> 0, a |-> Null]
Quoted(t, name, quote) ==
  LET close == IF AtEnd(t, quote) \/ t[quote] \notin {"\"", "'"} THEN 0
               ELSE ParseText(t, quote + 1, <<t[quote]>>)
  IN IF close = 0 THEN NoAttribute
     ELSE [p |-> close + 1,
           a |-> [name |-> name,
                  value |-> GetStr(SubSeq(t, quote + 1, close - 1))]]
AttributeAt(t, p) ==
  LET name == ParseName(t, p)
      eq == SkipWhiteSpace(t, name)
  IN IF Starts(t, eq, <<"=">>)
     THEN Quoted(t, SubSeq(t, p, name - 1), SkipWhiteSpace(t, eq + 1))
     ELSE NoAttribute

\* The kind of the node at p and the place behind its header
Identify(t, p) ==
  LET q == SkipWhiteSpace(t, p)
      found == {i \in DOMAIN Header : Starts(t, q, Header[i].start)}
      h == Header[Min(found)]
  IN IF AtEnd(t, q) THEN [kind |-> "none", p |-> q]
     ELSE IF found = {} THEN [kind |-> "text", p |-> p]
     ELSE [kind |-> h.kind, p |-> q + Len(h.start)]

\* XMLText, XMLComment, XMLDeclaration and XMLUnknown: the value and the place
\* behind it, 0 if it is not ended.  A text goes on up to the next "<", which
\* must not be the end.
ContentAt(t, kind, p) ==
  LET end == IF kind = "text" THEN <<"<">> ELSE HeaderOf(kind).end
      q == ParseText(t, p, end)
      raw == SubSeq(t, p, q - 1)
  IN IF q = 0 \/ (kind = "text" /\ q = Len(t)) THEN [p |-> 0, value |-> <<>>]
     ELSE IF kind = "text" THEN [p |-> q, value |-> GetStr(raw)]
     ELSE [p |-> q + Len(end), value |-> Normalized(raw)]

\* Declarations come first, at the document.
WellLocated(d, parent) ==
  /\ parent = Document
  /\ \A n \in Linked(d) : d.parent[n] = Document => d.kind[n] = "declaration"

\* The node of a closing tag is created and then immediately deleted.
UntrackedClosingSlip(d, n) == Freed(d, {n})
Dropped(d, n) == Freed(SetTracked(d, n), {n})

Innermost(stack) == IF stack = <<>> THEN Document ELSE stack[Len(stack)]
holder == Innermost(open)
outer == SubSeq(open, 1, Len(open) - 1)

-----------------------------------------------------------------------------
ParserInit ==
  /\ charBuffer = <<>>
  /\ place = 1
  /\ parsed = Empty
  /\ open = <<>>
  /\ tag = Null
  /\ closing = FALSE
  /\ parsing = "idle"

\* An error at any depth ends the loops of all elements that are open, and
\* clears the document and its pools.
Fail ==
  /\ parsing' = "failed"
  /\ parsed' = Empty
  /\ open' = <<>>
  /\ tag' = Null
  /\ UNCHANGED <<charBuffer, place, closing>>

\* A NUL ends the text.
UptoNUL(t) ==
  IF \E i \in DOMAIN t : t[i] = NUL
  THEN SubSeq(t, 1, Min({i \in DOMAIN t : t[i] = NUL}) - 1) ELSE t

Parse(text) ==
  /\ parsing = "idle"
  /\ charBuffer' = UptoNUL(text)
  /\ place' = SkipWhiteSpace(charBuffer', 1)
  /\ parsing' = IF AtEnd(charBuffer', place') THEN "failed" ELSE "children"
  /\ UNCHANGED <<parsed, open, tag, closing>>

-----------------------------------------------------------------------------
\* XMLNode::ParseDeep, at its parent holder

Next == Identify(charBuffer, place)
InLoop(kinds) ==
  /\ parsing = "children"
  /\ IF AtEnd(charBuffer, place) THEN "none" \in kinds ELSE Next.kind \in kinds

\* The text ends: so does the document, but no element may be open.
ParseEnd ==
  /\ InLoop({"none"})
  /\ IF open # <<>> THEN Fail
     ELSE /\ parsing' = "done"
          /\ UNCHANGED <<charBuffer, place, parsed, open, tag, closing>>

\* Bound: the model has no step for a node when there is no cell left.
HasCell == Allocated(parsed) # Node

ParseMarked ==
  /\ InLoop(Kind \ {"element"})
  /\ HasCell
  /\ LET content == ContentAt(charBuffer, Next.kind, Next.p)
         made == New(parsed, Next.kind, content.value)
     IN IF \/ content.p = 0
           \/ Next.kind = "declaration" /\ ~WellLocated(parsed, holder)
        THEN Fail
        ELSE /\ parsed' = InsertEndChild(made, holder, Fresh(parsed))
             /\ place' = content.p
             /\ UNCHANGED <<charBuffer, open, tag, closing, parsing>>

\* XMLElement::ParseDeep up to the attributes
ParseElement ==
  /\ InLoop({"element"})
  /\ HasCell
  /\ LET p == SkipWhiteSpace(charBuffer, Next.p)
         slash == Starts(charBuffer, p, <<"/">>)
         start == IF slash THEN p + 1 ELSE p
         end == ParseName(charBuffer, start)
     IN IF end = start THEN Fail
        ELSE /\ parsed' = New(parsed, "element", SubSeq(charBuffer, start, end - 1))
             /\ tag' = Fresh(parsed)
             /\ closing' = slash
             /\ place' = end
             /\ parsing' = "attributes"
             /\ UNCHANGED <<charBuffer, open>>

-----------------------------------------------------------------------------
\* XMLElement::ParseAttributes, and what follows when the tag ends

Here == SkipWhiteSpace(charBuffer, place)
InTag == parsing = "attributes"

ParseAttribute ==
  /\ InTag
  /\ ~AtEnd(charBuffer, Here)
  /\ IsNameStartChar(charBuffer[Here])
  /\ LET r == AttributeAt(charBuffer, Here)
     IN IF r.p = 0 \/ FindAttribute(parsed, tag, r.a.name) # 0 THEN Fail
        ELSE /\ parsed' = SetAttribute(parsed, tag, r.a)
             /\ place' = r.p
             /\ UNCHANGED <<charBuffer, open, tag, closing, parsing>>

\* No attribute and no end of the tag; or an opening tag ends the text, so
\* that its element has no end tag.
BadTag ==
  /\ InTag
  /\ ~AtEnd(charBuffer, Here) =>
       IF Starts(charBuffer, Here, <<">">>)
       THEN AtEnd(charBuffer, Here + 1) /\ ~closing
       ELSE /\ ~IsNameStartChar(charBuffer[Here])
            /\ ~Starts(charBuffer, Here, <<"/", ">">>)
  /\ Fail

TagEnds(p) ==
  /\ tag' = Null
  /\ closing' = FALSE
  /\ place' = p
  /\ parsing' = "children"
  /\ UNCHANGED charBuffer

\* Also a closing tag that ends so is an element.
ClosedElement ==
  /\ InTag
  /\ Starts(charBuffer, Here, <<"/", ">">>)
  /\ parsed' = InsertEndChild(parsed, holder, tag)
  /\ TagEnds(Here + 2)
  /\ UNCHANGED open

OpenTag ==
  /\ InTag
  /\ Starts(charBuffer, Here, <<">">>)
  /\ ~closing
  /\ ~AtEnd(charBuffer, Here + 1)
  /\ open' = Append(open, tag)
  /\ TagEnds(Here + 1)
  /\ UNCHANGED parsed

\* It ends the innermost element, if that has its name.
UnendedTagSlip ==
  /\ InTag
  /\ closing
  /\ open # <<>>
  /\ IF parsed.value[tag] # parsed.value[holder] THEN Fail
     ELSE /\ parsed' = InsertEndChild(Dropped(parsed, tag), Innermost(outer),
                                      holder)
          /\ open' = outer
          /\ TagEnds(Here + 1)
ClosingTag ==
  /\ InTag
  /\ Starts(charBuffer, Here, <<">">>)
  /\ closing
  /\ open # <<>>
  /\ IF parsed.value[tag] # parsed.value[holder] THEN Fail
     ELSE /\ parsed' = InsertEndChild(Dropped(parsed, tag), Innermost(outer),
                                      holder)
          /\ open' = outer
          /\ TagEnds(Here + 1)

\* At the document it ends the parse, and that is no error.
StrayTag ==
  /\ InTag
  /\ Starts(charBuffer, Here, <<">">>)
  /\ closing
  /\ open = <<>>
  /\ parsed' = Dropped(parsed, tag)
  /\ parsing' = "done"
  /\ tag' = Null
  /\ closing' = FALSE
  /\ place' = Here + 1
  /\ UNCHANGED <<charBuffer, open>>

Parsing == \/ ParseEnd
           \/ ParseMarked
           \/ ParseElement
           \/ ParseAttribute
           \/ BadTag
           \/ ClosedElement
           \/ OpenTag
           \/ ClosingTag
           \/ StrayTag

\* The parser by itself, with any text
ParserSpec ==
  /\ ParserInit
  /\ [][(\E t \in Value : Parse(t)) \/ Parsing]_parserVars

-----------------------------------------------------------------------------
\* Below the document
InTree(d) == Below(d, {n \in Node : d.parent[n] = Document})

parsedAll == parsing \in {"done", "failed"}

(* Whatever the text is, the parser leaves a sound document: the lists are   *)
(* well linked, every node that was allocated is in the tree, and the pools  *)
(* have counted them, so the assertions of XMLDocument::Clear hold.          *)
ParseLeavesNothing ==
  parsedAll =>
    /\ IsWellLinked(parsed)
    /\ IsCounted(parsed)
    /\ InTree(parsed) = Allocated(parsed)

(* No turn of a loop of the parser stays where it is, so that every parse    *)
(* ends: a step goes on in the text, or is the last.                         *)
Advances ==
  parsing \in {"children", "attributes"} =>
    place' > place \/ parsing' \in {"done", "failed"}
ParserAdvances == [][Advances]_parserVars
=============================================================================
