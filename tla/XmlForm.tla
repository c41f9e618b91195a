------------------------------- MODULE XmlForm -------------------------------
(***************************************************************************)
(* A document that is printed and parsed again.                            *)
(***************************************************************************)
EXTENDS XmlPrinter, XmlParser

\* What a document says, whatever its cells and however its texts are cut up

RECURSIVE TreeFrom(_, _)
TreeFrom(d, n) ==
  IF n = Null THEN <<>>
  ELSE <<NodeOf(d, n) @@ [children |-> TreeFrom(d, d.firstChild[n])]>>
         \o TreeFrom(d, d.next[n])

\* Neighbouring texts are one text, and one of blanks only is none.
RECURSIVE Normal(_)
Normal(list) ==
  LET Join(done, x) ==
        IF x.kind = "text" /\ done # <<>> /\ Last(done).kind = "text"
        THEN Append(Front(done),
                    [Last(done) EXCEPT !.value = @ \o x.value])
        ELSE Append(done, [x EXCEPT !.children = Normal(@)])
  IN SelectSeq(FoldLeft(Join, <<>>, list),
       LAMBDA x : x.kind = "text" => ~(ToSet(x.value) \subseteq Blank))

TreeOf(d) == Normal(TreeFrom(d, d.firstChild[Document]))

\* The document with every line end in it a newline, which is how it is read
WithNewlines(d) ==
  LET value(a) == [a EXCEPT !.value = Normalized(@)]
  IN [d EXCEPT
        !.value = [n \in DOMAIN @ |-> IF n \in Linked(d) THEN Normalized(@[n])
                                      ELSE @[n]],
        !.attributes = [n \in DOMAIN @ |->
                          [i \in DOMAIN @[n] |-> value(@[n][i])]]]

\* A document the printer writes as it is: no text stands at the document,
\* and none directly before an element, whose indentation would become part
\* of it (XMLPrinter::OpenElement prints it even after text).
Unmixed(d) ==
  \A n \in Linked(d) :
    d.kind[n] = "text" =>
      /\ d.parent[n] # Document
      /\ d.next[n] # Null => d.kind[d.next[n]] # "element"

Misplaced(d) ==
  \E n \in InTree(d) :
    /\ d.kind[n] = "declaration"
    /\ \/ d.parent[n] # Document
       \/ d.prev[n] # Null /\ d.kind[d.prev[n]] # "declaration"

(* What is printed and parsed again is the same tree, but for line ends,     *)
(* which are read as newlines: layout does not enter a text, markup in a     *)
(* text does not become markup, and a document whose declarations are not at *)
(* its beginning, or an empty one, is refused.                               *)
PrintKeepsTree ==
  visit = "done" /\ charBuffer = printer.out /\ parsedAll /\ Unmixed(doc) =>
    /\ parsing = "failed" <=> InTree(doc) = {} \/ Misplaced(doc)
    /\ parsing = "done" => TreeOf(parsed) = TreeOf(WithNewlines(doc))
=============================================================================
