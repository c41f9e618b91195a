------------------------------- MODULE XmlText -------------------------------
(***************************************************************************)
(* The text of a document.  It is a sequence of symbols: a name, a number, *)
(* a piece of markup, an entity or a blank is one each, and an indentation *)
(* is one blank a level.  A line end is one symbol too, also one of a       *)
(* carriage return and a newline, in either order: a text has none of its  *)
(* halves next to each other.  What cuts a symbol in two has the effect of *)
(* a cut before or behind it.                                              *)
(***************************************************************************)
EXTENDS XmlDom, SequencesExt, TLC

CONSTANT Numbers  \* the numbers that occur in a text

Numeral(k) == <<ToString(k)>>
Digits == {ToString(k) : k \in Numbers}
NUL == "NUL"
LineEnd == {"\n", "\r", "\r\n", "\n\r"}
Blank == {" ", "\t"} \cup LineEnd

entities == [c \in {"\"", "&", "'", "<", ">"} |->
               CASE c = "\"" -> "&quot;" [] c = "&" -> "&amp;"
                 [] c = "'" -> "&apos;" [] c = "<" -> "&lt;"
                 [] OTHER -> "&gt;"]
restrictedEntities == {"&", "<", ">"}

Markup == Blank \cup DOMAIN entities
  \cup {NUL, "/", "=", "!", "?", "--", "[CDATA[", "]]"}
  \cup {entities[c] : c \in DOMAIN entities}
IsNameStartChar(c) == c \notin Markup \cup Digits
IsNameChar(c) == c \notin Markup

ASSUME MarkupAssumption == Markup \cup Digits \subseteq Symbol

\* A number is no null pointer, and its decimal form a symbol like no other.
ASSUME NumeralAssumption ==
  /\ Numbers \subseteq Int
  /\ Null \notin Numbers
  /\ Digits \cap Markup = {}
  /\ \A j, k \in Numbers : ToString(j) = ToString(k) => j = k

\* The headers that Identify looks for, in its order, and what ends each
Header == <<
  [kind |-> "declaration", start |-> <<"<", "?">>, end |-> <<"?", ">">>],
  [kind |-> "comment", start |-> <<"<", "!", "--">>, end |-> <<"--", ">">>],
  [kind |-> "cdata", start |-> <<"<", "!", "[CDATA[">>, end |-> <<"]]", ">">>],
  [kind |-> "unknown", start |-> <<"<", "!">>, end |-> <<">">>],
  [kind |-> "element", start |-> <<"<">>, end |-> <<">">>]>>
HeaderOf(kind) == CHOOSE h \in ToSet(Header) : h.kind = kind
=============================================================================
