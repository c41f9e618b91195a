---------------------------- MODULE MessageProofs ----------------------------
(***************************************************************************)
(* What is proved about a message on its way, for any message and any cut. *)
(*                                                                         *)
(* The text of a message has one tag that begins with the name of its form *)
(* and at most one that closes it, and a document is read as a message     *)
(* only if both were in its text.                                          *)
(*                                                                         *)
(* What is written is one tree, laid down by the message (TreeInv).  What  *)
(* the printer has appended is told by the node at which it is (PlaceInv), *)
(* so the text is laid down by the message, too (SentInv).  A piece that   *)
(* has the last tag is the whole text, and what the parser has made of it  *)
(* is told by the place at which it is (ReadInv): in the end it is the     *)
(* tree of the message, and the fields that are read in that are its own.  *)
(***************************************************************************)
EXTENDS Initiator, XmlProofs

-----------------------------------------------------------------------------
(* The tags in the text of a message                                        *)

Names == fieldNames \cup {"Time"}
Texts == Seq(Symbol \ {NUL})
Plain == Seq(Symbol \ {"<", NUL})

IsInnerTag(s, q) ==
  \/ q + 1 <= Len(s) /\ s[q + 1] \in Names
  \/ q + 2 <= Len(s) /\ s[q + 1] = "/" /\ s[q + 2] \in Names

\* What may be between the opening tag of the message and its closing one
Inner(s) ==
  /\ s \in Texts
  /\ \A q \in 1..Len(s) : s[q] = "<" => IsInnerTag(s, q)

Started(o, f) == \E s : Inner(s) /\ o = <<"<", f>> \o s
Finished(o, f) ==
  \E s, b : /\ Inner(s) /\ b \in Seq(Blank)
            /\ o = (<<"<", f>> \o s) \o (<<"<", "/", f, ">">> \o b)

LEMMA SomeSymbols ==
  /\ Names \subseteq Symbol \ ({"<", NUL} \cup Blank) /\ "/" \notin Names
  /\ Forms \subseteq Symbol \ ({"<", NUL, "/"} \cup Blank)
  /\ Forms \cap Names = {}
  /\ {"<", ">", "/", "=", "\"", " ", "\n"} \subseteq Symbol \ {NUL}
  /\ {">", "/", "=", "\"", " ", "\n", "Number", "NodeID"} \subseteq Symbol \ {"<", NUL}
  /\ \A c \in DOMAIN entities : entities[c] \in Symbol \ {"<", NUL}
  /\ DOMAIN entities = {"\"", "&", "'", "<", ">"}
<1>1. DOMAIN entities = {"\"", "&", "'", "<", ">"}
  BY DEF entities
<1>2. /\ Names \subseteq Symbol \ ({"<", NUL} \cup Blank) /\ "/" \notin Names
      /\ Forms \subseteq Symbol \ ({"<", NUL, "/"} \cup Blank)
      /\ Forms \cap Names = {}
  BY NameAssumption DEF Names, fieldNames, Forms, NUL, Blank, LineEnd
<1>3. /\ {"<", ">", "/", "=", "\"", " ", "\n"} \subseteq Symbol \ {NUL}
      /\ {">", "/", "=", "\"", " ", "\n", "Number", "NodeID"}
           \subseteq Symbol \ {"<", NUL}
  BY <1>1, MarkupAssumption, NameAssumption DEF Markup, Blank, LineEnd, NUL
<1>4. ASSUME NEW c \in DOMAIN entities PROVE entities[c] \in Symbol \ {"<", NUL}
  <2>1. entities[c] \in Symbol
    BY <1>4, MarkupAssumption DEF Markup
  <2>2. entities[c] \in {"&quot;", "&amp;", "&apos;", "&lt;", "&gt;"}
    BY <1>4 DEF entities
  <2> QED BY <2>1, <2>2 DEF NUL
<1> QED BY <1>1, <1>2, <1>3, <1>4

LEMMA BlankSymbols ==
  /\ Blank \subseteq Symbol \ {"<", NUL} /\ Blank \subseteq Markup
  /\ Blank \cap {"<", ">", "/", "=", "\"", "!", "?"} = {}
  /\ " " \in Blank /\ "\n" \in Blank
<1>1. Blank \subseteq Symbol /\ Blank \subseteq Markup
  BY MarkupAssumption DEF Markup
<1>2. Blank = {" ", "\t", "\n", "\r", "\r\n", "\n\r"}
  BY DEF Blank, LineEnd
<1> QED BY <1>1, <1>2 DEF NUL

\* The symbols of a content, and what is one
Inside == Symbol \ ({NUL} \cup {entities[c] : c \in DOMAIN entities})

LEMMA ContentIsText ==
  ASSUME NEW w \in Contents
  PROVE  /\ w \in Seq(Inside) /\ w \in Texts /\ w \in Value
         /\ \A i \in 1..Len(w) : /\ w[i] \in Symbol
                                 /\ \A c \in DOMAIN entities : entities[c] # w[i]
<1>1. w \in Seq(Inside)
  BY DEF Contents, Inside
<1>2. Inside \subseteq Symbol \ {NUL} /\ Inside \subseteq Symbol
  BY DEF Inside
<1>3. w \in Texts /\ w \in Value
  BY <1>1, <1>2, SeqMonotonic DEF Texts, Value
<1>4. \A i \in 1..Len(w) : w[i] \in Inside
  BY <1>1, ElementOfSeq
<1> QED BY <1>1, <1>3, <1>4 DEF Inside

\* A text of one line
LEMMA LineIsContent ==
  ASSUME NEW w \in Seq(Inside \ LineEnd)
  PROVE  w \in Contents /\ Normalized(w) = w
<1>1. Halves \subseteq LineEnd \X LineEnd
  BY DEF Halves, LineEnd
<1>2. Len(w) \in Nat /\ w = [i \in 1..Len(w) |-> w[i]] /\ DOMAIN w = 1..Len(w)
  OBVIOUS
<1>3. \A i \in 1..Len(w) : w[i] \notin LineEnd /\ AsNewline(w[i]) = w[i]
  BY ElementOfSeq DEF AsNewline
<1>4. \A i \in 1..Len(w) - 1 : <<w[i], w[i + 1]>> \notin Halves
  BY <1>1, <1>2, <1>3
<1>5. w \in Seq(Inside)
  BY SeqMonotonic
<1>6. Normalized(w) = w
  BY <1>2, <1>3 DEF Normalized
<1> QED BY <1>4, <1>5, <1>6 DEF Contents, Inside

LEMMA PlainIsInner ==
  ASSUME NEW s \in Plain PROVE Inner(s)
<1>1. s \in Texts
  BY SeqMonotonic DEF Plain, Texts
<1>2. \A q \in 1..Len(s) : s[q] # "<"
  BY ElementOfSeq DEF Plain
<1> QED BY <1>1, <1>2 DEF Inner

LEMMA TagIsInner ==
  ASSUME NEW name \in Names
  PROVE  Inner(<<"<", name>>) /\ Inner(<<"<", "/", name, ">">>)
<1>1. name \in Symbol \ {"<", NUL} /\ {"<", "/", ">"} \subseteq Symbol \ {NUL}
  BY SomeSymbols
<1>2. Inner(<<"<", name>>)
  <2> DEFINE s == <<"<", name>>
  <2>1. s \in Texts /\ Len(s) = 2 /\ s[2] = name
    BY <1>1 DEF Texts
  <2>2. \A q \in 1..2 : s[q] = "<" => q = 1
    BY <1>1
  <2> QED BY <2>1, <2>2 DEF Inner, IsInnerTag
<1>3. Inner(<<"<", "/", name, ">">>)
  <2> DEFINE s == <<"<", "/", name, ">">>
  <2>1. s \in Texts /\ Len(s) = 4 /\ s[2] = "/" /\ s[3] = name
    BY <1>1 DEF Texts
  <2>2. \A q \in 1..4 : s[q] = "<" => q = 1
    BY <1>1
  <2> QED BY <2>1, <2>2 DEF Inner, IsInnerTag
<1> QED BY <1>2, <1>3

\* c is a and then b.
Joined(c, a, b) ==
  /\ Len(a) \in Nat /\ Len(b) \in Nat /\ Len(c) = Len(a) + Len(b)
  /\ \A i \in 1..Len(a) : c[i] = a[i]
  /\ \A i \in 1..Len(b) : c[Len(a) + i] = b[i]
  /\ \A i \in 1..Len(c) :
       i \in 1..Len(a) \/ \E j \in 1..Len(b) : i = Len(a) + j

LEMMA ConcatAt ==
  ASSUME NEW S, NEW a \in Seq(S), NEW b \in Seq(S)
  PROVE  a \o b \in Seq(S) /\ Joined(a \o b, a, b)
<1>0. Len(a) \in Nat /\ Len(b) \in Nat
  BY LenProperties
<1>1. a \o b \in Seq(S) /\ Len(a \o b) = Len(a) + Len(b)
  BY ConcatProperties
<1>2. \A i \in 1..Len(a) + Len(b) :
        (a \o b)[i] = IF i <= Len(a) THEN a[i] ELSE b[i - Len(a)]
  BY ConcatProperties
<1>3. ASSUME NEW i \in 1..Len(a) PROVE (a \o b)[i] = a[i]
  <2>1. i \in 1..Len(a) + Len(b) /\ i <= Len(a)
    BY <1>0
  <2> QED BY <1>2, <2>1
<1>4. ASSUME NEW i \in 1..Len(b) PROVE (a \o b)[Len(a) + i] = b[i]
  <2> DEFINE k == Len(a) + i
  <2>1. k \in 1..Len(a) + Len(b) /\ ~(k <= Len(a)) /\ k - Len(a) = i
    BY <1>0
  <2> HIDE DEF k
  <2>2. (a \o b)[k] = b[k - Len(a)]
    BY <1>2, <2>1
  <2> QED BY <2>1, <2>2 DEF k
<1>5. ASSUME NEW i \in 1..Len(a \o b)
      PROVE  i \in 1..Len(a) \/ \E j \in 1..Len(b) : i = Len(a) + j
  <2>1. CASE i <= Len(a)
    BY <1>0, <1>1, <2>1
  <2>2. CASE i > Len(a)
    <3>1. i - Len(a) \in 1..Len(b) /\ i = Len(a) + (i - Len(a))
      BY <1>0, <1>1, <2>2
    <3> QED BY <3>1
  <2> QED BY <1>0, <1>1, <2>1, <2>2
<1> QED BY <1>0, <1>1, <1>3, <1>4, <1>5 DEF Joined

LEMMA InnerConcat ==
  ASSUME NEW a, NEW b, Inner(a), Inner(b) PROVE Inner(a \o b)
<1> DEFINE c == a \o b
<1>1. /\ c \in Texts /\ Len(a) \in Nat /\ Len(b) \in Nat
      /\ Len(c) = Len(a) + Len(b)
      /\ \A i \in 1..Len(a) : c[i] = a[i]
      /\ \A i \in 1..Len(b) : c[Len(a) + i] = b[i]
      /\ \A i \in 1..Len(c) :
           i \in 1..Len(a) \/ \E j \in 1..Len(b) : i = Len(a) + j
  BY ConcatAt DEF Inner, Texts, Joined
<1> HIDE DEF c
<1>2. ASSUME NEW q \in 1..Len(a), c[q] = "<" PROVE IsInnerTag(c, q)
  <2>1. IsInnerTag(a, q)
    BY <1>1, <1>2 DEF Inner
  <2>2. q + 1 <= Len(a) => c[q + 1] = a[q + 1] /\ q + 1 <= Len(c)
    BY <1>1
  <2>3. q + 2 <= Len(a) =>
          /\ c[q + 2] = a[q + 2] /\ q + 2 <= Len(c) /\ q + 1 <= Len(a)
    BY <1>1
  <2> QED BY <2>1, <2>2, <2>3 DEF IsInnerTag
<1>3. ASSUME NEW j \in 1..Len(b), c[Len(a) + j] = "<"
      PROVE  IsInnerTag(c, Len(a) + j)
  <2>1. IsInnerTag(b, j)
    BY <1>1, <1>3 DEF Inner
  <2>2. j + 1 <= Len(b) =>
          /\ c[Len(a) + j + 1] = b[j + 1] /\ Len(a) + j + 1 <= Len(c)
    <3>1. j + 1 <= Len(b) => j + 1 \in 1..Len(b)
      BY <1>1
    <3>2. Len(a) + (j + 1) = Len(a) + j + 1
      BY <1>1
    <3> QED BY <1>1, <3>1, <3>2
  <2>3. j + 2 <= Len(b) =>
          /\ c[Len(a) + j + 2] = b[j + 2] /\ Len(a) + j + 2 <= Len(c)
          /\ j + 1 <= Len(b)
    <3>1. j + 2 <= Len(b) => j + 2 \in 1..Len(b)
      BY <1>1
    <3>2. Len(a) + (j + 2) = Len(a) + j + 2
      BY <1>1
    <3> QED BY <1>1, <3>1, <3>2
  <2> QED BY <2>1, <2>2, <2>3 DEF IsInnerTag
<1>4. \A q \in 1..Len(c) : c[q] = "<" => IsInnerTag(c, q)
  BY <1>1, <1>2, <1>3
<1> QED BY <1>1, <1>4 DEF Inner, c

LEMMA StartedGoesOn ==
  ASSUME NEW f \in Forms, NEW o, Started(o, f), NEW s, Inner(s)
  PROVE  Started(o \o s, f) /\ o \in Texts
<1>1. PICK r : Inner(r) /\ o = <<"<", f>> \o r
  BY DEF Started
<1>2. <<"<", f>> \in Texts /\ r \in Texts /\ s \in Texts
  <2>1. "<" \in Symbol \ {NUL} /\ f \in Symbol \ {NUL}
    BY SomeSymbols
  <2> QED BY <1>1, <2>1 DEF Texts, Inner
<1>3. (<<"<", f>> \o r) \o s = <<"<", f>> \o (r \o s)
  <2>1. PICK h : h = <<"<", f>>
    OBVIOUS
  <2>2. h \in Seq(Symbol \ {NUL}) /\ r \in Seq(Symbol \ {NUL})
        /\ s \in Seq(Symbol \ {NUL})
    BY <1>2, <2>1 DEF Texts
  <2>3. (h \o r) \o s = h \o (r \o s)
    BY ONLY <2>2, ConcatAssociative
  <2> QED BY <2>1, <2>3
<1>4. Inner(r \o s)
  BY <1>1, InnerConcat
<1>5. o \in Texts
  BY <1>1, <1>2, ConcatProperties DEF Texts
<1> QED BY <1>1, <1>3, <1>4, <1>5 DEF Started

\* Each "<" of a text begins the opening tag of the message, a tag of an
\* element in it, or the closing tag, behind which are only blanks.
IsTag(o, f, q) ==
  \/ q = 1 /\ o[q + 1] = f
  \/ IsInnerTag(o, q)
  \/ /\ q + 3 <= Len(o) /\ o[q + 1] = "/"
     /\ \A k \in q + 4..Len(o) : o[k] \in Blank

LEMMA StartedTags ==
  ASSUME NEW f \in Forms, NEW o, Started(o, f)
  PROVE  /\ o \in Texts /\ Len(o) \in Nat /\ Len(o) >= 2
         /\ \A q \in 1..Len(o) : o[q] = "<" =>
              (q = 1 /\ o[q + 1] = f) \/ IsInnerTag(o, q)
<1>1. PICK s : Inner(s) /\ o = <<"<", f>> \o s
  BY DEF Started
<1> DEFINE a == <<"<", f>>
<1>2. a \in Texts /\ s \in Texts
  <2>1. "<" \in Symbol \ {NUL} /\ f \in Symbol \ {NUL}
    BY SomeSymbols
  <2> QED BY <1>1, <2>1 DEF Texts, Inner
<1>3. Len(a) = 2 /\ a[1] = "<" /\ a[2] = f /\ f # "<"
  BY SomeSymbols
<1> HIDE DEF a
<1>4. /\ o \in Texts /\ Len(s) \in Nat /\ Len(o) = 2 + Len(s)
      /\ o[1] = "<" /\ o[2] = f
      /\ \A i \in 1..Len(s) : o[2 + i] = s[i]
      /\ \A i \in 1..Len(o) : i \in 1..2 \/ \E j \in 1..Len(s) : i = 2 + j
  <2>1. o = a \o s
    BY <1>1 DEF a
  <2>2. /\ o \in Texts /\ Len(s) \in Nat /\ Len(o) = 2 + Len(s)
        /\ \A i \in 1..2 : o[i] = a[i]
        /\ \A i \in 1..Len(s) : o[2 + i] = s[i]
        /\ \A i \in 1..Len(o) : i \in 1..2 \/ \E j \in 1..Len(s) : i = 2 + j
    <3>1. o \in Texts /\ Joined(o, a, s)
      BY <1>2, <2>1, ConcatAt DEF Texts
    <3> QED BY <1>3, <3>1 DEF Joined
  <2> QED BY <1>3, <2>2
<1>5. ASSUME NEW j \in 1..Len(s), o[2 + j] = "<" PROVE IsInnerTag(o, 2 + j)
  <2>1. IsInnerTag(s, j)
    BY <1>1, <1>4, <1>5 DEF Inner
  <2>2. j + 1 <= Len(s) => o[2 + j + 1] = s[j + 1] /\ 2 + j + 1 <= Len(o)
    <3>1. j + 1 <= Len(s) => j + 1 \in 1..Len(s)
      BY <1>4
    <3>2. 2 + (j + 1) = 2 + j + 1
      BY <1>4
    <3> QED BY <1>4, <3>1, <3>2
  <2>3. j + 2 <= Len(s) =>
          o[2 + j + 2] = s[j + 2] /\ 2 + j + 2 <= Len(o) /\ j + 1 <= Len(s)
    <3>1. j + 2 <= Len(s) => j + 2 \in 1..Len(s)
      BY <1>4
    <3>2. 2 + (j + 2) = 2 + j + 2
      BY <1>4
    <3> QED BY <1>4, <3>1, <3>2
  <2> QED BY <1>4, <2>1, <2>2, <2>3 DEF IsInnerTag
<1>6. ASSUME NEW q \in 1..Len(o), o[q] = "<"
      PROVE  (q = 1 /\ o[q + 1] = f) \/ IsInnerTag(o, q)
  <2>1. CASE q \in 1..2
    BY <1>3, <1>4, <1>6, <2>1
  <2>2. CASE \E j \in 1..Len(s) : q = 2 + j
    BY <1>5, <1>6, <2>2
  <2> QED BY <1>4, <2>1, <2>2
<1> QED BY <1>4, <1>6

LEMMA FinishedTags ==
  ASSUME NEW f \in Forms, NEW o, Started(o, f) \/ Finished(o, f)
  PROVE  /\ o \in Texts
         /\ \A q \in 1..Len(o) : o[q] = "<" => IsTag(o, f, q)
<1>1. CASE Started(o, f)
  BY <1>1, StartedTags DEF IsTag
<1>2. CASE Finished(o, f)
  <2>1. PICK s, b : /\ Inner(s) /\ b \in Seq(Blank)
                    /\ o = (<<"<", f>> \o s) \o (<<"<", "/", f, ">">> \o b)
    BY <1>2 DEF Finished
  <2> DEFINE a == <<"<", f>> \o s
             e == <<"<", "/", f, ">">>
             c == e \o b
  <2>2. /\ a \in Texts /\ Len(a) \in Nat /\ Len(a) >= 2
        /\ \A q \in 1..Len(a) : a[q] = "<" =>
             (q = 1 /\ a[q + 1] = f) \/ IsInnerTag(a, q)
    <3>1. Started(a, f)
      BY <2>1 DEF Started
    <3> HIDE DEF a
    <3> QED BY <3>1, StartedTags
  <2> HIDE DEF a
  <2>3. e \in Texts /\ b \in Texts
    <3>1. {"<", "/", ">"} \subseteq Symbol \ {NUL} /\ f \in Symbol \ {NUL}
          /\ Blank \subseteq Symbol \ {NUL}
      BY SomeSymbols, BlankSymbols
    <3> QED BY <2>1, <3>1 DEF Texts
  <2>4. Len(e) = 4 /\ e[1] = "<" /\ e[2] = "/" /\ e[3] = f /\ e[4] = ">"
    OBVIOUS
  <2> HIDE DEF e
  <2>5. /\ c \in Texts /\ Len(b) \in Nat /\ Len(c) = 4 + Len(b)
        /\ \A i \in 1..4 : c[i] = e[i]
        /\ \A i \in 1..Len(b) : c[4 + i] = b[i]
        /\ \A i \in 1..Len(c) : i \in 1..4 \/ \E j \in 1..Len(b) : i = 4 + j
    <3>1. c \in Texts /\ Joined(c, e, b)
      BY <2>3, ConcatAt DEF Texts
    <3> HIDE DEF c
    <3> QED BY <2>4, <3>1 DEF Joined
  <2>6. \A i \in 1..Len(b) : b[i] \in Blank
    BY <2>1, ElementOfSeq
  <2> HIDE DEF c
  <2>7. /\ o \in Texts /\ Len(c) \in Nat /\ Len(o) = Len(a) + Len(c)
        /\ \A i \in 1..Len(a) : o[i] = a[i]
        /\ \A i \in 1..Len(c) : o[Len(a) + i] = c[i]
        /\ \A i \in 1..Len(o) :
             i \in 1..Len(a) \/ \E j \in 1..Len(c) : i = Len(a) + j
    <3>1. o = a \o c
      BY <2>1 DEF a, c, e
    <3>2. o \in Texts /\ Joined(o, a, c)
      BY <2>2, <2>5, <3>1, ConcatAt DEF Texts
    <3> QED BY <3>2 DEF Joined
  <2>8. \A i \in 5..Len(c) : c[i] \in Blank
    <3> TAKE i \in 5..Len(c)
    <3>1. i - 4 \in 1..Len(b) /\ 4 + (i - 4) = i
      BY <2>5
    <3> QED BY <2>5, <2>6, <3>1
  <2>9. ASSUME NEW q \in 1..Len(a), o[q] = "<" PROVE IsTag(o, f, q)
    <3>1. (q = 1 /\ a[q + 1] = f) \/ IsInnerTag(a, q)
      BY <2>2, <2>7, <2>9
    <3>2. q + 1 <= Len(a) => o[q + 1] = a[q + 1] /\ q + 1 <= Len(o)
      BY <2>2, <2>7
    <3>3. q + 2 <= Len(a) =>
            /\ o[q + 2] = a[q + 2] /\ q + 2 <= Len(o) /\ q + 1 <= Len(a)
      BY <2>2, <2>7
    <3>4. q = 1 => q + 1 <= Len(a)
      BY <2>2
    <3> QED BY <3>1, <3>2, <3>3, <3>4 DEF IsTag, IsInnerTag
  <2>10. ASSUME NEW j \in 1..Len(c), o[Len(a) + j] = "<"
         PROVE  IsTag(o, f, Len(a) + j)
    <3>1. c[j] = "<"
      BY <2>7, <2>10
    <3>2. j = 1
      <4>1. CASE j \in 1..4
        <5>1. j = 1 \/ j = 2 \/ j = 3 \/ j = 4
          BY <4>1
        <5>2. f # "<"
          BY SomeSymbols
        <5> QED BY <2>4, <2>5, <3>1, <5>1, <5>2
      <4>2. CASE j \in 5..Len(c)
        <5>1. "<" \notin Blank
          BY BlankSymbols
        <5> QED BY <2>8, <3>1, <4>2, <5>1
      <4> QED BY <2>5, <4>1, <4>2
    <3> DEFINE q == Len(a) + 1
    <3>3. q + 3 <= Len(o) /\ o[q + 1] = "/"
      <4>1. 2 \in 1..Len(c) /\ Len(a) + 2 = q + 1 /\ 2 \in 1..4
        BY <2>2, <2>5
      <4> QED BY <2>2, <2>4, <2>5, <2>7, <4>1
    <3>4. \A k \in q + 4..Len(o) : o[k] \in Blank
      <4> TAKE k \in q + 4..Len(o)
      <4>1. k - Len(a) \in 5..Len(c) /\ k - Len(a) \in 1..Len(c)
            /\ Len(a) + (k - Len(a)) = k
        BY <2>2, <2>7
      <4> QED BY <2>7, <2>8, <4>1
    <3> QED BY <3>2, <3>3, <3>4 DEF IsTag
  <2>11. \A q \in 1..Len(o) : o[q] = "<" => IsTag(o, f, q)
    BY <2>7, <2>9, <2>10
  <2> QED BY <2>7, <2>11
<1> QED BY <1>1, <1>2

\* A part in which a tag opens the message and another one closes it begins
\* where the text does and lacks at most blanks behind it.
LEMMA PartIsWhole ==
  ASSUME NEW f \in Forms, NEW o, Started(o, f) \/ Finished(o, f),
         NEW i \in Nat \ {0}, NEW n \in Nat, i + n <= Len(o) + 1,
         NEW t \in Value, Len(t) = n, \A k \in 1..n : t[k] = o[i + k - 1],
         NEW g \in Forms, Opens(t, <<g>>), Closed(t, <<g>>)
  PROVE  i = 1 /\ \A k \in 1..Len(o) : o[k] \notin Blank => k <= n
<1>1. /\ o \in Texts /\ Len(o) \in Nat
      /\ \A q \in 1..Len(o) : o[q] = "<" => IsTag(o, f, q)
  BY FinishedTags, LenProperties DEF Texts
<1>2. ASSUME NEW q \in 1..n, t[q] = "<", SkipWhiteSpace(t, q + 1) <= n
      PROVE  /\ SkipWhiteSpace(t, q + 1) = q + 1 /\ q + 1 <= n
             /\ i + q - 1 \in 1..Len(o) /\ IsTag(o, f, i + q - 1)
             /\ t[q + 1] = o[(i + q - 1) + 1]
  <2> DEFINE p == i + q - 1
             s == SkipWhiteSpace(t, q + 1)
  <2>1. /\ s \in Nat /\ s >= q + 1
        /\ \A k \in q + 1..s - 1 : k \in 1..n /\ t[k] \in Blank
    <3>1. q + 1 \in Nat \ {0}
      OBVIOUS
    <3> QED BY <3>1, SkipGoesOn DEF SkipWhiteSpace
  <2>2. s <= n
    BY <1>2
  <2> HIDE DEF s
  <2>3. q + 1 <= n /\ p \in 1..Len(o) /\ p + 1 <= Len(o) /\ q + 1 \in 1..n
        /\ i + (q + 1) - 1 = p + 1
    BY <1>1, <2>1, <2>2
  <2>4. t[q + 1] = o[p + 1] /\ o[p] = "<"
    BY <1>2, <2>3
  <2>5. IsTag(o, f, p)
    BY <1>1, <2>3, <2>4
  <2>6. t[q + 1] \notin Blank
    <3>1. o[p + 1] \in {f, "/"} \cup Names
      BY <2>5 DEF IsTag, IsInnerTag
    <3> QED BY <2>4, <3>1, SomeSymbols, BlankSymbols
  <2>7. s = q + 1
    <3>1. s # q + 1 => q + 1 \in q + 1..s - 1
      BY <2>1
    <3> QED BY <2>1, <2>6, <3>1
  <2> QED BY <2>3, <2>4, <2>5, <2>7 DEF s
<1>3. PICK q \in 1..n : /\ t[q] = "<" /\ SkipWhiteSpace(t, q + 1) <= n
                        /\ t[SkipWhiteSpace(t, q + 1)] = g
  BY DEF Opens
<1>4. i = 1
  <2>1. IsTag(o, f, i + q - 1) /\ o[(i + q - 1) + 1] = g
    BY <1>2, <1>3
  <2>2. i + q - 1 = 1
    BY <2>1, SomeSymbols DEF IsTag, IsInnerTag
  <2> QED BY <2>2
<1>5. PICK p \in 1..n : Closes(t, <<g>>, p) /\ t[p] = ">"
  BY DEF Closed
<1>6. PICK r \in 1..n :
        LET s == SkipWhiteSpace(t, r + 1)
        IN /\ t[r] = "<" /\ s + 1 <= n /\ s + 1 < p
           /\ t[s] = "/" /\ t[s + 1] = g
  BY <1>5 DEF Closes
<1>7. /\ r + 2 < p /\ t[r + 1] = "/" /\ t[r + 2] = g /\ r + 2 <= n
      /\ IsTag(o, f, r) /\ o[r + 1] = "/"
  <2> DEFINE s == SkipWhiteSpace(t, r + 1)
  <2>1. s \in Nat
    <3>1. r + 1 \in Nat \ {0}
      OBVIOUS
    <3> QED BY <3>1, SkipGoesOn DEF SkipWhiteSpace
  <2>2. s <= n
    BY <1>6, <2>1
  <2>3. s = r + 1 /\ IsTag(o, f, i + r - 1) /\ t[r + 1] = o[(i + r - 1) + 1]
    BY <1>2, <1>6, <2>2
  <2> HIDE DEF s
  <2>4. i + r - 1 = r /\ (r + 1) + 1 = r + 2
    BY <1>4
  <2> QED BY <1>6, <2>3, <2>4 DEF s
<1>8. o[r + 2] = g
  <2>1. r + 2 \in 1..n /\ i + (r + 2) - 1 = r + 2
    BY <1>4, <1>7
  <2> QED BY <1>7, <2>1
<1>9. \A k \in r + 4..Len(o) : o[k] \in Blank
  <2>1. "/" \notin Forms \cup Names /\ g \notin Names /\ f \in Forms
    BY SomeSymbols
  <2>2. ~IsInnerTag(o, r)
    BY ONLY <1>7, <1>8, <2>1 DEF IsInnerTag
  <2>3. ~(r = 1 /\ o[r + 1] = f)
    BY ONLY <1>7, <2>1
  <2> QED BY <1>7, <2>2, <2>3 DEF IsTag
<1>10. \A k \in 1..Len(o) : o[k] \notin Blank => k <= n
  <2> TAKE k \in 1..Len(o)
  <2> HAVE o[k] \notin Blank
  <2>1. k \notin r + 4..Len(o)
    BY <1>9
  <2> QED BY <1>1, <1>7, <2>1
<1> QED BY <1>4, <1>10

LEMMA UptoFacts ==
  ASSUME NEW w \in Value
  PROVE  LET u == UptoNUL(w)
         IN /\ u \in Value /\ Len(u) \in Nat /\ Len(u) <= Len(w)
            /\ \A k \in 1..Len(u) : u[k] = w[k] /\ w[k] # NUL
            /\ Len(u) < Len(w) => w[Len(u) + 1] = NUL
<1> DEFINE N == {i \in DOMAIN w : w[i] = NUL}
           u == UptoNUL(w)
<1>0. /\ Len(w) \in Nat /\ DOMAIN w = 1..Len(w)
      /\ \A i \in 1..Len(w) : w[i] \in Symbol
  BY LenProperties, ElementOfSeq DEF Value
<1>1. CASE N = {}
  <2>1. u = w
    BY <1>1 DEF UptoNUL
  <2>2. \A k \in 1..Len(w) : w[k] # NUL
    BY <1>0, <1>1
  <2> HIDE DEF u
  <2> QED BY <1>0, <2>1, <2>2 DEF u
<1>2. CASE N # {}
  <2>1. N \in SUBSET Nat
    BY <1>0
  <2>2. u = SubSeq(w, 1, Min(N) - 1)
    BY <1>2 DEF UptoNUL
  <2>3. Min(N) \in N /\ \A j \in N : Min(N) <= j
    <3> HIDE DEF N
    <3> QED BY <1>2, <2>1, LeastOf
  <2> DEFINE m == Min(N) - 1
  <2>4. m \in Nat /\ m + 1 \in 1..Len(w) /\ w[m + 1] = NUL /\ m < Len(w)
    BY <1>0, <2>3
  <2>5. \A k \in 1..m : k \in 1..Len(w) /\ w[k] # NUL
    <3> TAKE k \in 1..m
    <3>1. k \in 1..Len(w) /\ ~(Min(N) <= k)
      <4>1. Min(N) \in Nat /\ Min(N) \in 1..Len(w)
        BY <1>0, <2>3
      <4> HIDE DEF N
      <4> QED BY <1>0, <4>1
    <3>2. k \notin N
      <4> HIDE DEF N
      <4> QED BY <2>3, <3>1
    <3> QED BY <1>0, <3>1, <3>2
  <2> HIDE DEF m, N
  <2>6. u \in Value /\ Len(u) = m /\ \A k \in 1..m : u[k] = w[k]
    <3>1. \A k \in 1..m : w[k] \in Symbol
      BY <1>0, <2>5
    <3>2. SubSeq(w, 1, m) \in Seq(Symbol)
          /\ Len(SubSeq(w, 1, m)) = (IF 1 <= m THEN m - 1 + 1 ELSE 0)
          /\ \A i \in 1..m - 1 + 1 : SubSeq(w, 1, m)[i] = w[1 + i - 1]
      BY <2>4, <3>1, SubSeqProperties, SMTT(20)
    <3>3. 1..m - 1 + 1 = 1..m /\ \A i \in 1..m : 1 + i - 1 = i
      BY <2>4
    <3>4. Len(SubSeq(w, 1, m)) = m
      BY <2>4, <3>2
    <3>5. \A i \in 1..m : SubSeq(w, 1, m)[i] = w[i]
      <4> TAKE i \in 1..m
      <4>1. i \in 1..m - 1 + 1 /\ 1 + i - 1 = i
        BY <3>3
      <4> QED BY <3>2, <4>1
    <3> QED BY <2>2, <3>2, <3>4, <3>5 DEF Value, m
  <2> HIDE DEF u
  <2> QED BY <2>4, <2>5, <2>6 DEF u
<1> QED BY <1>1, <1>2

LEMMA TextWithoutNUL ==
  ASSUME NEW o \in Texts
  PROVE  /\ Append(o, NUL) \in Value /\ Len(Append(o, NUL)) = Len(o) + 1
         /\ Len(o) \in Nat
         /\ \A k \in 1..Len(o) : Append(o, NUL)[k] = o[k] /\ o[k] # NUL
         /\ Append(o, NUL)[Len(o) + 1] = NUL
         /\ UptoNUL(Append(o, NUL)) = o
<1> DEFINE w == Append(o, NUL)
           u == UptoNUL(w)
<1>1. NUL \in Symbol
  BY MarkupAssumption DEF Markup
<1>2. o \in Value /\ Len(o) \in Nat
      /\ \A k \in 1..Len(o) : o[k] # NUL /\ o[k] \in Symbol
  BY SeqMonotonic, LenProperties, ElementOfSeq DEF Texts, Value
<1>3. /\ w \in Value /\ Len(w) = Len(o) + 1
      /\ \A k \in 1..Len(o) : w[k] = o[k]
      /\ w[Len(o) + 1] = NUL
  BY <1>1, <1>2, AppendProperties DEF Value
<1> HIDE DEF w
<1>4. /\ u \in Value /\ Len(u) \in Nat /\ Len(u) <= Len(w)
      /\ \A k \in 1..Len(u) : u[k] = w[k] /\ w[k] # NUL
      /\ Len(u) < Len(w) => w[Len(u) + 1] = NUL
  BY <1>3, UptoFacts
<1> HIDE DEF u
<1>5. Len(u) = Len(o)
  <2>1. Len(u) # Len(o) + 1
    BY <1>2, <1>3, <1>4
  <2>2. ~(Len(u) < Len(o))
    <3>1. Len(u) < Len(o) => Len(u) + 1 \in 1..Len(o) /\ Len(u) < Len(w)
      BY <1>2, <1>3, <1>4
    <3> QED BY <1>2, <1>3, <1>4, <3>1
  <2> QED BY <1>2, <1>3, <1>4, <2>1, <2>2
<1>6. u = o
  BY <1>2, <1>3, <1>4, <1>5, SeqEqual DEF Value
<1> QED BY <1>2, <1>3, <1>6 DEF w, u

\* What the parser gets of a piece of a text with its NUL
LEMMA PieceOfText ==
  ASSUME NEW o \in Texts, NEW i \in 1..Len(o) + 1, NEW j \in 1..Len(o) + 1,
         i <= j
  PROVE  LET t == UptoNUL(SubSeq(Append(o, NUL), i, j))
         IN /\ SubSeq(Append(o, NUL), i, j) \in Value
            /\ t \in Value /\ Len(t) \in Nat /\ i + Len(t) <= Len(o) + 1
            /\ \A k \in 1..Len(t) : t[k] = o[i + k - 1]
<1> DEFINE w == Append(o, NUL)
           p == SubSeq(w, i, j)
           t == UptoNUL(p)
<1>1. /\ w \in Value /\ Len(w) = Len(o) + 1 /\ Len(o) \in Nat
      /\ \A k \in 1..Len(o) : w[k] = o[k]
      /\ w[Len(o) + 1] = NUL
  BY TextWithoutNUL
<1> HIDE DEF w
<1>2. p \in Value /\ Len(p) = j - i + 1
      /\ \A k \in 1..j - i + 1 : p[k] = w[i + k - 1]
  <2>1. \A k \in i..j : w[k] \in Symbol
    BY <1>1, ElementOfSeq DEF Value
  <2>2. i \in Int /\ j \in Int
    BY <1>1
  <2> QED BY <1>1, <2>1, <2>2, SubSeqProperties DEF Value
<1> HIDE DEF p
<1>3. /\ t \in Value /\ Len(t) \in Nat /\ Len(t) <= Len(p)
      /\ \A k \in 1..Len(t) : t[k] = p[k] /\ p[k] # NUL
  BY <1>2, UptoFacts
<1> HIDE DEF t
<1>4. \A k \in 1..Len(t) : t[k] = w[i + k - 1] /\ i + k - 1 \in 1..Len(o)
  <2> TAKE k \in 1..Len(t)
  <2>1. k \in 1..j - i + 1 /\ i + k - 1 \in 1..Len(o) + 1
    BY <1>1, <1>2, <1>3
  <2>2. t[k] = w[i + k - 1] /\ w[i + k - 1] # NUL
    BY <1>2, <1>3, <2>1
  <2> QED BY <1>1, <2>1, <2>2
<1>5. i + Len(t) <= Len(o) + 1
  <2>1. Len(t) # 0 => Len(t) \in 1..Len(t)
    BY <1>3
  <2>2. Len(t) # 0 => i + Len(t) - 1 \in 1..Len(o)
    BY <1>4, <2>1
  <2> QED BY <1>1, <1>3, <2>2
<1>6. \A k \in 1..Len(t) : t[k] = o[i + k - 1]
  BY <1>1, <1>4
<1> QED BY <1>2, <1>3, <1>5, <1>6 DEF w, p, t

\* A document that is read as a message has an element of such a name, and
\* something below it.
LEMMA ReadingNeeds ==
  ASSUME NEW d, Sound(d), Reading(d).outcome = "message"
  PROVE  \E e \in Linked(d), m \in Node, g \in Forms :
           d.parent[m] = e /\ d.value[e] = <<g>>
<1> DEFINE e == d.firstChild[Document]
<1>1. /\ e # Null
      /\ hasAll(d, e, fieldNames \ {"Content"})
      /\ d.value[e] \in {<<f>> : f \in Forms}
  BY DEF Reading, Dies, Throws
<1>2. e \in Linked(d)
  BY <1>1, NullIsNoNode DEF Sound, PointersOK, IsWellLinked, Linked, Parent
<1> HIDE DEF e
<1>3. d.firstChild[e] # Null
  <2>1. FirstChildElement(d, e, <<"Type">>) # Null
    BY <1>1 DEF hasAll, fieldNames
  <2>2. ElementsBelow(d, e, <<"Type">>) # {}
    BY <2>1 DEF FirstChildElement
  <2>3. DOMAIN ListOf(d, e) # {}
    BY <2>2 DEF ElementsBelow
  <2>4. d.firstChild[e] = Null => ListOf(d, e) = <<>>
    BY DEF ListOf
  <2> QED BY <2>3, <2>4
<1>4. d.firstChild[e] \in Node /\ d.parent[d.firstChild[e]] = e
  BY <1>2, <1>3 DEF Sound, PointersOK, IsWellLinked, Linked, Parent
<1> QED BY <1>1, <1>2, <1>4

-----------------------------------------------------------------------------
(* What the printer makes of a message                                      *)

PrinterOK(s) ==
  s \in [out : Texts, elementJustOpened : BOOLEAN, firstElement : BOOLEAN,
         depth : Int, textDepth : Int]

\* The opening tag of the message is printed, and nothing yet behind it.
InMessage(s, f) == PrinterOK(s) /\ Started(s.out, f)

LEMMA ShortTexts ==
  ASSUME NEW S, NEW x \in S, NEW y \in S
  PROVE  <<x>> \in Seq(S) /\ <<x, y>> \in Seq(S)
OBVIOUS

LEMMA PlainParts ==
  /\ \A k \in Int : Space(k) \in Plain
  /\ \A s : NewLine(s) \in Plain
  /\ \A a, b \in Plain : a \o b \in Plain
<1>1. " " \in Symbol \ {"<", NUL} /\ "\n" \in Symbol \ {"<", NUL}
  BY SomeSymbols
<1>2. ASSUME NEW k \in Int PROVE Space(k) \in Plain
  <2>1. CASE k \in Nat
    <3>1. Space(k) = [i \in 1..k |-> " "]
      BY DEF Space
    <3>2. Space(k) \in [1..k -> Symbol \ {"<", NUL}]
      BY <1>1, <3>1
    <3> QED BY <2>1, <3>2 DEF Plain, Seq
  <2>2. CASE k \notin Nat
    <3>1. 1..k = 1..0
      BY <2>2
    <3>2. Space(k) \in [1..0 -> Symbol \ {"<", NUL}]
      BY <1>1, <3>1 DEF Space
    <3> QED BY <3>2 DEF Plain, Seq
  <2> QED BY <2>1, <2>2
<1>3. \A s : NewLine(s) \in Plain
  <2>1. <<>> \in Plain
    BY EmptySeq DEF Plain
  <2>2. <<"\n">> \in Plain
    BY <1>1, ShortTexts, Zenon DEF Plain
  <2> QED BY <2>1, <2>2 DEF NewLine
<1>4. \A a, b \in Plain : a \o b \in Plain
  BY ConcatProperties DEF Plain
<1> QED BY <1>2, <1>3, <1>4

LEMMA PairOf ==
  ASSUME NEW x, NEW y PROVE <<x>> \o <<y>> = <<x, y>>
<1> DEFINE c == <<x>> \o <<y>>
<1>1. <<x>> \in Seq({x, y}) /\ <<y>> \in Seq({x, y}) /\ <<x, y>> \in Seq({x, y})
  OBVIOUS
<1>2. c \in Seq({x, y}) /\ Joined(c, <<x>>, <<y>>)
  BY <1>1, ConcatAt
<1> HIDE DEF c
<1>3. Len(c) = 2 /\ c[1] = x /\ c[2] = y
  <2>1. Len(<<x>>) = 1 /\ Len(<<y>>) = 1 /\ <<x>>[1] = x /\ <<y>>[1] = y
    OBVIOUS
  <2>2. 1 \in 1..1 /\ 1 + 1 = 2
    OBVIOUS
  <2>3. Len(c) = 1 + 1 /\ c[1] = <<x>>[1] /\ c[1 + 1] = <<y>>[1]
    BY <1>2, <2>1, <2>2 DEF Joined
  <2> QED BY <2>1, <2>2, <2>3
<1>4. c = <<x, y>>
  <2>1. \A i \in 1..2 : c[i] = <<x, y>>[i]
    BY <1>3
  <2> QED BY <1>1, <1>2, <1>3, <2>1, SeqEqual
<1> QED BY <1>4 DEF c

LEMMA EncodedIsPlain ==
  ASSUME NEW v \in Texts, NEW F \in SUBSET DOMAIN entities, "<" \in F
  PROVE  PrintString(v, F) \in Plain
<1>1. Len(v) \in Nat /\ DOMAIN v = 1..Len(v)
      /\ \A i \in 1..Len(v) : v[i] \in Symbol \ {NUL}
  BY LenProperties, ElementOfSeq DEF Texts
<1>2. \A i \in 1..Len(v) :
        (IF v[i] \in F THEN entities[v[i]] ELSE v[i]) \in Symbol \ {"<", NUL}
  BY <1>1, SomeSymbols
<1>3. PrintString(v, F) =
        [i \in 1..Len(v) |-> IF v[i] \in F THEN entities[v[i]] ELSE v[i]]
  BY <1>1 DEF PrintString
<1> QED BY <1>1, <1>2, <1>3, IsASeq DEF Plain

LEMMA EmitGoesOn ==
  ASSUME NEW f \in Forms, NEW s, InMessage(s, f), NEW x, Inner(x)
  PROVE  InMessage(Emit(s, x), f)
<1>1. Started(s.out \o x, f)
  BY StartedGoesOn DEF InMessage
<1>2. s.out \o x \in Texts
  BY <1>1, StartedTags
<1>3. Emit(s, x).out = s.out \o x /\ PrinterOK(Emit(s, x))
  BY <1>2 DEF Emit, InMessage, PrinterOK
<1> QED BY <1>1, <1>3 DEF InMessage

LEMMA SealGoesOn ==
  ASSUME NEW f \in Forms, NEW s, InMessage(s, f)
  PROVE  InMessage(SealElementIfJustOpened(s), f)
<1> DEFINE e == Emit(s, <<">">>)
<1>1. Inner(<<">">>)
  <2>1. ">" \in Symbol \ {"<", NUL}
    BY SomeSymbols
  <2>2. <<">">> \in Plain
    BY <2>1 DEF Plain
  <2> QED BY <2>2, PlainIsInner
<1>2. InMessage(e, f)
  BY <1>1, EmitGoesOn
<1> HIDE DEF e
<1>3. [e EXCEPT !.elementJustOpened = FALSE].out = e.out
      /\ PrinterOK([e EXCEPT !.elementJustOpened = FALSE])
  BY <1>2 DEF InMessage, PrinterOK
<1> QED BY <1>2, <1>3 DEF SealElementIfJustOpened, InMessage, e

LEMMA OpenGoesOn ==
  ASSUME NEW f \in Forms, NEW s, InMessage(s, f), NEW name \in Names
  PROVE  InMessage(OpenElement(s, <<name>>), f)
<1> DEFINE e == SealElementIfJustOpened(s)
           x == NewLine(e) \o Space(e.depth) \o <<"<">> \o <<name>>
           r == Emit(e, x)
<1>1. InMessage(e, f)
  BY SealGoesOn
<1>2. OpenElement(s, <<name>>) =
        [r EXCEPT !.elementJustOpened = TRUE, !.firstElement = FALSE,
                  !.depth = @ + 1]
  BY DEF OpenElement
<1> HIDE DEF e
<1>3. Inner(x)
  <2> DEFINE a == NewLine(e) \o Space(e.depth)
  <2>1. a \in Plain
    BY <1>1, PlainParts DEF InMessage, PrinterOK
  <2>2. x = a \o <<"<", name>>
    <3>1. a \in Texts /\ <<"<">> \in Texts /\ <<name>> \in Texts
      <4>1. a \in Texts
        BY <2>1, PlainIsInner DEF Inner
      <4>2. "<" \in Symbol \ {NUL} /\ name \in Symbol \ {NUL}
        BY SomeSymbols
      <4> QED BY <4>1, <4>2 DEF Texts
    <3> HIDE DEF a
    <3>2. (a \o <<"<">>) \o <<name>> = a \o (<<"<">> \o <<name>>)
      BY <3>1, ConcatAssociative DEF Texts
    <3>3. <<"<">> \o <<name>> = <<"<", name>>
      BY PairOf
    <3> QED BY <3>2, <3>3 DEF a
  <2> HIDE DEF a
  <2> QED BY <2>1, <2>2, PlainIsInner, TagIsInner, InnerConcat
<1> HIDE DEF x
<1>4. InMessage(r, f)
  BY <1>1, <1>3, EmitGoesOn
<1> HIDE DEF r
<1> DEFINE q == [r EXCEPT !.elementJustOpened = TRUE, !.firstElement = FALSE,
                          !.depth = @ + 1]
<1>5. q.out = r.out /\ PrinterOK(q)
  <2>1. r.depth + 1 \in Int /\ PrinterOK(r)
    BY <1>4 DEF InMessage, PrinterOK
  <2> DEFINE m == r.depth + 1
  <2>2. q = [r EXCEPT !.elementJustOpened = TRUE, !.firstElement = FALSE,
                      !.depth = m]
    BY <2>1 DEF PrinterOK
  <2>3. m \in Int
    BY <2>1
  <2> HIDE DEF m, q
  <2> QED BY <2>1, <2>2, <2>3 DEF PrinterOK
<1> QED BY <1>2, <1>4, <1>5 DEF InMessage

LEMMA AttributeGoesOn ==
  ASSUME NEW f \in Forms, NEW s, InMessage(s, f),
         NEW a \in [name : Plain, value : Texts]
  PROVE  InMessage(PushAttribute(s, a), f)
<1>0. a.name \in Plain /\ a.value \in Texts
  OBVIOUS
<1> DEFINE v == PrintString(a.value, DOMAIN entities)
<1>1. v \in Plain
  BY <1>0, EncodedIsPlain, SomeSymbols
<1>2. <<" ">> \in Plain /\ <<"=", "\"">> \in Plain
      /\ <<"\"">> \in Plain
  <2>1. /\ " " \in Symbol \ {"<", NUL} /\ "=" \in Symbol \ {"<", NUL}
        /\ "\"" \in Symbol \ {"<", NUL}
    BY SomeSymbols, Zenon
  <2> QED BY <2>1, ShortTexts, Zenon DEF Plain
<1> HIDE DEF v
<1>3. <<" ">> \o a.name \o <<"=", "\"">> \o v \o <<"\"">> \in Plain
  BY <1>0, <1>1, <1>2, PlainParts, Zenon
<1> QED BY <1>3, PlainIsInner, EmitGoesOn DEF PushAttribute, v

LEMMA TextGoesOn ==
  ASSUME NEW f \in Forms, NEW s, InMessage(s, f), NEW v \in Texts
  PROVE  InMessage(PushText(s, "text", v), f)
<1> DEFINE e == SealElementIfJustOpened(s)
           r == [e EXCEPT !.textDepth = s.depth - 1]
<1>1. InMessage(e, f)
  BY SealGoesOn
<1> HIDE DEF e
<1>2. InMessage(r, f)
  BY <1>1 DEF InMessage, PrinterOK
<1>3. PrintString(v, restrictedEntities) \in Plain
  BY EncodedIsPlain, SomeSymbols DEF restrictedEntities
<1>4. PushText(s, "text", v) = Emit(r, PrintString(v, restrictedEntities))
  BY DEF PushText, e
<1> HIDE DEF r
<1> QED BY <1>2, <1>3, <1>4, PlainIsInner, EmitGoesOn

LEMMA TextsAssociate ==
  ASSUME NEW x \in Texts, NEW y \in Texts, NEW z \in Texts
  PROVE  (x \o y) \o z = x \o (y \o z)
BY ConcatAssociative DEF Texts

LEMMA FourOf ==
  ASSUME NEW u, NEW v, NEW x, NEW y
  PROVE  (<<u, v>> \o <<x>>) \o <<y>> = <<u, v, x, y>>
<1> DEFINE S == {u, v, x, y}
           a == <<u, v>> \o <<x>>
           c == a \o <<y>>
<1>1. /\ <<u, v>> \in Seq(S) /\ <<x>> \in Seq(S) /\ <<y>> \in Seq(S)
      /\ <<u, v, x, y>> \in Seq(S)
  OBVIOUS
<1> HIDE DEF S
<1>2. a \in Seq(S) /\ Len(a) = 3 /\ a[1] = u /\ a[2] = v /\ a[3] = x
  <2>1. a \in Seq(S) /\ Joined(a, <<u, v>>, <<x>>)
    BY <1>1, ConcatAt
  <2> HIDE DEF a
  <2>2. /\ Len(<<u, v>>) = 2 /\ <<u, v>>[1] = u /\ <<u, v>>[2] = v
        /\ Len(<<x>>) = 1 /\ <<x>>[1] = x
        /\ 1 \in 1..1 /\ 1 \in 1..2 /\ 2 \in 1..2 /\ 2 + 1 = 3
    OBVIOUS
  <2>3. /\ Len(a) = 2 + 1 /\ a[1] = <<u, v>>[1] /\ a[2] = <<u, v>>[2]
        /\ a[2 + 1] = <<x>>[1]
    BY <2>1, <2>2 DEF Joined
  <2> QED BY <2>1, <2>2, <2>3
<1> HIDE DEF a
<1>3. c \in Seq(S) /\ Len(c) = 4 /\ c[1] = u /\ c[2] = v /\ c[3] = x /\ c[4] = y
  <2>1. c \in Seq(S) /\ Joined(c, a, <<y>>)
    BY <1>1, <1>2, ConcatAt
  <2> HIDE DEF c
  <2>2. /\ Len(<<y>>) = 1 /\ <<y>>[1] = y
        /\ 1 \in 1..1 /\ 1 \in 1..3 /\ 2 \in 1..3 /\ 3 \in 1..3 /\ 3 + 1 = 4
    OBVIOUS
  <2>3. /\ Len(c) = 3 + 1 /\ c[1] = a[1] /\ c[2] = a[2] /\ c[3] = a[3]
        /\ c[3 + 1] = <<y>>[1]
    BY <1>2, <2>1, <2>2 DEF Joined
  <2> QED BY <1>2, <2>1, <2>2, <2>3
<1> HIDE DEF c
<1>4. c = <<u, v, x, y>>
  <2>1. \A i \in 1..4 : c[i] = <<u, v, x, y>>[i]
    BY <1>3
  <2> QED BY <1>1, <1>3, <2>1, SeqEqual
<1> QED BY <1>4 DEF c, a

\* What CloseElement emits
EndOf(s, name) ==
  LET depth == s.depth - 1
      layout == IF s.textDepth < 0 THEN <<"\n">> \o Space(depth) ELSE <<>>
      end == IF s.elementJustOpened THEN <<"/", ">">>
             ELSE layout \o <<"<", "/">> \o name \o <<">">>
  IN end \o IF depth = 0 THEN <<"\n">> ELSE <<>>

LEMMA EndTag ==
  ASSUME NEW s, PrinterOK(s), NEW n \in Symbol \ {NUL}
  PROVE  \/ EndOf(s, <<n>>) \in Plain
         \/ \E a \in Plain, b \in Seq(Blank) :
              EndOf(s, <<n>>) = (a \o <<"<", "/", n, ">">>) \o b
<1> DEFINE depth == s.depth - 1
           b == IF depth = 0 THEN <<"\n">> ELSE <<>>
           a == IF s.textDepth < 0 THEN <<"\n">> \o Space(depth) ELSE <<>>
<1>0. s.depth \in Int /\ s.textDepth \in Int /\ s.elementJustOpened \in BOOLEAN
  BY DEF PrinterOK
<1>1. <<"\n">> \in Plain /\ <<>> \in Plain /\ <<"/", ">">> \in Plain
      /\ <<"\n">> \in Seq(Blank) /\ <<>> \in Seq(Blank)
  <2>1. "\n" \in Symbol \ {"<", NUL} /\ "/" \in Symbol \ {"<", NUL}
        /\ ">" \in Symbol \ {"<", NUL}
    BY SomeSymbols, Zenon
  <2>2. "\n" \in Blank
    BY BlankSymbols
  <2>3. <<>> \in Plain /\ <<>> \in Seq(Blank)
    BY EmptySeq DEF Plain
  <2> QED BY <2>1, <2>2, <2>3, ShortTexts, Zenon DEF Plain
<1>2. b \in Plain /\ b \in Seq(Blank)
  BY <1>1, Zenon
<1>3. a \in Plain
  <2>1. depth \in Int
    BY <1>0
  <2> HIDE DEF depth
  <2> QED BY <1>1, <2>1, PlainParts, Zenon
<1>4. CASE s.elementJustOpened
  <2>1. EndOf(s, <<n>>) = <<"/", ">">> \o b
    BY <1>4, Zenon DEF EndOf
  <2> HIDE DEF b
  <2> QED BY <1>1, <1>2, <2>1, PlainParts
<1>5. CASE ~s.elementJustOpened
  <2>1. EndOf(s, <<n>>) = (a \o <<"<", "/">> \o <<n>> \o <<">">>) \o b
    BY <1>5, Zenon DEF EndOf
  <2> HIDE DEF a, b
  <2>2. a \o <<"<", "/">> \o <<n>> \o <<">">> = a \o <<"<", "/", n, ">">>
    <3>1. /\ a \in Texts /\ <<"<", "/">> \in Texts /\ <<n>> \in Texts
          /\ <<">">> \in Texts
      <4>1. "<" \in Symbol \ {NUL} /\ "/" \in Symbol \ {NUL} /\ ">" \in Symbol \ {NUL}
        BY SomeSymbols
      <4>2. a \in Texts
        BY <1>3, PlainIsInner DEF Inner
      <4> QED BY <4>1, <4>2, ShortTexts DEF Texts
    <3>2. (a \o <<"<", "/">>) \o <<n>> = a \o (<<"<", "/">> \o <<n>>)
      BY <3>1, ConcatAssociative DEF Texts
    <3>3. <<"<", "/">> \o <<n>> \in Texts
      BY <3>1, ConcatProperties DEF Texts
    <3>4. (a \o (<<"<", "/">> \o <<n>>)) \o <<">">>
            = a \o ((<<"<", "/">> \o <<n>>) \o <<">">>)
      BY <3>1, <3>3, ConcatAssociative DEF Texts
    <3> QED BY <3>2, <3>4, FourOf
  <2> QED BY <1>2, <1>3, <2>1, <2>2
<1> QED BY <1>0, <1>4, <1>5

LEMMA CloseIsEmit ==
  ASSUME NEW s, PrinterOK(s), NEW name, EndOf(s, name) \in Texts
  PROVE  /\ CloseElement(s, name).out = s.out \o EndOf(s, name)
         /\ PrinterOK(CloseElement(s, name))
<1> DEFINE d == s.depth - 1
           t == IF s.textDepth = d THEN -1 ELSE s.textDepth
           x == EndOf(s, name)
           e == Emit(s, x)
           c == [e EXCEPT !.depth = d, !.elementJustOpened = FALSE,
                          !.textDepth = t]
<1>1. CloseElement(s, name) =
        [e EXCEPT !.depth = d, !.elementJustOpened = FALSE,
                  !.textDepth = IF @ = d THEN -1 ELSE @]
  BY Zenon DEF CloseElement, EndOf
<1>2. d \in Int /\ t \in Int
  BY DEF PrinterOK
<1>3. s.out \o x \in Texts
  <2>1. s.out \in Texts
    BY DEF PrinterOK
  <2> HIDE DEF x
  <2> QED BY <2>1, ConcatProperties DEF Texts, x
<1> HIDE DEF x
<1>4. PrinterOK(e) /\ e.out = s.out \o x /\ e.textDepth = s.textDepth
  BY <1>3 DEF Emit, PrinterOK
<1>5. CloseElement(s, name) = c
  BY <1>1, <1>4 DEF PrinterOK
<1> HIDE DEF e, d, t
<1>6. PrinterOK(c) /\ c.out = e.out
  BY <1>2, <1>4 DEF PrinterOK
<1> QED BY <1>4, <1>5, <1>6 DEF x

LEMMA CloseGoesOn ==
  ASSUME NEW f \in Forms, NEW s, InMessage(s, f), NEW name \in Names
  PROVE  InMessage(CloseElement(s, <<name>>), f)
<1> DEFINE x == EndOf(s, <<name>>)
<1>1. Inner(x)
  <2>1. name \in Symbol \ {NUL} /\ PrinterOK(s)
    BY SomeSymbols DEF InMessage
  <2>2. CASE x \in Plain
    <3> HIDE DEF x
    <3> QED BY <2>2, PlainIsInner
  <2>3. CASE \E a \in Plain, b \in Seq(Blank) :
               x = (a \o <<"<", "/", name, ">">>) \o b
    <3>1. PICK a \in Plain, b \in Seq(Blank) :
            x = (a \o <<"<", "/", name, ">">>) \o b
      BY <2>3
    <3>2. b \in Plain
      <4>1. Blank \subseteq Symbol \ {"<", NUL}
        BY BlankSymbols
      <4> QED BY <4>1, SeqMonotonic DEF Plain
    <3> HIDE DEF x
    <3> QED BY <3>1, <3>2, PlainIsInner, TagIsInner, InnerConcat
  <2> QED BY <2>1, <2>2, <2>3, EndTag
<1> HIDE DEF x
<1>2. x \in Texts /\ PrinterOK(s) /\ Started(s.out, f)
  BY <1>1 DEF Inner, InMessage
<1> QED BY <1>1, <1>2, CloseIsEmit, StartedGoesOn DEF InMessage, x

LEMMA CloseEnds ==
  ASSUME NEW f \in Forms, NEW s, InMessage(s, f)
  PROVE  LET c == CloseElement(s, <<f>>)
         IN PrinterOK(c) /\ (Started(c.out, f) \/ Finished(c.out, f))
<1> DEFINE x == EndOf(s, <<f>>)
           c == CloseElement(s, <<f>>)
<1>0. f \in Symbol \ {NUL} /\ PrinterOK(s) /\ Started(s.out, f)
  BY SomeSymbols DEF InMessage
<1>1. x \in Plain \/ \E a \in Plain, b \in Seq(Blank) :
                       x = (a \o <<"<", "/", f, ">">>) \o b
  BY <1>0, EndTag
<1> HIDE DEF x
<1>2. CASE x \in Plain
  <2>1. Inner(x) /\ x \in Texts
    BY <1>2, PlainIsInner DEF Inner
  <2>2. PrinterOK(c) /\ c.out = s.out \o x
    BY <1>0, <2>1, CloseIsEmit DEF x
  <2> QED BY <1>0, <2>1, <2>2, StartedGoesOn
<1>3. ASSUME NEW a \in Plain, NEW b \in Seq(Blank),
             x = (a \o <<"<", "/", f, ">">>) \o b
      PROVE  PrinterOK(c) /\ Finished(c.out, f)
  <2> DEFINE tail == <<"<", "/", f, ">">>
  <2>1. PICK r : Inner(r) /\ s.out = <<"<", f>> \o r
    BY <1>0 DEF Started
  <2>2. /\ a \in Texts /\ b \in Texts /\ tail \in Texts /\ r \in Texts
        /\ <<"<", f>> \in Texts /\ s.out \in Texts
    <3>1. "<" \in Symbol \ {NUL} /\ "/" \in Symbol \ {NUL} /\ ">" \in Symbol \ {NUL}
      BY SomeSymbols
    <3>2. Blank \subseteq Symbol \ {NUL}
      BY BlankSymbols
    <3>3. b \in Texts
      BY <3>2, SeqMonotonic DEF Texts
    <3>4. tail \in Texts /\ <<"<", f>> \in Texts
      BY <1>0, <3>1 DEF Texts
    <3> QED BY <1>0, <2>1, <3>3, <3>4, PlainIsInner DEF Inner, PrinterOK
  <2> DEFINE h == <<"<", f>>
  <2>0. x = (a \o tail) \o b
    BY <1>3
  <2> HIDE DEF tail, h
  <2>3. a \o tail \in Texts /\ x \in Texts /\ r \o a \in Texts /\ tail \o b \in Texts
    <3>1. a \o tail \in Texts
      BY <2>2, ConcatProperties DEF Texts
    <3> QED BY <1>3, <2>2, <3>1, ConcatProperties DEF Texts, tail
  <2>4. PrinterOK(c) /\ c.out = s.out \o x
    BY <1>0, <2>3, CloseIsEmit DEF x
  <2> HIDE DEF c
  <2>5. x = a \o (tail \o b)
    <3>1. (a \o tail) \o b = a \o (tail \o b)
      <4>1. a \in Texts /\ tail \in Texts /\ b \in Texts
        BY <2>2
      <4> QED BY <4>1, TextsAssociate
    <3> QED BY <2>0, <3>1
  <2>6. s.out \o x = (s.out \o a) \o (tail \o b)
    <3> DEFINE y == tail \o b
    <3>1. y \in Texts /\ x = a \o y
      BY <2>3, <2>5
    <3> HIDE DEF y
    <3>2. (s.out \o a) \o y = s.out \o (a \o y)
      <4>1. s.out \in Texts /\ a \in Texts
        BY <2>2
      <4> QED BY ONLY <3>1, <4>1, TextsAssociate
    <3> QED BY <3>1, <3>2 DEF y
  <2>7. s.out \o a = h \o (r \o a)
    BY <2>1, <2>2, ConcatAssociative DEF Texts, h
  <2>8. Inner(r \o a)
    BY <2>1, PlainIsInner, InnerConcat
  <2>9. c.out = (h \o (r \o a)) \o (tail \o b)
    BY <2>4, <2>6, <2>7
  <2> QED BY <2>4, <2>8, <2>9 DEF Finished, tail, h
<1> QED BY <1>1, <1>2, <1>3

FirstPrinter ==
  [out |-> <<>>, elementJustOpened |-> FALSE, firstElement |-> TRUE,
   depth |-> 0, textDepth |-> -1]

LEMMA OpenStarts ==
  ASSUME NEW f \in Forms
  PROVE  InMessage(OpenElement(FirstPrinter, <<f>>), f)
<1> DEFINE s == FirstPrinter
           x == NewLine(s) \o Space(s.depth) \o <<"<">> \o <<f>>
<1>1. SealElementIfJustOpened(s) = s /\ s.depth = 0 /\ s.textDepth = -1
      /\ s.firstElement /\ s.out = <<>>
  BY DEF FirstPrinter, SealElementIfJustOpened
<1>2. NewLine(s) = <<>> /\ Space(s.depth) = <<>>
  <2>1. NewLine(s) = <<>>
    BY <1>1, Zenon DEF NewLine
  <2>2. Space(0) = <<>>
    <3>1. DOMAIN Space(0) = 1..0
      BY DEF Space
    <3>2. Space(0) \in Seq(Symbol \ {"<", NUL})
      BY PlainParts DEF Plain
    <3>3. Len(Space(0)) \in Nat /\ 1..Len(Space(0)) = 1..0
      BY <3>1, <3>2, LenProperties
    <3>4. Len(Space(0)) = 0
      BY <3>3, SameEnd
    <3> QED BY <3>2, <3>4, EmptySeq
  <2> QED BY <1>1, <2>1, <2>2
<1>3. "<" \in Symbol \ {NUL} /\ f \in Symbol \ {NUL}
  BY SomeSymbols
<1>4. x = <<"<", f>>
  <2>1. <<>> \o <<>> = <<>> /\ <<>> \o <<"<">> = <<"<">>
    OBVIOUS
  <2>2. x = <<>> \o <<>> \o <<"<">> \o <<f>>
    BY <1>2, Zenon
  <2> HIDE DEF x
  <2> QED BY <2>1, <2>2, PairOf, Zenon
<1>5. OpenElement(s, <<f>>) =
        [Emit(s, x) EXCEPT !.elementJustOpened = TRUE, !.firstElement = FALSE,
                           !.depth = @ + 1]
  BY <1>1, Zenon DEF OpenElement
<1> HIDE DEF x
<1>6. x \in Texts /\ <<>> \o x = x
  <2>1. x \in Texts
    BY <1>3, <1>4, ShortTexts DEF Texts
  <2> QED BY <2>1, ConcatEmptySeq DEF Texts
<1> DEFINE e == Emit(s, x)
<1>7. PrinterOK(e) /\ e.out = x
  <2>1. PrinterOK(s)
    <3>1. <<>> \in Texts
      BY EmptySeq DEF Texts
    <3> QED BY <3>1 DEF PrinterOK, FirstPrinter
  <2> QED BY <1>1, <1>6, <2>1 DEF Emit, PrinterOK
<1> HIDE DEF e
<1> DEFINE d == e.depth + 1
           q == [e EXCEPT !.elementJustOpened = TRUE, !.firstElement = FALSE,
                          !.depth = d]
<1>8. OpenElement(s, <<f>>) = q
  BY <1>5, <1>7 DEF PrinterOK, e
<1>9. d \in Int
  BY <1>7 DEF PrinterOK
<1> HIDE DEF d
<1>10. PrinterOK(q) /\ q.out = x
  BY <1>7, <1>9 DEF PrinterOK
<1>11. Started(x, f)
  <2>1. Inner(<<>>)
    <3>1. <<>> \in Plain
      BY EmptySeq DEF Plain
    <3> QED BY <3>1, PlainIsInner
  <2>2. x = x \o <<>>
    BY <1>6, ConcatEmptySeq DEF Texts
  <2> QED BY <1>4, <2>1, <2>2 DEF Started
<1> HIDE DEF q
<1> QED BY <1>8, <1>10, <1>11 DEF InMessage

-----------------------------------------------------------------------------
(* The document that is made of a message                                   *)

LEMMA LeastInteger ==
  ASSUME NEW T \in SUBSET Int, IsFiniteSet(T), T # {}
  PROVE  Min(T) \in T
<1> DEFINE HasLeast(S) == \E k \in S : \A j \in S : k <= j
           Sizes == {n \in Nat : \E S \in SUBSET Int :
                       /\ IsFiniteSet(S) /\ S # {} /\ Cardinality(S) = n
                       /\ ~HasLeast(S)}
<1>1. CASE Sizes = {}
  <2>1. Cardinality(T) \in Nat
    BY FS_CardinalityType
  <2>2. HasLeast(T)
    BY <1>1, <2>1
  <2> QED BY <2>2 DEF Min
<1>2. CASE Sizes # {}
  <2>1. PICK n \in Sizes : \A j \in Sizes : n <= j
    <3>1. Sizes \in SUBSET Nat
      OBVIOUS
    <3> HIDE DEF Sizes
    <3> QED BY <1>2, <3>1, LeastNumber
  <2>2. PICK S \in SUBSET Int : /\ IsFiniteSet(S) /\ S # {}
                                /\ Cardinality(S) = n /\ ~HasLeast(S)
    BY <2>1
  <2>3. PICK x \in S : TRUE
    BY <2>2
  <2> DEFINE R == S \ {x}
  <2>4. IsFiniteSet(R) /\ Cardinality(R) = n - 1 /\ R \in SUBSET Int /\ n \in Nat
    BY <2>1, <2>2, <2>3, FS_RemoveElement
  <2>5. R = {} => HasLeast(S)
    <3>1. R = {} => S = {x}
      BY <2>3
    <3>2. x \in Int
      BY <2>3
    <3> QED BY <3>1, <3>2
  <2>6. ASSUME R # {} PROVE HasLeast(S)
    <3>1. HasLeast(R)
      <4>1. Cardinality(R) \in Nat
        BY <2>4, FS_CardinalityType
      <4>2. n - 1 \in Nat /\ ~(n <= n - 1)
        BY <2>4, <4>1
      <4>3. n - 1 \notin Sizes
        <5> HIDE DEF Sizes
        <5> QED BY <2>1, <4>2
      <4> HIDE DEF R, HasLeast
      <4> QED BY <2>4, <2>6, <4>2, <4>3
    <3>2. PICK k \in R : \A j \in R : k <= j
      BY <3>1
    <3>3. CASE k <= x
      <4>1. \A j \in S : k <= j
        BY <3>2, <3>3
      <4> QED BY <3>2, <4>1
    <3>4. CASE ~(k <= x)
      <4>1. ASSUME NEW j \in S PROVE x <= j
        <5>1. x \in Int /\ k \in Int /\ j \in Int
          BY <2>3
        <5>2. j = x \/ k <= j
          BY <3>2
        <5> QED BY <3>4, <5>1, <5>2
      <4> QED BY <2>3, <4>1
    <3> QED BY <3>3, <3>4
  <2> QED BY <2>2, <2>5, <2>6
<1> QED BY <1>1, <1>2

\* A text as the first node below p is also the last.
LEMMA SetTextInserts ==
  ASSUME NEW d, Sound(d), Allocated(d) # Node, NEW v, NEW p \in Parent,
         \A m \in Node : d.parent[m] # p
  PROVE  SetText(d, p, v) = InsertEndChild(New(d, "text", v), p, Fresh(d))
<1> DEFINE n == Fresh(d)
           c == New(d, "text", v)
           b == SetTracked(c, n)
<1>1. "text" \in Kind
  BY DEF Kind
<1>2. d.firstChild[p] = Null /\ d.lastChild[p] = Null
  BY DEF Sound, PointersOK, IsWellLinked
<1>3. SetText(d, p, v) = InsertFirstChild(c, p, n)
  BY <1>2 DEF SetText
<1>4. /\ Sound(c) /\ n \notin Linked(c)
      /\ c.firstChild = d.firstChild /\ c.lastChild = d.lastChild
  <2>1. Sound(c)
    BY <1>1, NewSound
  <2>2. /\ Linked(c) = Linked(d) /\ n \notin Linked(d)
        /\ c.firstChild = d.firstChild /\ c.lastChild = d.lastChild
    BY <1>1, NewFields
  <2> HIDE DEF c, n
  <2> QED BY <2>1, <2>2
<1> HIDE DEF c, n
<1>5. b.firstChild = c.firstChild /\ b.lastChild = c.lastChild
  BY <1>4, DataKeepsPointers DEF SamePointers
<1>6. InsertFirstChild(c, p, n) = Linking(b, p, Null, n, b.firstChild[p])
      /\ InsertEndChild(c, p, n) = Linking(b, p, b.lastChild[p], n, Null)
  BY <1>4 DEF InsertFirstChild, InsertEndChild, InsertChildPreamble
<1> QED BY <1>2, <1>3, <1>4, <1>5, <1>6 DEF c, n

LEMMA TextHangs ==
  ASSUME NEW d, NEW P, Hanging(d, P), Allocated(d) # Node, NEW v \in Value,
         P \subseteq Elements(d), NEW p \in P, \A m \in Node : d.parent[m] # p
  PROVE  GotChild(d, SetText(d, p, v), P, Fresh(d), "text", v, p)
<1>1. Sound(d) /\ p \in Parent /\ "text" \in Kind
  BY DEF Hanging, Parent, Elements, Kind
<1>2. SetText(d, p, v) = InsertEndChild(New(d, "text", v), p, Fresh(d))
  BY <1>1, SetTextInserts
<1> QED BY <1>1, <1>2, ChildHangs

AttributeTexts == [name : Plain, value : Texts]

\* What the nodes of the document have in them; r is the element of the message.
IsPart(d, n) ==
  \/ d.kind[n] = "element" /\ \E name \in Names : d.value[n] = <<name>>
  \/ d.kind[n] = "text" /\ d.value[n] \in Texts
Printable(d, r, f) ==
  \A n \in Allocated(d) :
    /\ d.attributes[n] \in Seq(AttributeTexts)
    /\ IF n = r THEN d.kind[n] = "element" /\ d.value[n] = <<f>>
       ELSE IsPart(d, n)

\* While it is made: P are the elements that are in no list yet, and k cells are
\* left.
Growing(d, P, r, f, k) ==
  /\ Hanging(d, P) /\ P \subseteq Elements(d)
  /\ Printable(d, r, f)
  /\ \A n \in Node : d.parent[n] # Document
  /\ k \in Nat /\ Cardinality(Node \ Allocated(d)) >= k

LEMMA OneCellLess ==
  ASSUME NEW d, NEW e, NEW n \in Node, n \notin Allocated(d),
         Allocated(e) = Allocated(d) \cup {n}, NEW k \in Nat,
         Cardinality(Node \ Allocated(d)) >= k + 1
  PROVE  Cardinality(Node \ Allocated(e)) >= k
<1> DEFINE S == Node \ Allocated(d)
<1>1. IsFiniteSet(S)
  BY NodeAssumption, FS_Subset
<1>2. Node \ Allocated(e) = S \ {n} /\ n \in S
  OBVIOUS
<1> HIDE DEF S
<1>3. Cardinality(S \ {n}) = Cardinality(S) - 1 /\ Cardinality(S) \in Nat
  BY <1>1, <1>2, FS_RemoveElement, FS_CardinalityType
<1> QED BY <1>2, <1>3 DEF S

LEMMA CellIsLeft ==
  ASSUME NEW d, NEW k \in Nat, Cardinality(Node \ Allocated(d)) >= k + 1
  PROVE  Allocated(d) # Node
<1>1. Allocated(d) = Node => Node \ Allocated(d) = {}
  OBVIOUS
<1> QED BY <1>1, FS_EmptySet

\* A new element with its attribute or none is in no list and has none.
Fresher(d, e, P, n, r, f, k) ==
  /\ Growing(e, P \cup {n}, r, f, k)
  /\ n \in Node /\ d.kind[n] = "free" /\ n \notin P /\ e.attributes[n] = <<>>
  /\ \A m \in Node : e.parent[m] = d.parent[m] /\ e.parent[m] # n

LEMMA ElementGrows ==
  ASSUME NEW d, NEW P, NEW r, NEW f, NEW k \in Nat,
         Growing(d, P, r, f, k + 1), NEW name \in Symbol,
         IF Fresh(d) = r THEN name = f ELSE name \in Names
  PROVE  Fresher(d, NewElement(d, name), P, Fresh(d), r, f, k)
<1> DEFINE n == Fresh(d)
           e == NewElement(d, name)
           v == <<name>>
<1>1. Allocated(d) # Node /\ Hanging(d, P)
  BY CellIsLeft DEF Growing
<1>2. "element" \in Kind /\ v \in Value
  BY ShortTexts DEF Kind, Value
<1>3. Began(d, e, P, n, "element", v)
  BY <1>1, <1>2, NewHangs DEF NewElement
<1> HIDE DEF n, e
<1>4. P \cup {n} \subseteq Elements(e)
  BY <1>3 DEF Began, Growing, Elements
<1>5. Printable(e, r, f)
  <2>1. <<>> \in Seq(AttributeTexts)
    BY EmptySeq
  <2> SUFFICES ASSUME NEW m \in Allocated(e)
               PROVE  /\ e.attributes[m] \in Seq(AttributeTexts)
                      /\ IF m = r THEN e.kind[m] = "element" /\ e.value[m] = <<f>>
                         ELSE IsPart(e, m)
    BY DEF Printable
  <2>2. CASE m = n
    BY <1>3, <2>1, <2>2 DEF Began, IsPart, n
  <2>3. CASE m # n
    <3>1. m \in Allocated(d) /\ m \in Node
      BY <1>3, <2>3 DEF Began, Allocated
    <3>2. e.kind[m] = d.kind[m] /\ e.value[m] = d.value[m]
          /\ e.attributes = d.attributes
      BY <1>3, <2>3, <3>1 DEF Began
    <3> QED BY <3>1, <3>2 DEF Growing, Printable, IsPart
  <2> QED BY <2>2, <2>3
<1>6. Cardinality(Node \ Allocated(e)) >= k
  <2>1. n \in Node /\ n \notin Allocated(d) /\ Allocated(e) = Allocated(d) \cup {n}
    BY <1>3 DEF Began, Allocated
  <2> QED BY <2>1, OneCellLess DEF Growing
<1>7. \A m \in Node : e.parent[m] = d.parent[m] /\ e.parent[m] # n
                      /\ e.parent[m] # Document
  BY <1>3 DEF Began, Growing
<1>8. Growing(e, P \cup {n}, r, f, k)
  BY <1>3, <1>4, <1>5, <1>6, <1>7 DEF Began, Growing
<1> QED BY <1>3, <1>7, <1>8 DEF Began, Fresher, n, e

LEMMA AttributeGrows ==
  ASSUME NEW d, NEW P, NEW r, NEW f, NEW k, Growing(d, P, r, f, k),
         NEW n \in P, d.attributes[n] = <<>>, NEW a \in AttributeTexts
  PROVE  LET e == SetAttribute(d, n, a)
         IN Growing(e, P, r, f, k) /\ e.parent = d.parent
<1> DEFINE e == SetAttribute(d, n, a)
<1>1. Hanging(d, P) /\ n \in Node /\ n \in Allocated(d)
  BY DEF Growing, Elements, Hanging, Allocated
<1>2. a \in Attribute
  <2>1. Plain \subseteq Value /\ Texts \subseteq Value
    BY SeqMonotonic DEF Plain, Texts, Value
  <2> QED BY <2>1 DEF AttributeTexts, Attribute
<1>3. /\ Hanging(e, P) /\ e.parent = d.parent /\ e.kind = d.kind
      /\ e.value = d.value
  BY <1>1, <1>2, AttributeHangs
<1>4. d.attributes \in [Node -> Seq(Attribute)] /\ DOMAIN d = Fields
  BY <1>1 DEF Hanging, Counted, CountedBut, Sound
<1>5. e.attributes = [d.attributes EXCEPT ![n] = Append(@, a)]
  <2>1. DOMAIN d.attributes[n] = {}
    OBVIOUS
  <2>2. FindAttribute(d, n, a.name) = 0
    BY <2>1 DEF FindAttribute
  <2> QED BY <1>4, <2>2 DEF SetAttribute, Fields
<1> HIDE DEF e
<1>6. Append(<<>>, a) \in Seq(AttributeTexts)
  BY EmptySeq, AppendProperties
<1>7. /\ e.attributes[n] \in Seq(AttributeTexts)
      /\ \A m \in Node \ {n} : e.attributes[m] = d.attributes[m]
  BY <1>1, <1>4, <1>5, <1>6
<1>8. Allocated(e) = Allocated(d) /\ Elements(e) = Elements(d)
  BY <1>3 DEF Allocated, Elements
<1>9. Printable(e, r, f)
  BY <1>3, <1>7, <1>8 DEF Growing, Printable, IsPart, Allocated
<1>10. Growing(e, P, r, f, k)
  BY <1>3, <1>8, <1>9 DEF Growing
<1> QED BY <1>3, <1>10 DEF e

LEMMA TextGrows ==
  ASSUME NEW d, NEW P, NEW r, NEW f, NEW k \in Nat,
         Growing(d, P, r, f, k + 1), NEW v \in Texts, NEW p \in P,
         \A m \in Node : d.parent[m] # p, r \in Allocated(d) \/ r = p
  PROVE  Growing(SetText(d, p, v), P, r, f, k)
<1> DEFINE n == Fresh(d)
           e == SetText(d, p, v)
<1>1. Allocated(d) # Node /\ Hanging(d, P) /\ P \subseteq Elements(d)
  BY CellIsLeft DEF Growing
<1>2. v \in Value
  BY SeqMonotonic DEF Texts, Value
<1>3. GotChild(d, e, P, n, "text", v, p)
  BY <1>1, <1>2, TextHangs
<1> HIDE DEF n, e
<1>4. n # r
  BY <1>1, <1>3 DEF GotChild, Allocated, Elements
<1>5. Printable(e, r, f)
  <2>1. <<>> \in Seq(AttributeTexts)
    BY EmptySeq
  <2> SUFFICES ASSUME NEW m \in Allocated(e)
               PROVE  /\ e.attributes[m] \in Seq(AttributeTexts)
                      /\ IF m = r THEN e.kind[m] = "element" /\ e.value[m] = <<f>>
                         ELSE IsPart(e, m)
    BY DEF Printable
  <2>2. CASE m = n
    BY <1>3, <1>4, <2>1, <2>2 DEF GotChild, IsPart
  <2>3. CASE m # n
    <3>1. m \in Allocated(d) /\ m \in Node
      BY <1>3, <2>3 DEF GotChild, Allocated
    <3>2. e.kind[m] = d.kind[m] /\ e.value[m] = d.value[m]
          /\ e.attributes = d.attributes
      BY <1>3, <2>3, <3>1 DEF GotChild
    <3> QED BY <3>1, <3>2 DEF Growing, Printable, IsPart
  <2> QED BY <2>2, <2>3
<1>6. Cardinality(Node \ Allocated(e)) >= k
  <2>1. n \in Node /\ n \notin Allocated(d) /\ Allocated(e) = Allocated(d) \cup {n}
    BY <1>3 DEF GotChild, Allocated
  <2> QED BY <2>1, OneCellLess DEF Growing
<1>7. \A m \in Node : e.parent[m] # Document
  <2>1. p # Document
    BY <1>1, NullIsNoNode DEF Elements
  <2> QED BY <1>3, <2>1 DEF GotChild, Growing
<1>8. Growing(e, P, r, f, k)
  BY <1>3, <1>5, <1>6, <1>7 DEF GotChild, Growing
<1> QED BY <1>8 DEF e

LEMMA InsertGrows ==
  ASSUME NEW d, NEW P, NEW r, NEW f, NEW k, Growing(d, P, r, f, k),
         NEW x \in P, NEW p \in P \ {x}
  PROVE  Growing(InsertEndChild(d, p, x), P \ {x}, r, f, k)
<1> DEFINE e == InsertEndChild(d, p, x)
<1>1. /\ Hanging(d, P) /\ P \subseteq Elements(d) /\ Sound(d)
      /\ x \in Allocated(d) \ Linked(d) /\ p \in Elements(d)
      /\ p \in Node /\ x \in Node
  BY DEF Growing, Hanging, Elements
<1>2. Hanging(e, P \ {x})
  BY <1>1, InsertHangs
<1>3. /\ e.kind = d.kind /\ e.value = d.value /\ e.attributes = d.attributes
      /\ e.parent = [d.parent EXCEPT ![x] = p]
      /\ Allocated(e) = Allocated(d) /\ Elements(e) = Elements(d)
  BY <1>1, InsertFields
<1> HIDE DEF e
<1>4. \A m \in Node : e.parent[m] # Document
  <2>1. d.parent \in [Node -> Parent \cup {Null}] /\ p # Document
    BY <1>1, NullIsNoNode DEF Sound, PointersOK
  <2> QED BY <1>3, <2>1 DEF Growing
<1>5. Printable(e, r, f)
  BY <1>3 DEF Growing, Printable, IsPart
<1>6. Growing(e, P \ {x}, r, f, k)
  BY <1>1, <1>2, <1>3, <1>4, <1>5 DEF Growing
<1> QED BY <1>6 DEF e

LEMMA AddedGrows ==
  ASSUME NEW d, NEW P, NEW r, NEW f, NEW k \in Nat,
         Growing(d, P, r, f, k + 2), r \in P, NEW p \in P, NEW name \in Names,
         NEW v \in Texts
  PROVE  Growing(Added(d, p, name, v), P, r, f, k)
<1> DEFINE n == Fresh(d)
           b == NewElement(d, name)
           c == SetText(b, n, v)
<1>1. Growing(d, P, r, f, (k + 1) + 1) /\ k + 1 \in Nat
  BY DEF Growing
<1>2. P \subseteq Allocated(d) /\ P \subseteq Node
  BY DEF Growing, Elements, Hanging
<1>3. n # r /\ name \in Symbol
  <2>1. Allocated(d) # Node /\ Sound(d)
    BY CellIsLeft, <1>1 DEF Growing, Hanging
  <2>2. d.kind[n] = "free"
    BY <2>1, NewFields DEF Kind
  <2>3. r \in Allocated(d)
    BY <1>2
  <2> HIDE DEF n
  <2> QED BY <2>2, <2>3, SomeSymbols DEF Allocated
<1>4. Fresher(d, b, P, n, r, f, k + 1)
  BY <1>1, <1>3, ElementGrows
<1> HIDE DEF b, n
<1>5. Growing(b, P \cup {n}, r, f, k + 1) /\ n \in P \cup {n}
      /\ \A m \in Node : b.parent[m] # n
  BY <1>4 DEF Fresher
<1>6. r \in Allocated(b)
  BY <1>5 DEF Growing, Hanging
<1>7. Growing(c, P \cup {n}, r, f, k)
  BY <1>5, <1>6, TextGrows
<1> HIDE DEF c
<1>8. n \notin P
  BY <1>4 DEF Fresher
<1>9. p \in (P \cup {n}) \ {n} /\ (P \cup {n}) \ {n} = P
  BY <1>8
<1>10. Growing(InsertEndChild(c, p, n), P, r, f, k)
  BY <1>7, <1>9, InsertGrows
<1> QED BY <1>10 DEF Added, b, c, n

LEMMA NumeralIsText ==
  ASSUME NEW k \in Numbers PROVE Numeral(k) \in Texts
<1>1. ToString(k) \in Digits /\ NUL \in Markup
  BY DEF Digits, Markup
<1>2. ToString(k) \in Symbol \ {NUL}
  BY <1>1, MarkupAssumption, NumeralAssumption, Zenon
<1> QED BY <1>2, ShortTexts, Zenon DEF Numeral, Texts

LEMMA NumberAttributes ==
  ASSUME NEW k \in Numbers
  PROVE  /\ NumberAttribute("Number", k) \in AttributeTexts
         /\ NumberAttribute("NodeID", k) \in AttributeTexts
<1>1. /\ "Number" \in Symbol \ {"<", NUL} /\ "NodeID" \in Symbol \ {"<", NUL}
  BY SomeSymbols, Zenon
<1>2. <<"Number">> \in Plain /\ <<"NodeID">> \in Plain
  BY <1>1, ShortTexts, Zenon DEF Plain
<1> QED BY <1>2, NumeralIsText DEF NumberAttribute, AttributeTexts

\* The element of the message, with the fields before the times
HeaderMade(d, f, number, type, sourceID, destinationID) ==
  LET r == Fresh(d)
      d1 == SetAttribute(NewElement(d, f), r, NumberAttribute("Number", number))
      d2 == Added(d1, r, "Type", Numeral(type))
      d3 == Added(d2, r, "SourceID", Numeral(sourceID))
      d4 == Added(d3, r, "DestinationID", Numeral(destinationID))
      x == Fresh(d4)
  IN Growing(NewElement(d4, "VectorTimes"), {r, x}, r, f, 0) /\ r # x

LEMMA HeaderIsMade ==
  ASSUME NEW d, d = Empty, Cardinality(Node \ Allocated(d)) >= 8,
         NEW f \in Forms, NEW number \in Numbers, NEW type \in Numbers,
         NEW sourceID \in Numbers, NEW destinationID \in Numbers
  PROVE  HeaderMade(d, f, number, type, sourceID, destinationID)
<1> DEFINE r == Fresh(d)
           d0 == NewElement(d, f)
           d1 == SetAttribute(d0, r, NumberAttribute("Number", number))
           d2 == Added(d1, r, "Type", Numeral(type))
           d3 == Added(d2, r, "SourceID", Numeral(sourceID))
           d4 == Added(d3, r, "DestinationID", Numeral(destinationID))
           x == Fresh(d4)
           e == NewElement(d4, "VectorTimes")
<1>1. Growing(d, {}, r, f, 7 + 1)
  <2>1. Allocated(d) = {} /\ \A n \in Node : d.parent[n] # Document
    BY NullIsNoNode DEF Allocated, Empty, NoCell
  <2> HIDE DEF r
  <2> QED BY <2>1, EmptyHangs DEF Growing, Printable
<1>2. {"Type", "SourceID", "DestinationID", "VectorTimes"} \subseteq Names
      /\ f \in Symbol /\ "VectorTimes" \in Symbol
  <2>1. {"Type", "SourceID", "DestinationID", "VectorTimes"} \subseteq Names
    BY DEF Names, fieldNames
  <2> QED BY <2>1, SomeSymbols, Zenon
<1>3. Fresher(d, d0, {}, r, r, f, 7)
  BY <1>1, <1>2, ElementGrows
<1> HIDE DEF d0, r
<1>4. Growing(d0, {r}, r, f, 7) /\ d0.attributes[r] = <<>>
  <2>1. {} \cup {r} = {r}
    OBVIOUS
  <2> QED BY <1>3, <2>1 DEF Fresher
<1>5. Growing(d1, {r}, r, f, 5 + 2)
  BY <1>4, NumberAttributes, AttributeGrows
<1> HIDE DEF d1
<1>6. Growing(d2, {r}, r, f, 3 + 2)
  <2>1. r \in {r} /\ Numeral(type) \in Texts /\ "Type" \in Names /\ 5 \in Nat
    BY <1>2, NumeralIsText
  <2>2. Growing(Added(d1, r, "Type", Numeral(type)), {r}, r, f, 5)
    BY <1>5, <2>1, AddedGrows
  <2> QED BY <2>2
<1> HIDE DEF d2
<1>7. Growing(d3, {r}, r, f, 1 + 2)
  BY <1>2, <1>6, NumeralIsText, AddedGrows
<1> HIDE DEF d3
<1>8. Growing(d4, {r}, r, f, 0 + 1)
  BY <1>2, <1>7, NumeralIsText, AddedGrows
<1> HIDE DEF d4
<1>9. x # r
  <2>1. Allocated(d4) # Node /\ Sound(d4) /\ r \in Allocated(d4)
    BY CellIsLeft, <1>8 DEF Growing, Hanging
  <2>2. d4.kind[x] = "free"
    BY <2>1, NewFields DEF Kind
  <2> HIDE DEF x
  <2> QED BY <2>1, <2>2 DEF Allocated
<1>10. Fresher(d4, e, {r}, x, r, f, 0)
  BY <1>2, <1>8, <1>9, ElementGrows
<1> HIDE DEF e, x
<1>11. Growing(e, {r, x}, r, f, 0)
  <2>1. {r} \cup {x} = {r, x}
    OBVIOUS
  <2> QED BY <1>10, <2>1 DEF Fresher
<1> QED BY <1>9, <1>11 DEF HeaderMade, r, d0, d1, d2, d3, d4, x, e

\* A time of a node
LEMMA TimeIsMade ==
  ASSUME NEW d, NEW r, NEW x, NEW f, Growing(d, {r, x}, r, f, 2), r # x,
         NEW id \in Numbers, NEW time \in Numbers
  PROVE  LET e == Fresh(d)
             made == SetAttribute(NewElement(d, "Time"), e,
                                  NumberAttribute("NodeID", id))
             filled == SetText(made, e, Numeral(time))
         IN Growing(InsertEndChild(filled, x, e), {r, x}, r, f, 0)
<1> DEFINE P == {r, x}
           e == Fresh(d)
           b == NewElement(d, "Time")
           made == SetAttribute(b, e, NumberAttribute("NodeID", id))
           filled == SetText(made, e, Numeral(time))
<1>1. Growing(d, P, r, f, 1 + 1) /\ P \subseteq Allocated(d)
  BY DEF Growing, Hanging
<1>2. e # r /\ "Time" \in Symbol /\ "Time" \in Names
  <2>1. Allocated(d) # Node /\ Sound(d) /\ r \in Allocated(d)
    BY CellIsLeft, <1>1 DEF Growing, Hanging
  <2>2. d.kind[e] = "free"
    BY <2>1, NewFields DEF Kind
  <2>3. "Time" \in Names
    BY DEF Names
  <2> HIDE DEF e
  <2> QED BY <2>1, <2>2, <2>3, SomeSymbols DEF Allocated
<1>3. Fresher(d, b, P, e, r, f, 1)
  <2> HIDE DEF P
  <2> QED BY <1>1, <1>2, ElementGrows
<1> HIDE DEF b, e
<1>4. /\ Growing(b, P \cup {e}, r, f, 1) /\ b.attributes[e] = <<>>
      /\ e \notin P /\ \A m \in Node : b.parent[m] # e
  BY <1>3 DEF Fresher
<1> DEFINE Q == P \cup {e}
<1>5. e \in Q /\ r \in Q /\ x \in Q \ {e} /\ Q \ {e} = P
  BY <1>4
<1> HIDE DEF Q, P
<1>6. Growing(made, Q, r, f, 0 + 1) /\ made.parent = b.parent
  BY <1>4, <1>5, NumberAttributes, AttributeGrows DEF Q
<1> HIDE DEF made
<1>7. r \in Allocated(made) /\ \A m \in Node : made.parent[m] # e
  BY <1>4, <1>5, <1>6 DEF Growing, Hanging
<1>8. Growing(filled, Q, r, f, 0)
  BY <1>5, <1>6, <1>7, NumeralIsText, TextGrows
<1> HIDE DEF filled
<1>9. Growing(InsertEndChild(filled, x, e), P, r, f, 0)
  BY <1>5, <1>8, InsertGrows
<1> QED BY <1>9 DEF P, b, e, made, filled

\* The document of a message: all of it is below its one element.
Written(d, r, f) ==
  /\ Hanging(d, {}) /\ Printable(d, r, f)
  /\ r \in Node /\ d.next[r] = Null
  /\ \A n \in Node : d.parent[n] = Document <=> n = r

LEMMA MessageIsMade ==
  ASSUME NEW d, NEW r, NEW x, NEW f, Growing(d, {r, x}, r, f, 2), r # x,
         NEW content \in Texts
  PROVE  Written(InsertEndChild(Added(InsertEndChild(d, r, x), r, "Content",
                                      content), Document, r), r, f)
<1> DEFINE P == {r, x}
           b == InsertEndChild(d, r, x)
           c == Added(b, r, "Content", content)
           e == InsertEndChild(c, Document, r)
<1>1. P \ {x} = {r} /\ x \in P /\ r \in P \ {x}
  OBVIOUS
<1> HIDE DEF P
<1>2. Growing(b, {r}, r, f, 2)
  <2>1. Growing(b, P \ {x}, r, f, 2)
    BY <1>1, InsertGrows DEF P
  <2> HIDE DEF b
  <2> QED BY <1>1, <2>1
<1> HIDE DEF b
<1>3. Growing(c, {r}, r, f, 0)
  <2>1. Growing(b, {r}, r, f, 0 + 2) /\ "Content" \in Names
    BY <1>2 DEF Names, fieldNames
  <2> QED BY <2>1, AddedGrows
<1> HIDE DEF c
<1>4. /\ Hanging(c, {r}) /\ Sound(c) /\ r \in Allocated(c) \ Linked(c)
      /\ r \in Node
  BY <1>3 DEF Growing, Hanging, Allocated
<1>5. Hanging(e, {})
  <2>1. Hanging(e, {r} \ {r})
    BY <1>4, InsertHangs
  <2> QED BY <2>1
<1>6. /\ e.kind = c.kind /\ e.value = c.value /\ e.attributes = c.attributes
      /\ e.parent = [c.parent EXCEPT ![r] = Document]
      /\ e.next[r] = Null /\ Allocated(e) = Allocated(c)
  BY <1>4, InsertFields
<1> HIDE DEF e
<1>7. \A n \in Node : e.parent[n] = Document <=> n = r
  BY <1>3, <1>4, <1>6 DEF Growing, Sound, PointersOK
<1>8. Printable(e, r, f)
  BY <1>3, <1>6 DEF Growing, Printable, IsPart
<1> QED BY <1>4, <1>5, <1>6, <1>7, <1>8 DEF Written, b, c, e

-----------------------------------------------------------------------------
(* The invariant of a message on its way                                    *)

WriterInv ==
  /\ message # NoMessage => IsMessage(message)
  /\ writing \in {"idle", "times", "printing", "sent"}
  /\ writing = "idle" => doc = Empty
  /\ writing # "idle" => message # NoMessage
  /\ writing = "times" =>
       /\ Growing(doc, {root, xvectorTimes}, root, message.form, 0)
       /\ root # xvectorTimes
       /\ left \subseteq DOMAIN message.vectorTimes
  /\ writing \in {"printing", "sent"} => Written(doc, root, message.form)

LEMMA MessageFacts ==
  ASSUME WriterInv, message # NoMessage
  PROVE  /\ message.form \in Forms
         /\ message.type \in Numbers /\ message.number \in Numbers
         /\ message.sourceID \in Numbers /\ message.destinationID \in Numbers
         /\ message.content \in Texts
         /\ IsFiniteSet(DOMAIN message.vectorTimes)
         /\ DOMAIN message.vectorTimes \subseteq Numbers
         /\ \A id \in DOMAIN message.vectorTimes :
              message.vectorTimes[id] \in Numbers
<1>1. IsMessage(message)
  BY DEF WriterInv
<1>2. message.content \in Texts
  <2>1. message.content \in Contents
    BY <1>1 DEF IsMessage
  <2> QED BY <2>1, ContentIsText
<1>3. {message.type, message.number, message.sourceID, message.destinationID}
        \subseteq Numbers
  BY <1>1, Zenon DEF IsMessage
<1> QED BY <1>1, <1>2, <1>3 DEF IsMessage

LEMMA WriteHeaderKeeps ==
  ASSUME WriterInv, writeHeader PROVE WriterInv'
<1> DEFINE r == Fresh(doc)
           d1 == SetAttribute(NewElement(doc, message.form), r,
                              NumberAttribute("Number", message.number))
           d2 == Added(d1, r, "Type", Numeral(message.type))
           d3 == Added(d2, r, "SourceID", Numeral(message.sourceID))
           d4 == Added(d3, r, "DestinationID", Numeral(message.destinationID))
           x == Fresh(d4)
<1>1. /\ message # NoMessage /\ writing = "idle" /\ doc = Empty
      /\ Cardinality(Node \ Allocated(doc)) >= 8
      /\ message' = message
      /\ writing' = "times"
  BY DEF writeHeader, HasCells, WriterInv, transferVars
<1>2. /\ doc' = NewElement(d4, "VectorTimes") /\ xvectorTimes' = x /\ root' = r
      /\ left' = DOMAIN message.vectorTimes
  BY Zenon DEF writeHeader
<1>3. /\ Growing(NewElement(d4, "VectorTimes"), {r, x}, r, message.form, 0)
      /\ r # x
  <2>1. HeaderMade(doc, message.form, message.number, message.type,
                   message.sourceID, message.destinationID)
    BY <1>1, MessageFacts, HeaderIsMade
  <2> QED BY <2>1 DEF HeaderMade
<1> HIDE DEF r, d1, d2, d3, d4, x
<1>4. Growing(doc', {root', xvectorTimes'}, root', message'.form, 0)
      /\ root' # xvectorTimes'
  BY <1>1, <1>2, <1>3
<1> QED BY <1>1, <1>2, <1>4 DEF WriterInv

LEMMA RoomToGrow ==
  ASSUME NEW d, NEW P, NEW r, NEW f, Growing(d, P, r, f, 0), NEW k \in Nat,
         Cardinality(Node \ Allocated(d)) >= k
  PROVE  Growing(d, P, r, f, k)
BY DEF Growing

LEMMA WriteTimeKeeps ==
  ASSUME WriterInv, writeTime PROVE WriterInv'
<1> DEFINE id == Min(left)
           e == Fresh(doc)
           made == SetAttribute(NewElement(doc, "Time"), e,
                                NumberAttribute("NodeID", id))
           filled == SetText(made, e, Numeral(message.vectorTimes[id]))
<1>1. /\ writing = "times" /\ left # {} /\ message # NoMessage
      /\ Cardinality(Node \ Allocated(doc)) >= 2
      /\ Growing(doc, {root, xvectorTimes}, root, message.form, 0)
      /\ root # xvectorTimes /\ left \subseteq DOMAIN message.vectorTimes
      /\ message' = message /\ writing' = writing /\ root' = root
      /\ xvectorTimes' = xvectorTimes
  BY DEF writeTime, HasCells, WriterInv, transferVars
<1>2. /\ doc' = InsertEndChild(filled, xvectorTimes, e)
      /\ left' = left \ {id}
  BY DEF writeTime
<1>3. id \in DOMAIN message.vectorTimes
  <2>1. left \in SUBSET Int /\ IsFiniteSet(left)
    BY <1>1, MessageFacts, FS_Subset, NumeralAssumption
  <2>2. Min(left) \in left
    BY <1>1, <2>1, LeastInteger
  <2> QED BY <1>1, <2>2
<1>4. id \in Numbers /\ message.vectorTimes[id] \in Numbers
  BY <1>1, <1>3, MessageFacts
<1>5. Growing(doc, {root, xvectorTimes}, root, message.form, 2)
  BY <1>1, RoomToGrow
<1>6. Growing(InsertEndChild(filled, xvectorTimes, e), {root, xvectorTimes},
              root, message.form, 0)
  <2> HIDE DEF id
  <2> QED BY <1>1, <1>4, <1>5, TimeIsMade
<1> HIDE DEF id, e, made, filled
<1>7. Growing(doc', {root', xvectorTimes'}, root', message'.form, 0)
  BY <1>1, <1>2, <1>6
<1> QED BY <1>1, <1>2, <1>7 DEF WriterInv

LEMMA WriteContentKeeps ==
  ASSUME WriterInv, writeContent PROVE WriterInv' /\ writing' = "printing"
<1>1. /\ writing = "times" /\ message # NoMessage
      /\ Cardinality(Node \ Allocated(doc)) >= 2
      /\ Growing(doc, {root, xvectorTimes}, root, message.form, 0)
      /\ root # xvectorTimes
      /\ message' = message /\ writing' = "printing" /\ root' = root
  BY DEF writeContent, HasCells, WriterInv, transferVars
<1>2. Growing(doc, {root, xvectorTimes}, root, message.form, 2)
  BY <1>1, RoomToGrow
<1>3. Written(doc', root, message.form)
  BY <1>1, <1>2, MessageFacts, MessageIsMade DEF writeContent
<1>4. Written(doc', root', message'.form)
  BY <1>1, <1>3
<1> QED BY <1>1, <1>4 DEF WriterInv

\* Where the printer is in the document: s is the printer at the visit v of
\* the node n of d, with a of its attributes behind it
Prints(v, n, a, s, d, r, f) ==
  /\ v \in {"idle", "enter", "attributes", "exit", "done"}
  /\ v = "idle" => s = FirstPrinter
  /\ a \in Nat
  /\ v = "enter" =>
       /\ n \in Linked(d)
       /\ IF n = r THEN s = FirstPrinter ELSE InMessage(s, f)
  /\ v \in {"attributes", "exit"} =>
       n \in Linked(d) \cap Elements(d) /\ InMessage(s, f)
  /\ v = "done" =>
       PrinterOK(s) /\ (Started(s.out, f) \/ Finished(s.out, f))

PrinterInv ==
  /\ writing \notin {"printing", "sent"} => visit = "idle"
  /\ Prints(visit, at, attribute, printer, doc, root, message.form)

LEMMA WrittenFacts ==
  ASSUME NEW d, NEW r, NEW f, Written(d, r, f)
  PROVE  /\ Sound(d) /\ Linked(d) = Allocated(d) /\ r \in Linked(d)
         /\ r # Null /\ r # Document /\ r \in Elements(d)
         /\ d.value[r] = <<f>> /\ d.parent[r] = Document
         /\ d.firstChild[Document] = r
         /\ \A n \in Linked(d) :
              /\ n \in Node /\ d.attributes[n] \in Seq(AttributeTexts)
              /\ n # r => IsPart(d, n)
              /\ d.firstChild[n] # Null =>
                   d.firstChild[n] \in Linked(d) \ {r}
              /\ n # r /\ d.next[n] # Null => d.next[n] \in Linked(d) \ {r}
              /\ n # r => d.parent[n] \in Linked(d) \cap Elements(d)
<1>1. /\ Sound(d) /\ Linked(d) = Allocated(d) /\ r \in Node
      /\ d.next[r] = Null /\ d.parent[r] = Document
      /\ \A n \in Node : d.parent[n] = Document <=> n = r
  BY DEF Written, Hanging
<1>2. r \in Linked(d) /\ r # Null /\ r # Document
  BY <1>1, NullIsNoNode DEF Linked
<1>3. r \in Elements(d) /\ d.value[r] = <<f>>
  BY <1>1, <1>2 DEF Written, Printable, Elements
<1>4. d.firstChild[Document] = r
  <2>1. d.lastChild[Document] = r
    BY <1>1, <1>2 DEF Sound, IsWellLinked
  <2>2. d.firstChild[Document] # Null
    BY <1>1, <1>2, <2>1 DEF Sound, IsWellLinked, Parent
  <2>3. d.firstChild[Document] \in Node
        /\ d.parent[d.firstChild[Document]] = Document
    BY <1>1, <2>2 DEF Sound, PointersOK, IsWellLinked, Parent
  <2> QED BY <1>1, <2>3
<1>5. ASSUME NEW n \in Linked(d)
      PROVE  /\ n \in Node /\ d.attributes[n] \in Seq(AttributeTexts)
             /\ n # r => IsPart(d, n)
             /\ d.firstChild[n] # Null => d.firstChild[n] \in Linked(d) \ {r}
             /\ n # r /\ d.next[n] # Null => d.next[n] \in Linked(d) \ {r}
             /\ n # r => d.parent[n] \in Linked(d) \cap Elements(d)
  <2>1. n \in Node /\ n # Document /\ n # Null /\ n \in Parent
    BY NullIsNoNode DEF Linked, Parent
  <2>2. d.attributes[n] \in Seq(AttributeTexts) /\ (n # r => IsPart(d, n))
    BY <1>1 DEF Written, Printable
  <2>3. ASSUME d.firstChild[n] # Null
        PROVE  d.firstChild[n] \in Linked(d) \ {r}
    <3>1. d.firstChild[n] \in Node /\ d.parent[d.firstChild[n]] = n
      BY <1>1, <2>1, <2>3 DEF Sound, PointersOK, IsWellLinked
    <3> QED BY <1>1, <2>1, <3>1 DEF Linked
  <2>4. ASSUME n # r, d.next[n] # Null
        PROVE  d.next[n] \in Linked(d) \ {r}
    <3>1. d.next[n] \in Node /\ d.parent[d.next[n]] = d.parent[n]
      BY <1>1, <2>1, <2>4 DEF Sound, PointersOK, IsWellLinked
    <3>2. d.parent[n] # Document /\ d.parent[n] # Null
      BY <1>1, <2>1, <2>4 DEF Linked
    <3> QED BY <1>1, <3>1, <3>2 DEF Linked
  <2>5. ASSUME n # r PROVE d.parent[n] \in Linked(d) \cap Elements(d)
    <3>1. d.parent[n] \in Elements(d)
      BY <1>1, <2>1, <2>5 DEF Sound, IsWellLinked
    <3> QED BY <1>1, <3>1 DEF Elements, Allocated
  <2> QED BY <2>1, <2>2, <2>3, <2>4, <2>5
<1> QED BY <1>1, <1>2, <1>3, <1>4, <1>5

\* A step of the printer
LEMMA PrintingKeeps ==
  ASSUME WriterInv, PrinterInv, write PROVE WriterInv' /\ PrinterInv'
<1> DEFINE f == message.form
<1>1. /\ writing = "printing" /\ Written(doc, root, f) /\ f \in Forms
      /\ UNCHANGED <<doc, writing, root, xvectorTimes, left, message>>
  BY MessageFacts DEF write, WriterInv, writerVars, transferVars
<1>2. WriterInv'
  BY <1>1 DEF WriterInv
<1>0. /\ writing' = "printing" /\ doc' = doc /\ root' = root
      /\ message'.form = f /\ message.form = f
  BY <1>1
<1> HIDE DEF f
<1>12. Prints(visit, at, attribute, printer, doc, root, f)
  BY <1>0 DEF PrinterInv
<1> DEFINE Goal == Prints(visit', at', attribute', printer', doc, root, f)
<1> SUFFICES Goal
  BY <1>0, <1>2 DEF PrinterInv
<1>3. /\ root \in Linked(doc) /\ root # Null /\ root # Document
      /\ root \in Elements(doc)
      /\ doc.value[root] = <<f>> /\ doc.parent[root] = Document
      /\ doc.firstChild[Document] = root /\ doc.next[root] = Null
  BY <1>1, WrittenFacts DEF Written
<1>4. ASSUME NEW n \in Linked(doc)
      PROVE  /\ n # Document /\ n # Null
             /\ doc.attributes[n] \in Seq(AttributeTexts)
             /\ n # root => IsPart(doc, n)
             /\ doc.firstChild[n] # Null =>
                  doc.firstChild[n] \in Linked(doc) \ {root}
             /\ n # root /\ doc.next[n] # Null =>
                  doc.next[n] \in Linked(doc) \ {root}
             /\ n # root => doc.parent[n] \in Linked(doc) \cap Elements(doc)
             /\ n # root => doc.parent[n] # Document
  <2>1. n \in Node /\ n # Document /\ n # Null
    BY NullIsNoNode DEF Linked
  <2>2. n # root => doc.parent[n] # Document
    BY <1>1, <2>1 DEF Written
  <2> QED BY <1>1, <2>1, <2>2, WrittenFacts
<1>5. ASSUME GoesOn, at \in Linked(doc) \ {root}, InMessage(printer', f)
      PROVE  Goal
  <2>1. CASE doc.next[at] # Null
    <3>1. visit' = "enter" /\ at' = doc.next[at] /\ attribute' = 0
      BY <1>5, <2>1 DEF GoesOn, Goes
    <3>2. at' \in Linked(doc) \ {root}
      BY <1>4, <1>5, <2>1, <3>1
    <3> QED BY <1>5, <3>1, <3>2 DEF Prints
  <2>2. CASE doc.next[at] = Null
    <3>1. visit' = "exit" /\ at' = doc.parent[at] /\ attribute' = 0
      BY <1>4, <1>5, <2>2 DEF GoesOn, Goes
    <3>2. at' \in Linked(doc) \cap Elements(doc)
      BY <1>4, <1>5, <3>1
    <3> QED BY <1>5, <3>1, <3>2 DEF Prints
  <2> QED BY <2>1, <2>2
<1>6. CASE Accept
  <2>1. /\ visit = "idle" /\ visit' = "enter" /\ at' = root
        /\ printer' = printer /\ attribute' = 0
    BY <1>3, <1>6 DEF Accept, Goes
  <2>2. printer' = FirstPrinter
    BY <1>12, <2>1 DEF Prints
  <2> QED BY <1>3, <2>1, <2>2 DEF Prints
<1>7. CASE VisitEnter
  <2>1. /\ visit = "enter" /\ doc.kind[at] = "element"
        /\ printer' = OpenElement(printer, doc.value[at])
        /\ visit' = "attributes" /\ UNCHANGED <<at, attribute>>
    BY <1>7 DEF VisitEnter
  <2>2. at \in Linked(doc) /\ at \in Elements(doc)
    BY <1>12, <2>1 DEF Prints, Elements, Linked
  <2>3. InMessage(printer', f)
    <3>1. CASE at = root
      BY <1>12, <1>1, <1>3, <2>1, <3>1, OpenStarts DEF Prints
    <3>2. CASE at # root
      <4>1. PICK name \in Names : doc.value[at] = <<name>>
        BY <1>4, <2>1, <2>2, <3>2 DEF IsPart
      <4>2. InMessage(printer, f)
        BY <1>12, <2>1, <3>2 DEF Prints
      <4> QED BY <1>1, <2>1, <4>1, <4>2, OpenGoesOn
    <3> QED BY <3>1, <3>2
  <2>4. attribute' \in Nat
    BY <1>12, <2>1 DEF Prints
  <2> QED BY <2>1, <2>2, <2>3, <2>4 DEF Prints
<1>8. CASE VisitAttribute
  <2>1. /\ visit = "attributes" /\ attribute < Len(doc.attributes[at])
        /\ attribute' = attribute + 1
        /\ printer' = PushAttribute(printer, doc.attributes[at][attribute'])
        /\ UNCHANGED <<visit, at>>
    BY <1>8 DEF VisitAttribute
  <2>2. /\ at \in Linked(doc) \cap Elements(doc) /\ InMessage(printer, f)
        /\ attribute \in Nat
    BY <1>12, <2>1 DEF Prints
  <2>3. doc.attributes[at] \in Seq(AttributeTexts)
    BY <1>4, <2>2
  <2>4. attribute' \in 1..Len(doc.attributes[at])
    BY <2>1, <2>2, <2>3, LenProperties
  <2>5. doc.attributes[at][attribute'] \in AttributeTexts
    BY <2>3, <2>4, ElementOfSeq
  <2>6. InMessage(printer', f)
    BY <1>1, <2>1, <2>2, <2>5, AttributeGoesOn DEF AttributeTexts
  <2>7. attribute' \in Nat /\ visit' = "attributes" /\ at' = at
    BY <2>1, <2>2
  <2> QED BY <2>2, <2>6, <2>7 DEF Prints
<1>9. CASE VisitChildren
  <2>1. /\ visit = "attributes" /\ printer' = printer
        /\ Goes(doc.firstChild[at], at)
    BY <1>9 DEF VisitChildren
  <2>2. at \in Linked(doc) \cap Elements(doc) /\ InMessage(printer, f)
    BY <1>12, <2>1 DEF Prints
  <2>3. CASE doc.firstChild[at] # Null
    <3>1. visit' = "enter" /\ at' = doc.firstChild[at] /\ attribute' = 0
      BY <2>1, <2>3 DEF Goes
    <3>2. at' \in Linked(doc) \ {root}
      BY <1>4, <2>2, <2>3, <3>1
    <3> QED BY <2>1, <2>2, <3>1, <3>2 DEF Prints
  <2>4. CASE doc.firstChild[at] = Null
    <3>1. visit' = "exit" /\ at' = at /\ attribute' = 0
      BY <1>4, <2>1, <2>2, <2>4 DEF Goes
    <3> QED BY <2>1, <2>2, <3>1 DEF Prints
  <2> QED BY <2>3, <2>4
<1>10. CASE VisitExit
  <2>1. /\ visit = "exit" /\ printer' = CloseElement(printer, doc.value[at])
        /\ GoesOn
    BY <1>10 DEF VisitExit
  <2>2. at \in Linked(doc) \cap Elements(doc) /\ InMessage(printer, f)
    BY <1>12, <2>1 DEF Prints
  <2>3. CASE at = root
    <3>1. visit' = "done" /\ attribute' = 0
      BY <1>3, <2>1, <2>3 DEF GoesOn, Goes
    <3>2. PrinterOK(printer')
          /\ (Started(printer'.out, f) \/ Finished(printer'.out, f))
      BY <1>1, <1>3, <2>1, <2>2, <2>3, CloseEnds
    <3> QED BY <3>1, <3>2 DEF Prints
  <2>4. CASE at # root
    <3>1. PICK name \in Names : doc.value[at] = <<name>>
      BY <1>4, <2>2, <2>4 DEF IsPart, Elements
    <3>2. InMessage(printer', f)
      BY <1>1, <2>1, <2>2, <3>1, CloseGoesOn
    <3> QED BY <1>5, <2>1, <2>2, <2>4, <3>2
  <2> QED BY <2>3, <2>4
<1>11. CASE Visit
  <2>1. /\ visit = "enter" /\ doc.kind[at] # "element" /\ GoesOn
        /\ isText(doc.kind[at]) =>
             printer' = PushText(printer, doc.kind[at], doc.value[at])
    BY <1>11 DEF Visit
  <2>2. at \in Linked(doc) \ {root} /\ InMessage(printer, f)
    BY <1>12, <1>3, <2>1 DEF Prints, Elements
  <2>3. doc.kind[at] = "text" /\ doc.value[at] \in Texts
    BY <1>4, <2>1, <2>2 DEF IsPart
  <2>4. InMessage(printer', f)
    BY <1>1, <2>1, <2>2, <2>3, TextGoesOn DEF isText
  <2> QED BY <1>5, <2>1, <2>2, <2>4
<1> HIDE DEF Goal
<1> QED BY <1>6, <1>7, <1>8, <1>9, <1>10, <1>11 DEF write, Printing

\* A text is sent once, a piece of it arrives, and is parsed and read.
TransferInv ==
  /\ writing # "sent" => text = <<>>
  /\ text # <<>> =>
       \E o : /\ text = Append(o, NUL)
              /\ Started(o, message.form) \/ Finished(o, message.form)
  /\ piece # <<>> =>
       \E i, j \in DOMAIN text : i <= j /\ piece = SubSeq(text, i, j)
  /\ parsing # "idle" => piece # <<>> /\ charBuffer = UptoNUL(piece)
  /\ received # NoMessage => parsedAll /\ received = Reading(parsed)

MessageInv == WriterInv /\ PrinterInv /\ ParserInv /\ TagInv /\ TransferInv

LEMMA PieceFacts ==
  ASSUME WriterInv, TransferInv, piece # <<>>
  PROVE  /\ message.form \in Forms
         /\ \E o \in Texts : \E i, j \in 1..Len(o) + 1 :
              /\ Started(o, message.form) \/ Finished(o, message.form)
              /\ text = Append(o, NUL)
              /\ i <= j /\ piece = SubSeq(text, i, j)
<1>1. PICK i \in DOMAIN text, j \in DOMAIN text : i <= j /\ piece = SubSeq(text, i, j)
  BY DEF TransferInv
<1>2. text # <<>>
  BY <1>1
<1>3. message.form \in Forms
  <2>1. writing = "sent"
    BY <1>2 DEF TransferInv
  <2> QED BY <2>1, MessageFacts DEF WriterInv
<1>4. PICK o : /\ text = Append(o, NUL)
               /\ Started(o, message.form) \/ Finished(o, message.form)
  BY <1>2 DEF TransferInv
<1>5. o \in Texts
  BY <1>3, <1>4, FinishedTags
<1>6. text \in Value /\ Len(text) = Len(o) + 1
  BY <1>4, <1>5, TextWithoutNUL
<1>7. DOMAIN text = 1..Len(o) + 1
  BY <1>6, LenProperties DEF Value
<1> QED BY <1>1, <1>3, <1>4, <1>5, <1>7

\* A step that leaves the parser alone, and one that leaves the writer alone
LEMMA ParserRests ==
  ASSUME ParserInv, TagInv, UNCHANGED parserVars PROVE ParserInv' /\ TagInv'
<1>1. Unfinished' = Unfinished
  BY DEF parserVars, Unfinished
<1> QED BY <1>1 DEF parserVars, ParserInv, TagInv

LEMMA WriterRests ==
  ASSUME WriterInv, UNCHANGED <<writerVars, message>> PROVE WriterInv'
BY DEF writerVars, WriterInv

LEMMA PrinterRests ==
  ASSUME PrinterInv, UNCHANGED <<writerVars, printerVars, message>>
  PROVE  PrinterInv'
BY DEF writerVars, printerVars, PrinterInv

LEMMA TransferRests ==
  ASSUME TransferInv, UNCHANGED <<parserVars, transferVars>>,
         writing = "sent" => writing' = "sent"
  PROVE  TransferInv'
BY DEF TransferInv, parserVars, transferVars, parsedAll

\* The writer
LEMMA WritingSteps ==
  ASSUME MessageInv, writeHeader \/ writeTime \/ writeContent
  PROVE  MessageInv'
<1>1. /\ UNCHANGED <<printerVars, parserVars, transferVars>>
      /\ writing \notin {"printing", "sent"} /\ writing' # "sent"
  <2>1. CASE writeHeader
    BY <2>1 DEF writeHeader
  <2>2. CASE writeTime
    BY <2>2 DEF writeTime
  <2>3. CASE writeContent
    BY <2>3 DEF writeContent
  <2> QED BY <2>1, <2>2, <2>3
<1>2. WriterInv'
  BY WriteHeaderKeeps, WriteTimeKeeps, WriteContentKeeps DEF MessageInv
<1>3. PrinterInv'
  <2>1. /\ visit = "idle" /\ visit' = "idle" /\ attribute' = attribute
        /\ attribute \in Nat /\ printer' = FirstPrinter
    BY <1>1 DEF MessageInv, PrinterInv, Prints, printerVars
  <2> QED BY <2>1 DEF PrinterInv, Prints
<1>4. ParserInv' /\ TagInv'
  BY <1>1, ParserRests DEF MessageInv
<1>5. TransferInv'
  BY <1>1, TransferRests DEF MessageInv
<1> QED BY <1>2, <1>3, <1>4, <1>5 DEF MessageInv

LEMMA PrintStep ==
  ASSUME MessageInv, write PROVE MessageInv'
<1>1. UNCHANGED <<parserVars, transferVars>> /\ writing' = writing
  BY DEF write, writerVars
<1>2. WriterInv' /\ PrinterInv'
  BY PrintingKeeps DEF MessageInv
<1>3. ParserInv' /\ TagInv'
  BY <1>1, ParserRests DEF MessageInv
<1>4. TransferInv'
  BY <1>1, TransferRests DEF MessageInv
<1> QED BY <1>2, <1>3, <1>4 DEF MessageInv

LEMMA SendStep ==
  ASSUME MessageInv, convertToString PROVE MessageInv'
<1>1. /\ writing = "printing" /\ visit = "done" /\ writing' = "sent"
      /\ text' = Append(printer.out, NUL)
      /\ UNCHANGED <<doc, root, xvectorTimes, left, printerVars, parserVars,
                     message, piece, received>>
  BY DEF convertToString, Sends
<1>2. WriterInv'
  BY <1>1 DEF MessageInv, WriterInv
<1>3. PrinterInv'
  BY <1>1 DEF MessageInv, PrinterInv, printerVars
<1>4. ParserInv' /\ TagInv'
  BY <1>1, ParserRests DEF MessageInv
<1>5. TransferInv'
  <2>1. piece = <<>>
    <3>1. text = <<>>
      BY <1>1 DEF MessageInv, TransferInv
    <3>2. DOMAIN text = {}
      BY <3>1
    <3> QED BY <3>2 DEF MessageInv, TransferInv
  <2>2. Started(printer.out, message.form) \/ Finished(printer.out, message.form)
    BY <1>1 DEF MessageInv, PrinterInv, Prints
  <2>3. /\ message' = message /\ piece' = <<>> /\ received' = received
        /\ parsing' = parsing /\ charBuffer' = charBuffer /\ parsed' = parsed
    BY <1>1, <2>1 DEF parserVars
  <2>4. \E o : /\ text' = Append(o, NUL)
               /\ Started(o, message'.form) \/ Finished(o, message'.form)
    BY <1>1, <2>2, <2>3
  <2> QED BY <1>1, <2>1, <2>3, <2>4 DEF MessageInv, TransferInv, parsedAll
<1> QED BY <1>2, <1>3, <1>4, <1>5 DEF MessageInv

LEMMA ArriveStep ==
  ASSUME MessageInv, Arrive PROVE MessageInv'
<1>1. /\ piece = <<>>
      /\ \E i, j \in DOMAIN text : i <= j /\ piece' = SubSeq(text, i, j)
      /\ UNCHANGED <<writerVars, printerVars, parserVars, message, text, received>>
  BY DEF Arrive
<1>2. WriterInv' /\ PrinterInv'
  BY <1>1, WriterRests, PrinterRests DEF MessageInv
<1>3. ParserInv' /\ TagInv'
  BY <1>1, ParserRests DEF MessageInv
<1>4. TransferInv'
  <2>1. parsing = "idle"
    BY <1>1 DEF MessageInv, TransferInv
  <2>2. parsing' = "idle" /\ writing' = writing /\ ~parsedAll
    BY <1>1, <2>1 DEF parserVars, writerVars, parsedAll
  <2>3. received' = NoMessage /\ text' = text /\ message' = message
    BY <1>1, <2>2 DEF MessageInv, TransferInv
  <2>4. \E i, j \in DOMAIN text' : i <= j /\ piece' = SubSeq(text', i, j)
    BY <1>1, <2>3
  <2> QED BY <2>2, <2>3, <2>4 DEF MessageInv, TransferInv
<1> QED BY <1>2, <1>3, <1>4 DEF MessageInv

\* The reader
LEMMA ParsingRuns ==
  ASSUME Parsing
  PROVE  /\ parsing \in {"children", "attributes"} /\ parsing' # "idle"
         /\ charBuffer' = charBuffer
BY DEF Parsing, ParseEnd, ParseMarked, ParseElement, ParseAttribute, BadTag,
       ClosedElement, OpenTag, ClosingTag, StrayTag, InLoop, InTag, Fail, TagEnds

LEMMA CreateStep ==
  ASSUME MessageInv, create PROVE MessageInv'
<1>1. /\ piece # <<>>
      /\ UNCHANGED <<writerVars, printerVars, message, text, piece, received>>
  BY DEF create, transferVars
<1>2. WriterInv' /\ PrinterInv'
  BY <1>1, WriterRests, PrinterRests DEF MessageInv
<1>3. piece \in Value
  BY <1>1, PieceFacts, PieceOfText DEF MessageInv
<1>4. ParserInv' /\ TagInv'
  BY <1>3, ParseKeeps, ParseTags, ParsingKeeps, ParsingTags DEF create, MessageInv
<1>5. TransferInv'
  <2>1. /\ parsing \notin {"done", "failed"}
        /\ charBuffer' = UptoNUL(piece)
    <3>1. CASE Parse(piece)
      BY <3>1 DEF Parse
    <3>2. CASE Parsing
      BY <3>2, ParsingRuns DEF MessageInv, TransferInv
    <3> QED BY <3>1, <3>2 DEF create
  <2>2. received = NoMessage
    BY <2>1 DEF MessageInv, TransferInv, parsedAll
  <2> QED BY <1>1, <2>1, <2>2 DEF MessageInv, TransferInv, writerVars
<1> QED BY <1>2, <1>4, <1>5 DEF MessageInv

LEMMA ReadStep ==
  ASSUME MessageInv, read PROVE MessageInv'
<1>1. /\ parsedAll /\ received' = Reading(parsed)
      /\ UNCHANGED <<writerVars, printerVars, parserVars, message, text, piece>>
  BY DEF read
<1>2. WriterInv' /\ PrinterInv'
  BY <1>1, WriterRests, PrinterRests DEF MessageInv
<1>3. ParserInv' /\ TagInv'
  BY <1>1, ParserRests DEF MessageInv
<1>4. TransferInv'
  <2>1. parsedAll' /\ parsed' = parsed
    BY <1>1 DEF parsedAll, parserVars
  <2>2. received' = Reading(parsed')
    BY <1>1, <2>1
  <2> QED BY <1>1, <2>1, <2>2 DEF MessageInv, TransferInv, writerVars, parserVars
<1> QED BY <1>2, <1>3, <1>4 DEF MessageInv

LEMMA MessageStarts == MessageInit => MessageInv
<1> SUFFICES ASSUME MessageInit PROVE MessageInv
  OBVIOUS
<1>1. WriterInv
  BY MessageAssumption DEF MessageInit, TransferInit, WriterInv
<1>2. PrinterInv
  BY DEF MessageInit, PrinterInit, PrinterInv, Prints, FirstPrinter
<1>3. ParserInv
  BY ParserStarts DEF MessageInit
<1>4. TagInv
  <2>1. Linked(parsed) = {}
    BY DEF MessageInit, ParserInit, Linked, Empty, NoCell
  <2> QED BY <2>1 DEF MessageInit, ParserInit, TagInv, ToSet
<1>5. TransferInv
  BY DEF MessageInit, ParserInit, TransferInit, TransferInv
<1> QED BY <1>1, <1>2, <1>3, <1>4, <1>5 DEF MessageInv

LEMMA MessageStep ==
  ASSUME MessageInv, [MessageNext]_messageVars PROVE MessageInv'
<1>1. CASE UNCHANGED messageVars
  <2>1. UNCHANGED <<writerVars, printerVars, parserVars, transferVars>>
    BY <1>1 DEF messageVars
  <2>2. UNCHANGED message /\ writing' = writing
    BY <2>1 DEF transferVars, writerVars
  <2> QED BY <2>1, <2>2, WriterRests, PrinterRests, ParserRests, TransferRests
          DEF MessageInv
<1> QED BY <1>1, WritingSteps, PrintStep, SendStep, ArriveStep, CreateStep,
           ReadStep DEF MessageNext

\* t is cut out of the text o of a message, from i on; and all but blanks
IsPieceOf(t, o, i, f) ==
  /\ f \in Forms
  /\ Started(o, f) \/ Finished(o, f)
  /\ i \in Nat \ {0} /\ t \in Value /\ Len(t) \in Nat
  /\ i + Len(t) <= Len(o) + 1
  /\ \A k \in 1..Len(t) : t[k] = o[i + k - 1]
HasAll(t, o, i) ==
  i = 1 /\ \A k \in 1..Len(o) : o[k] \notin Blank => k <= Len(t)

LEMMA CutIsWhole ==
  ASSUME NEW t, NEW o, NEW i, NEW f, IsPieceOf(t, o, i, f),
         NEW g \in Forms, Opens(t, <<g>>), Closed(t, <<g>>)
  PROVE  HasAll(t, o, i)
BY PartIsWhole DEF IsPieceOf, HasAll

LEMMA PieceIsRead ==
  ASSUME MessageInv, received # NoMessage, received.outcome = "message"
  PROVE  isWhole
<1>1. /\ parsing # "idle" /\ piece # <<>> /\ charBuffer = UptoNUL(piece)
      /\ Reading(parsed).outcome = "message"
  BY DEF MessageInv, TransferInv, parsedAll
<1> DEFINE f == message.form
<1>11. PICK o \in Texts : \E i, j \in 1..Len(o) + 1 :
         /\ Started(o, f) \/ Finished(o, f)
         /\ text = Append(o, NUL)
         /\ i <= j /\ piece = SubSeq(text, i, j)
  BY <1>1, PieceFacts DEF MessageInv
<1>12. f \in Forms
  BY <1>1, PieceFacts DEF MessageInv
<1> HIDE DEF f
<1>2. PICK i \in 1..Len(o) + 1, j \in 1..Len(o) + 1 :
        /\ f \in Forms
        /\ Started(o, f) \/ Finished(o, f)
        /\ text = Append(o, NUL)
        /\ i <= j /\ piece = SubSeq(text, i, j)
  BY <1>11, <1>12
<1> DEFINE t == UptoNUL(piece)
<1>3. /\ t \in Value /\ Len(t) \in Nat /\ i + Len(t) <= Len(o) + 1
      /\ \A k \in 1..Len(t) : t[k] = o[i + k - 1]
  BY <1>2, PieceOfText
<1>4. UptoNUL(text) = o /\ Len(o) \in Nat
  BY <1>2, TextWithoutNUL
<1>5. PICK e \in Linked(parsed), m \in Node, g \in Forms :
        parsed.parent[m] = e /\ parsed.value[e] = <<g>>
  BY <1>1, ReadingNeeds DEF MessageInv, ParserInv, Hanging
<1>6. Opens(t, <<g>>) /\ Closed(t, <<g>>)
  BY <1>1, <1>5 DEF MessageInv, TagInv
<1> HIDE DEF t
<1>7. i = 1 /\ \A k \in 1..Len(o) : o[k] \notin Blank => k <= Len(t)
  <2>1. IsPieceOf(t, o, i, f)
    BY <1>2, <1>3, <1>4 DEF IsPieceOf
  <2>2. HasAll(t, o, i)
    BY <1>6, <2>1, CutIsWhole
  <2> QED BY <2>2 DEF HasAll
<1>8. t = SubSeq(o, 0 + 1, 0 + Len(t))
  <2>1. /\ SubSeq(o, 1, Len(t)) \in Seq(Symbol)
        /\ Len(SubSeq(o, 1, Len(t))) = Len(t)
        /\ \A k \in 1..Len(t) : SubSeq(o, 1, Len(t))[k] = t[k]
    <3> DEFINE z == Len(t)
    <3>1. z \in Nat /\ z <= Len(o) /\ o \in Seq(Symbol)
      <4>1. o \in Seq(Symbol)
        BY SeqMonotonic DEF Texts
      <4> QED BY <1>3, <1>4, <1>7, <4>1
    <3>2. \A k \in 1..z : o[k] \in Symbol /\ t[k] = o[k]
      BY <1>3, <1>4, <1>7, <3>1, ElementOfSeq
    <3> HIDE DEF z
    <3>3. z - 1 + 1 = z
      BY <3>1
    <3>4. /\ SubSeq(o, 1, z) \in Seq(Symbol) /\ Len(SubSeq(o, 1, z)) = z
          /\ \A k \in 1..z : SubSeq(o, 1, z)[k] = o[k]
      BY <1>4, <3>1, <3>2, <3>3, SubSeqProperties
    <3> QED BY <3>2, <3>4 DEF z
  <2>2. 0 + Len(t) = Len(t)
    BY <1>3
  <2> QED BY <1>3, <2>1, <2>2, SeqEqual DEF Value
<1>9. \A k \in DOMAIN o : o[k] \notin Blank => k \in 0 + 1..0 + Len(t)
  <2>1. DOMAIN o = 1..Len(o)
    BY LenProperties DEF Texts
  <2> QED BY <1>3, <1>4, <1>7, <2>1
<1>10. 0 \in 0..Len(o) - Len(t)
  BY <1>3, <1>4, <1>7
<1> QED BY <1>4, <1>8, <1>9, <1>10 DEF isWhole, t

(* Whatever is sent, and wherever the connection cuts its text: a piece that *)
(* is read is never taken for a message, because it lacks the tag that opens *)
(* the element of the message or the one that closes it, and nothing that is *)
(* printed between the two looks like either.                                *)
THEOREM PieceIsNeverAMessage == MessageSpec => []PieceIsNoMessage
<1>1. MessageInit => MessageInv
  BY MessageStarts
<1>2. MessageInv /\ [MessageNext]_messageVars => MessageInv'
  BY MessageStep
<1>3. MessageInv => PieceIsNoMessage
  BY PieceIsRead DEF PieceIsNoMessage
<1> QED BY <1>1, <1>2, <1>3, PTL DEF MessageSpec

(* Whatever a node receives of a message: the parser leaves nothing behind.  *)
THEOREM ReaderLeavesNothing == MessageSpec => []ParseLeavesNothing
<1>1. MessageInit => MessageInv
  BY MessageStarts
<1>2. MessageInv /\ [MessageNext]_messageVars => MessageInv'
  BY MessageStep
<1>3. MessageInv => ParseLeavesNothing
  BY NothingIsLeft DEF MessageInv
<1> QED BY <1>1, <1>2, <1>3, PTL DEF MessageSpec

-----------------------------------------------------------------------------
(* What the parser finds at a place where it is known what the text is      *)

Words == Forms \cup fieldNames \cup {"Time", "Number", "NodeID"}

LEMMA WordsAreNames ==
  ASSUME NEW c \in Words
  PROVE  c \in Symbol /\ c \notin Markup /\ c \notin Digits /\ c \notin Blank
         /\ c \notin {"<", ">", "/", "=", "\"", "!", "?"}
<1>1. c \in Symbol \ Digits
  BY NameAssumption DEF Words
<1>2. c \notin {"\"", "&", "'", "<", ">", "/", "=", "!", "?", "--", "[CDATA[",
                "]]", "&quot;", "&amp;", "&apos;", "&lt;", "&gt;", "NUL"}
                \cup Blank
  BY DEF Words, Forms, fieldNames, Blank, LineEnd
<1>3. /\ DOMAIN entities = {"\"", "&", "'", "<", ">"}
      /\ \A e \in DOMAIN entities : entities[e] \in
           {"&quot;", "&amp;", "&apos;", "&lt;", "&gt;"}
  BY DEF entities
<1>4. c \notin Markup
  BY <1>2, <1>3 DEF Markup, NUL
<1> QED BY <1>1, <1>2, <1>4

Quote == "\""

LEMMA Marks ==
  /\ "<" \in Markup /\ ">" \in Markup /\ "/" \in Markup /\ "=" \in Markup
  /\ "<" \notin Blank /\ ">" \notin Blank /\ "/" \notin Blank /\ "=" \notin Blank
  /\ Quote \in Markup /\ Quote \notin Blank /\ Blank \subseteq Markup
<1>1. "\"" \in DOMAIN entities /\ "<" \in DOMAIN entities /\ ">" \in DOMAIN entities
  BY DEF entities
<1>2. Quote \notin Blank
  BY BlankSymbols DEF Quote
<1> QED BY <1>1, <1>2, BlankSymbols DEF Markup, Quote

LEMMA SkipTo ==
  ASSUME NEW t \in Value, NEW p \in Nat \ {0}, NEW q \in Nat, p <= q,
         q <= Len(t), NEW C, \A i \in p..q - 1 : t[i] \in C, t[q] \notin C
  PROVE  Skip(t, p, C) = q
<1> DEFINE r == Skip(t, p, C)
<1>0. Len(t) \in Nat
  BY LenProperties DEF Value
<1>1. /\ r \in Nat /\ r >= p
      /\ \A i \in p..r - 1 : i \in 1..Len(t) /\ t[i] \in C
      /\ r <= Len(t) => t[r] \notin C
  BY SkipGoesOn
<1> HIDE DEF r
<1>2. ~(r < q)
  <2>1. r < q => r \in p..q - 1 /\ r <= Len(t)
    BY <1>0, <1>1
  <2> QED BY <1>1, <2>1
<1>3. ~(q < r)
  <2>1. q < r => q \in p..r - 1
    BY <1>1
  <2> QED BY <1>1, <2>1
<1> QED BY <1>1, <1>2, <1>3 DEF r

LEMMA NoBlankAt ==
  ASSUME NEW t \in Value, NEW p \in Nat \ {0}, p <= Len(t), t[p] \notin Blank
  PROVE  SkipWhiteSpace(t, p) = p
<1>1. p \in Nat /\ p <= p /\ \A i \in p..p - 1 : t[i] \in Blank
  OBVIOUS
<1> QED BY <1>1, SkipTo DEF SkipWhiteSpace

LEMMA OneSymbol ==
  ASSUME NEW t \in Value, NEW p \in 1..Len(t) PROVE SubSeq(t, p, p) = <<t[p]>>
<1>0. Len(t) \in Nat /\ t \in Seq(Symbol)
  BY LenProperties DEF Value
<1>1. t[p] \in Symbol
  BY <1>0, ElementOfSeq
<1>2. /\ SubSeq(t, p, p) \in Seq(Symbol) /\ Len(SubSeq(t, p, p)) = 1
      /\ SubSeq(t, p, p)[1] = t[p]
  <2>1. \A i \in p..p : t[i] \in Symbol
    BY <1>1
  <2> QED BY <1>0, <2>1, SubSeqProperties
<1>3. ASSUME NEW c \in Symbol
      PROVE  <<c>> \in Seq(Symbol) /\ Len(<<c>>) = 1 /\ <<c>>[1] = c
  OBVIOUS
<1>4. PICK c \in Symbol : c = t[p]
  BY <1>1
<1>5. SubSeq(t, p, p) = <<c>>
  <2>1. \A i \in 1..1 : SubSeq(t, p, p)[i] = <<c>>[i]
    BY <1>2, <1>3, <1>4
  <2>2. PICK u, v : u = SubSeq(t, p, p) /\ v = <<c>>
    OBVIOUS
  <2>3. /\ u \in Seq(Symbol) /\ v \in Seq(Symbol) /\ Len(u) = Len(v)
        /\ \A i \in 1..Len(u) : u[i] = v[i]
    BY <1>2, <1>3, <2>1, <2>2
  <2>4. u = v
    BY ONLY <2>3, SeqEqual
  <2> QED BY <2>2, <2>4
<1> QED BY <1>4, <1>5

LEMMA NameAt ==
  ASSUME NEW t \in Value, NEW p \in Nat \ {0}, p + 1 <= Len(t),
         t[p] \in Words, t[p + 1] \in Markup
  PROVE  ParseName(t, p) = p + 1
<1> DEFINE C == {c \in ToSet(t) : IsNameChar(c)}
<1>0. Len(t) \in Nat /\ DOMAIN t = 1..Len(t)
  BY LenProperties DEF Value
<1>1. t[p] \in C
  <2>1. t[p] \in ToSet(t)
    BY <1>0 DEF ToSet
  <2>2. IsNameChar(t[p])
    BY WordsAreNames DEF IsNameChar
  <2> QED BY <2>1, <2>2
<1>2. t[p + 1] \notin C
  BY DEF IsNameChar
<1>3. ParseName(t, p) = Skip(t, p, C)
  <2>1. ~AtEnd(t, p)
    BY <1>0 DEF AtEnd
  <2>2. IsNameStartChar(t[p])
    BY WordsAreNames DEF IsNameStartChar
  <2> QED BY <2>1, <2>2 DEF ParseName
<1> HIDE DEF C
<1>4. \A i \in p..(p + 1) - 1 : i = p
  OBVIOUS
<1> QED BY <1>0, <1>1, <1>2, <1>3, <1>4, SkipTo

LEMMA ElementIsThere ==
  ASSUME NEW t \in Value, NEW p \in Nat \ {0}, NEW q \in Nat, p <= q,
         q + 1 <= Len(t), \A i \in p..q - 1 : t[i] \in Blank, t[q] = "<",
         t[q + 1] \notin {"!", "?"}
  PROVE  Identify(t, p) = [kind |-> "element", p |-> q + 1] /\ ~AtEnd(t, p)
<1> DEFINE F == {i \in DOMAIN Header : Starts(t, q, Header[i].start)}
<1>0. Len(t) \in Nat
  BY LenProperties DEF Value
<1>1. SkipWhiteSpace(t, p) = q
  <2>1. t[q] \notin Blank
    BY Marks
  <2> QED BY <1>0, <2>1, SkipTo DEF SkipWhiteSpace
<1>2. /\ DOMAIN Header = 1..5
      /\ Header[1].start[2] = "?" /\ Header[2].start[2] = "!"
      /\ Header[3].start[2] = "!" /\ Header[4].start[2] = "!"
      /\ \A i \in 1..4 : 2 \in DOMAIN Header[i].start
      /\ Header[5].start = <<"<">> /\ Header[5].kind = "element"
  BY DEF Header
<1>3. \A i \in 1..4 : Header[i].start[2] \in {"!", "?"}
  BY <1>2
<1>4. \A i \in 1..4 : ~Starts(t, q, Header[i].start)
  <2>1. \A s : 2 \in DOMAIN s /\ Starts(t, q, s) => t[q + 1] = s[2]
    BY DEF Starts
  <2> QED BY <1>2, <1>3, <2>1
<1>5. Starts(t, q, <<"<">>)
  BY <1>0 DEF Starts
<1>6. F = {5}
  BY <1>2, <1>4, <1>5
<1>7. Min(F) = 5
  <2>1. Min({5}) \in {5}
    BY LeastOf
  <2> QED BY <1>6, <2>1
<1>8. ~AtEnd(t, q) /\ ~AtEnd(t, p)
  BY <1>0 DEF AtEnd
<1>9. Identify(t, p) = [kind |-> Header[5].kind, p |-> q + Len(Header[5].start)]
  <2> HIDE DEF F
  <2>1. F # {}
    BY <1>6
  <2> QED BY <1>1, <1>7, <1>8, <2>1 DEF Identify, F
<1>10. Len(Header[5].start) = 1
  BY <1>2
<1> QED BY <1>2, <1>8, <1>9, <1>10

LEMMA TextIsThere ==
  ASSUME NEW t \in Value, NEW p \in Nat \ {0}, NEW q \in Nat, p <= q,
         q <= Len(t), \A i \in p..q - 1 : t[i] \in Blank,
         t[q] \notin Blank \cup {"<"}
  PROVE  Identify(t, p) = [kind |-> "text", p |-> p] /\ ~AtEnd(t, p)
<1>0. Len(t) \in Nat
  BY LenProperties DEF Value
<1>1. SkipWhiteSpace(t, p) = q
  BY <1>0, SkipTo DEF SkipWhiteSpace
<1>2. ~AtEnd(t, q) /\ ~AtEnd(t, p)
  BY <1>0 DEF AtEnd
<1>3. \A s : 1 \in DOMAIN s /\ s[1] = "<" => ~Starts(t, q, s)
  BY DEF Starts
<1>4. \A i \in DOMAIN Header : 1 \in DOMAIN Header[i].start
                               /\ Header[i].start[1] = "<"
  BY DEF Header
<1>5. {i \in DOMAIN Header : Starts(t, q, Header[i].start)} = {}
  BY <1>3, <1>4
<1> QED BY <1>1, <1>2, <1>5 DEF Identify

LEMMA FoundAt ==
  ASSUME NEW t \in Value, NEW p \in Nat \ {0}, NEW q \in Nat, p <= q,
         q <= Len(t), NEW c, t[q] = c, \A i \in p..q - 1 : t[i] # c
  PROVE  ParseText(t, p, <<c>>) = q
<1> DEFINE F == {r \in p..Len(t) : Starts(t, r, <<c>>)}
<1>0. Len(t) \in Nat
  BY LenProperties DEF Value
<1>1. \A r \in p..Len(t) : Starts(t, r, <<c>>) <=> t[r] = c
  BY <1>0 DEF Starts
<1>2. F \in SUBSET Nat /\ q \in F
  BY <1>0, <1>1
<1>3. Min(F) \in F /\ \A j \in F : Min(F) <= j
  <2> HIDE DEF F
  <2> QED BY <1>2, LeastOf
<1>4. Min(F) \in p..Len(t) /\ t[Min(F)] = c /\ Min(F) <= q
  BY <1>1, <1>2, <1>3
<1>5. Min(F) = q
  <2> HIDE DEF F
  <2>1. Min(F) \notin p..q - 1
    BY <1>4
  <2> QED BY <1>0, <1>4, <2>1
<1> QED BY <1>2, <1>5 DEF ParseText

LEMMA ContentIsThere ==
  ASSUME NEW t \in Value, NEW p \in Nat \ {0}, NEW q \in Nat, p <= q,
         q < Len(t), t[q] = "<", \A i \in p..q - 1 : t[i] # "<"
  PROVE  /\ ContentAt(t, "text", p).p = q
         /\ ContentAt(t, "text", p).value = GetStr(SubSeq(t, p, q - 1))
<1>0. Len(t) \in Nat
  BY LenProperties DEF Value
<1>1. ParseText(t, p, <<"<">>) = q
  BY <1>0, FoundAt
<1> QED BY <1>0, <1>1 DEF ContentAt

LEMMA DecodedOne ==
  ASSUME NEW c \in Symbol \ Markup PROVE GetStr(<<c>>) = <<c>>
<1>1. \A e \in DOMAIN entities : entities[e] # c
  BY DEF Markup
<1>2. Unescaped(c) = c
  <2>1. c \notin LineEnd
    BY DEF Markup, Blank
  <2> QED BY <1>1, <2>1 DEF Unescaped, AsNewline
<1>3. DOMAIN <<c>> = {1} /\ <<c>>[1] = c
  OBVIOUS
<1> QED BY <1>2, <1>3 DEF GetStr

\* A number as the value of an attribute
NumberedAt(t, p, name, k) ==
  /\ t[p] = name /\ t[p + 1] = "=" /\ t[p + 2] = Quote
  /\ t[p + 3] = ToString(k) /\ t[p + 4] = Quote

LEMMA NumeralFacts ==
  ASSUME NEW k \in Numbers
  PROVE  ToString(k) \in Symbol \ Markup /\ Numeral(k) = <<ToString(k)>>
BY NumeralAssumption, MarkupAssumption DEF Digits, Numeral

LEMMA AttributeIsThere ==
  ASSUME NEW t \in Value, NEW p \in Nat \ {0}, p + 4 <= Len(t),
         NEW name \in Words, NEW k \in Numbers, NumberedAt(t, p, name, k)
  PROVE  AttributeAt(t, p) = [p |-> p + 5, a |-> NumberAttribute(name, k)]
<1>0. Len(t) \in Nat
  BY LenProperties DEF Value
<1>1. /\ {"=", Quote} \subseteq Markup /\ "=" \notin Blank /\ Quote \notin Blank
      /\ ToString(k) # Quote
  BY NumeralFacts, Marks
<1>2. ParseName(t, p) = p + 1
  BY <1>0, <1>1, NameAt DEF NumberedAt
<1>3. SkipWhiteSpace(t, p + 1) = p + 1
  BY <1>0, <1>1, NoBlankAt DEF NumberedAt
<1>4. SkipWhiteSpace(t, (p + 1) + 1) = p + 2
  <2>1. (p + 1) + 1 = p + 2 /\ p + 2 \in Nat \ {0} /\ p + 2 <= Len(t)
    BY <1>0
  <2> QED BY <1>1, <2>1, NoBlankAt DEF NumberedAt
<1>5. Starts(t, p + 1, <<"=">>)
  BY <1>0 DEF Starts, NumberedAt
<1>6. SubSeq(t, p, (p + 1) - 1) = <<name>>
  <2>1. (p + 1) - 1 = p /\ p \in 1..Len(t)
    BY <1>0
  <2> QED BY <2>1, OneSymbol DEF NumberedAt
<1>7. AttributeAt(t, p) = Quoted(t, <<name>>, p + 2)
  BY <1>2, <1>3, <1>4, <1>5, <1>6 DEF AttributeAt
<1>8. ParseText(t, (p + 2) + 1, <<t[p + 2]>>) = p + 4
  <2>1. \A i \in p + 3..(p + 4) - 1 : t[i] # Quote
    BY <1>1 DEF NumberedAt
  <2>2. p + 3 \in Nat \ {0} /\ p + 4 \in Nat /\ p + 3 <= p + 4 /\ t[p + 4] = Quote
        /\ (p + 2) + 1 = p + 3 /\ t[p + 2] = Quote
    BY DEF NumberedAt
  <2>3. ParseText(t, p + 3, <<Quote>>) = p + 4
    BY <2>1, <2>2, FoundAt
  <2> QED BY <2>2, <2>3
<1>9. SubSeq(t, (p + 2) + 1, (p + 4) - 1) = <<ToString(k)>>
  <2>1. (p + 4) - 1 = p + 3 /\ (p + 2) + 1 = p + 3 /\ p + 3 \in 1..Len(t)
    BY <1>0
  <2> QED BY <2>1, OneSymbol DEF NumberedAt
<1>10. ~AtEnd(t, p + 2) /\ t[p + 2] = Quote
  BY <1>0 DEF AtEnd, NumberedAt
<1>11. Quoted(t, <<name>>, p + 2) =
         [p |-> (p + 4) + 1,
          a |-> [name |-> <<name>>, value |-> GetStr(<<ToString(k)>>)]]
  <2>1. (p + 4) # 0
    OBVIOUS
  <2>2. ~(AtEnd(t, p + 2) \/ t[p + 2] \notin {"\"", "'"})
    BY <1>10, Zenon DEF Quote
  <2> QED BY <2>1, <2>2, <1>8, <1>9, Zenon DEF Quoted
<1>12. GetStr(<<ToString(k)>>) = Numeral(k)
  BY NumeralFacts, DecodedOne
<1>13. (p + 4) + 1 = p + 5
  OBVIOUS
<1> QED BY <1>7, <1>11, <1>12, <1>13 DEF NumberAttribute

-----------------------------------------------------------------------------
(* What an operation on a document leaves as it is                          *)

\* P are the nodes of d that are in no list.
Tidy(d, P) == Hanging(d, P) /\ Listed(d)

\* From d to e the nodes of C have changed, or their lists, and nothing else.
SameBut(d, e, C) ==
  /\ \A m \in Node \ C : SameNode(d, e, m)
  /\ \A q \in Parent \ C : ListOf(e, q) = ListOf(d, q)
  /\ Linked(d) \subseteq Linked(e)

\* n is an element with the nodes of s below it.
Elem(d, n, name, attributes, s) ==
  /\ n \in Node /\ d.kind[n] = "element" /\ d.value[n] = <<name>>
  /\ d.attributes[n] = attributes /\ ListOf(d, n) = s

Cells(d, k) == k \in Nat /\ Cardinality(Node \ Allocated(d)) >= k

LEMMA TidyFacts ==
  ASSUME NEW d, NEW P, Tidy(d, P)
  PROVE  /\ Sound(d) /\ Counted(d) /\ Listed(d) /\ Hanging(d, P)
         /\ P \subseteq Allocated(d) /\ Linked(d) = Allocated(d) \ P
         /\ Linked(d) \subseteq Node /\ P \subseteq Node
         /\ P \cap Linked(d) = {} /\ Allocated(d) = Linked(d) \cup P
BY DEF Tidy, Hanging, Allocated, Linked

LEMMA SameTwice ==
  ASSUME NEW d, NEW e, NEW f, NEW C, NEW D, SameBut(d, e, C), SameBut(e, f, D)
  PROVE  SameBut(d, f, C \cup D)
BY DEF SameBut, SameNode

LEMMA EmptyList ==
  ASSUME NEW d, Listed(d), NEW p \in Parent, \A m \in Node : d.parent[m] # p
  PROVE  ListOf(d, p) = <<>>
<1>1. IsList(d, p, ListOf(d, p))
  BY DEF Listed
<1>2. /\ ListOf(d, p) \in Seq(Node) /\ Len(ListOf(d, p)) \in Nat
      /\ \A i \in 1..Len(ListOf(d, p)) :
           ListOf(d, p)[i] \in Node /\ d.parent[ListOf(d, p)[i]] = p
  BY <1>1, ListFacts
<1>3. Len(ListOf(d, p)) = 0
  BY <1>2
<1> QED BY <1>2, <1>3, EmptySeq

\* A new node n, in no list and with none
MadeNode(d, e, P, n, k, v) ==
  /\ Tidy(e, P \cup {n}) /\ n \in Node \ Allocated(d) /\ n \notin P
  /\ SameBut(d, e, {n})
  /\ Linked(e) = Linked(d) /\ Allocated(e) = Allocated(d) \cup {n}
  /\ e.kind[n] = k /\ e.value[n] = v /\ e.attributes[n] = <<>>
  /\ ListOf(e, n) = <<>> /\ ListOf(e, Document) = ListOf(d, Document)

LEMMA NodeIsMade ==
  ASSUME NEW d, NEW P, Tidy(d, P), Allocated(d) # Node, NEW k \in Kind,
         NEW v \in Value
  PROVE  MadeNode(d, New(d, k, v), P, Fresh(d), k, v)
<1> DEFINE n == Fresh(d)
           e == New(d, k, v)
<1>1. Sound(d) /\ Counted(d) /\ Listed(d) /\ Hanging(d, P)
  BY DEF Tidy, Hanging
<1>2. Began(d, e, P, n, k, v)
  BY <1>1, NewHangs
<1>3. Listed(e) /\ \A p : ListOf(e, p) = ListOf(d, p)
  BY <1>1, NewFills
<1>4. /\ n \in Node /\ n \notin Allocated(d) /\ Linked(e) = Linked(d)
      /\ Allocated(e) = Allocated(d) \cup {n}
  BY <1>1, NewFields
<1> HIDE DEF n, e
<1>5. SameBut(d, e, {n})
  BY <1>2, <1>3, <1>4 DEF Began, SameBut, SameNode
<1>6. ListOf(e, n) = <<>>
  <2>1. \A m \in Node : e.parent[m] # n
    BY <1>2 DEF Began
  <2> QED BY <1>3, <1>4, <2>1, EmptyList DEF Parent
<1>7. /\ Tidy(e, P \cup {n}) /\ n \notin P
      /\ e.kind[n] = k /\ e.value[n] = v /\ e.attributes[n] = <<>>
  BY <1>2, <1>3, <1>4 DEF Began, Tidy
<1> QED BY <1>3, <1>4, <1>5, <1>6, <1>7 DEF MadeNode, n, e

LEMMA ElementIsMade ==
  ASSUME NEW d, NEW P, Tidy(d, P), Allocated(d) # Node, NEW name \in Symbol
  PROVE  LET e == NewElement(d, name)
         IN /\ MadeNode(d, e, P, Fresh(d), "element", <<name>>)
            /\ Elem(e, Fresh(d), name, <<>>, <<>>)
<1>1. "element" \in Kind /\ <<name>> \in Value
  BY DEF Kind, Value
<1>2. MadeNode(d, NewElement(d, name), P, Fresh(d), "element", <<name>>)
  BY <1>1, NodeIsMade DEF NewElement
<1> QED BY <1>2 DEF MadeNode, Elem

\* The first attribute of n
GotAttribute(d, e, P, n, a) ==
  /\ Tidy(e, P) /\ SameBut(d, e, {n})
  /\ Linked(e) = Linked(d) /\ Allocated(e) = Allocated(d)
  /\ e.kind[n] = d.kind[n] /\ e.value[n] = d.value[n]
  /\ e.attributes[n] = <<a>> /\ ListOf(e, n) = ListOf(d, n)
  /\ ListOf(e, Document) = ListOf(d, Document)
  /\ FindAttribute(d, n, a.name) = 0

LEMMA AttributeIsSet ==
  ASSUME NEW d, NEW P, Tidy(d, P), NEW n \in Allocated(d),
         d.attributes[n] = <<>>, NEW a \in Attribute
  PROVE  GotAttribute(d, SetAttribute(d, n, a), P, n, a)
<1> DEFINE e == SetAttribute(d, n, a)
<1>1. Sound(d) /\ Counted(d) /\ Listed(d) /\ Hanging(d, P) /\ n \in Node
  BY DEF Tidy, Hanging, Allocated
<1>2. FindAttribute(d, n, a.name) = 0
  <2>1. DOMAIN d.attributes[n] = {}
    OBVIOUS
  <2>2. {i \in DOMAIN d.attributes[n] : d.attributes[n][i].name = a.name} = {}
    BY <2>1
  <2> QED BY <2>2 DEF FindAttribute
<1>3. SamePointers(d, e)
  BY <1>1, DataKeepsPointers
<1>4. Listed(e) /\ \A p : ListOf(e, p) = ListOf(d, p)
  <2>1. e.parent = d.parent /\ e.firstChild = d.firstChild /\ e.next = d.next
    BY <1>3 DEF SamePointers
  <2> HIDE DEF e
  <2> QED BY <1>1, <2>1, SamePointersListed
<1>5. Hanging(e, P)
  BY <1>1, AttributeHangs
<1>6. d.attributes \in [Node -> Seq(Attribute)] /\ DOMAIN d = Fields
  BY <1>1 DEF Sound, Counted, CountedBut
<1>7. /\ e.attributes = [d.attributes EXCEPT ![n] = Append(@, a)]
      /\ e.kind = d.kind /\ e.value = d.value
  BY <1>2, <1>6 DEF SetAttribute, Fields
<1>8. Append(d.attributes[n], a) = <<a>>
  OBVIOUS
<1> HIDE DEF e
<1>9. /\ e.attributes[n] = <<a>>
      /\ \A m \in Node \ {n} : e.attributes[m] = d.attributes[m]
  BY <1>1, <1>6, <1>7, <1>8
<1>10. Linked(e) = Linked(d) /\ Allocated(e) = Allocated(d)
  BY <1>3, <1>7 DEF SamePointers, Linked, Allocated
<1>11. SameBut(d, e, {n})
  BY <1>4, <1>7, <1>9, <1>10 DEF SameBut, SameNode
<1>12. GotAttribute(d, e, P, n, a)
  BY <1>2, <1>4, <1>5, <1>7, <1>9, <1>10, <1>11 DEF GotAttribute, Tidy
<1> QED BY <1>12 DEF e

\* x, which was in no list, is the last of p.
Inserted(d, e, P, p, x) ==
  /\ Tidy(e, P \ {x}) /\ SameBut(d, e, {p})
  /\ Linked(e) = Linked(d) \cup {x} /\ Allocated(e) = Allocated(d)
  /\ \A m \in Node : SameNode(d, e, m)
  /\ ListOf(e, p) = Append(ListOf(d, p), x)

LEMMA InsertIsDone ==
  ASSUME NEW d, NEW P, Tidy(d, P), NEW x \in P,
         NEW p \in {Document} \cup (P \ {x}), p \in {Document} \cup Elements(d)
  PROVE  Inserted(d, InsertEndChild(d, p, x), P, p, x)
<1> DEFINE c == SetTracked(d, x)
           last == d.lastChild[p]
           e == InsertEndChild(d, p, x)
           s == ListOf(d, p)
<1>1. /\ Sound(d) /\ Counted(d) /\ Listed(d) /\ Hanging(d, P)
      /\ x \in Node /\ x \in Allocated(d) \ Linked(d) /\ d.parent[x] = Null
      /\ p \in Parent /\ p # Null /\ PointersOK(d)
  BY NullIsNoNode, TidyFacts DEF Linked, Elements, Parent, Sound
<1>2. /\ e.kind = d.kind /\ e.value = d.value /\ e.attributes = d.attributes
      /\ e.parent = [d.parent EXCEPT ![x] = p] /\ e.next[x] = Null
      /\ Allocated(e) = Allocated(d) /\ Linked(e) = Linked(d) \cup {x}
  BY <1>1, InsertFields
<1>3. /\ e.firstChild = [d.firstChild EXCEPT
           ![p] = IF last = Null THEN x ELSE d.firstChild[p]]
      /\ e.next = [n \in Node |-> CASE n = x -> Null [] n = last -> x
                                    [] OTHER -> d.next[n]]
  <2>1. /\ DOMAIN c = Fields /\ c.firstChild = d.firstChild
        /\ c.lastChild = d.lastChild /\ c.next = d.next
    BY <1>1 DEF Sound, SetTracked, Fields
  <2>2. e = Linking(c, p, last, x, Null)
    BY <1>1, <2>1 DEF InsertEndChild, InsertChildPreamble
  <2> HIDE DEF c, e
  <2> QED BY <2>1, <2>2 DEF Linking, Fields
<1>4. Hanging(e, P \ {x})
  BY <1>1, InsertHangs
<1> HIDE DEF c, e, s
<1>5. IsList(d, p, s)
  BY <1>1 DEF Listed, s
<1>6. last # x /\ (last # Null => last \in Node /\ d.parent[last] = p)
  BY <1>1, NullIsNoNode DEF Sound, PointersOK, IsWellLinked
<1>7. /\ last = Null <=> Len(s) = 0
      /\ Len(s) # 0 => s[Len(s)] = last
  <2>1. PICK k \in 0..Len(s) : /\ last = Null <=> k = 0
                               /\ k # 0 => s[k] = last
                               /\ Null = IF k = Len(s) THEN Null ELSE s[k + 1]
    <3>1. Adjacent(d, p, last, Null)
      BY <1>1, EndsAdjacent
    <3> QED BY <1>5, <3>1, AdjacentPlace
  <2>2. Len(s) \in Nat /\ \A i \in 1..Len(s) : s[i] \in Node
    BY <1>5, ListFacts
  <2>3. k = Len(s)
    BY <2>1, <2>2, NullIsNoNode
  <2> QED BY <2>1, <2>3
<1>8. PICK t : IsList(e, p, t) /\ Without(t, s, Len(s) + 1) /\ t[Len(s) + 1] = x
  <2>0. Len(s) \in Nat /\ Len(s) \in 0..Len(s) /\ x \in Node
        /\ \A i \in 1..Len(s) : s[i] \in Node
    BY <1>1, <1>5, ListFacts
  <2>1. DOMAIN d.parent = Node /\ d.parent[x] # p
    BY <1>1 DEF PointersOK
  <2>2. e.firstChild[p] = IF Len(s) = 0 THEN x ELSE d.firstChild[p]
    BY <1>1, <1>3, <1>7 DEF PointersOK
  <2>3. e.next[x] = IF Len(s) = Len(s) THEN Null ELSE s[Len(s) + 1]
    BY <1>2
  <2>4. \A n \in Node \ {x} :
          e.next[n] = IF Len(s) # 0 /\ n = s[Len(s)] THEN x ELSE d.next[n]
    <3> SUFFICES ASSUME NEW n \in Node \ {x}
                 PROVE  e.next[n] = IF Len(s) # 0 /\ n = s[Len(s)] THEN x
                                    ELSE d.next[n]
      OBVIOUS
    <3>1. e.next[n] = IF n = last THEN x ELSE d.next[n]
      BY <1>3
    <3>2. n = last <=> Len(s) # 0 /\ n = s[Len(s)]
      BY <1>7, NullIsNoNode
    <3> QED BY <3>1, <3>2
  <2>5. e.parent = [d.parent EXCEPT ![x] = p]
    BY <1>2
  <2> QED BY ONLY <1>5, <2>0, <2>1, <2>2, <2>3, <2>4, <2>5, ListWith
<1>9. ASSUME NEW q \in Parent, q # p
      PROVE  IsList(e, q, ListOf(d, q)) /\ ListOf(e, q) = ListOf(d, q)
  <2>1. IsList(d, q, ListOf(d, q)) /\ q # Null
    BY <1>1, NodeAssumption DEF Listed
  <2>2. e.firstChild[q] = d.firstChild[q]
    BY <1>1, <1>3, <1>9 DEF PointersOK
  <2>3. \A n \in Node : e.parent[n] = q <=> d.parent[n] = q
    BY <1>1, <1>2, <1>9, <2>1 DEF PointersOK
  <2>4. ASSUME NEW n \in Node, d.parent[n] = q PROVE e.next[n] = d.next[n]
    <3>1. n # x
      BY <1>1, <2>1, <2>4
    <3>2. n # last
      BY <1>6, <1>9, <2>4, NullIsNoNode
    <3> QED BY <1>3, <3>1, <3>2
  <2> QED BY <2>1, <2>2, <2>3, <2>4, SameList
<1>10. Listed(e)
  BY <1>8, <1>9, ListedBy
<1>11. ListOf(e, p) = Append(s, x)
  <2>1. /\ s \in Seq(Node) /\ t \in Seq(Node) /\ Len(s) \in Nat
        /\ ListOf(e, p) = t
    BY <1>5, <1>8, ListFacts, TheList
  <2>2. /\ Len(t) = Len(s) + 1
        /\ \A i \in 1..Len(s) : s[i] = t[IF i < Len(s) + 1 THEN i ELSE i + 1]
    BY <1>8 DEF Without
  <2>3. \A i \in 1..Len(s) : t[i] = s[i]
    BY <2>1, <2>2
  <2> QED BY <1>8, <2>1, <2>2, <2>3
<1>12. SameBut(d, e, {p}) /\ \A m \in Node : SameNode(d, e, m)
  BY <1>2, <1>9 DEF SameBut, SameNode
<1> QED BY <1>2, <1>4, <1>10, <1>11, <1>12 DEF Inserted, Tidy, e, s

\* x, which was in no list and had none, is gone.
Cleared(d, e, P, x) ==
  /\ Tidy(e, P \ {x}) /\ SameBut(d, e, {x}) /\ Linked(e) = Linked(d)
  /\ ListOf(e, Document) = ListOf(d, Document)

LEMMA NodeIsDropped ==
  ASSUME NEW d, NEW P, Tidy(d, P), NEW x \in P,
         \A m \in Node : d.parent[m] # x
  PROVE  Cleared(d, Dropped(d, x), P, x)
<1> DEFINE c == SetTracked(d, x)
           X == {x}
           e == Freed(c, X)
<1>1. /\ Sound(d) /\ Counted(d) /\ Listed(d) /\ Hanging(d, P)
      /\ x \in Node /\ x \in Allocated(d) \ Linked(d) /\ d.parent[x] = Null
      /\ PointersOK(d)
  BY TidyFacts DEF Linked, Sound
<1>2. /\ e.parent = d.parent /\ Linked(e) = Linked(d)
  BY <1>1, DropFields DEF Dropped
<1>3. Hanging(e, P \ {x})
  BY <1>1, DropHangs DEF Dropped
<1>4. SamePointers(d, c) /\ c.value = d.value /\ c.attributes = d.attributes
  BY <1>1, DataKeepsPointers DEF SetTracked, Sound, Fields
<1> HIDE DEF c
<1>5. /\ e.next = [m \in Node |-> IF m \in X THEN Null ELSE d.next[m]]
      /\ e.firstChild =
           [m \in Parent |-> IF m \in X THEN Null ELSE d.firstChild[m]]
      /\ e.kind = [m \in Node |-> IF m \in X THEN "free" ELSE d.kind[m]]
      /\ e.value = [m \in Node |-> IF m \in X THEN Null ELSE d.value[m]]
      /\ e.attributes = [m \in Node |-> IF m \in X THEN <<>>
                                        ELSE d.attributes[m]]
  <2>1. d.value \in [Node -> Value \cup {Null}]
        /\ d.attributes \in [Node -> Seq(Attribute)]
    BY <1>1 DEF Counted, CountedBut
  <2> HIDE DEF X
  <2> QED BY <1>1, <1>4, <2>1 DEF Freed, SamePointers, PointersOK, Fields
<1> HIDE DEF e
<1>6. ASSUME NEW q \in Parent, q # x
      PROVE  IsList(e, q, ListOf(d, q)) /\ ListOf(e, q) = ListOf(d, q)
  <2>1. IsList(d, q, ListOf(d, q)) /\ q # Null
    BY <1>1, NodeAssumption DEF Listed
  <2>2. e.firstChild[q] = d.firstChild[q]
    BY <1>5, <1>6
  <2>3. ASSUME NEW n \in Node, d.parent[n] = q PROVE e.next[n] = d.next[n]
    BY <1>1, <1>5, <2>1, <2>3
  <2> QED BY <1>2, <2>1, <2>2, <2>3, SameList
<1>7. IsList(e, x, <<>>)
  <2>1. e.firstChild[x] = Null
    BY <1>1, <1>5 DEF Parent
  <2> QED BY <1>1, <1>2, <2>1 DEF IsList
<1>8. Listed(e)
  BY <1>6, <1>7, ListedBy
<1>9. SameBut(d, e, {x})
  BY <1>2, <1>5, <1>6 DEF SameBut, SameNode
<1>10. ListOf(e, Document) = ListOf(d, Document)
  BY <1>1, <1>6, NullIsNoNode DEF Parent
<1> QED BY <1>2, <1>3, <1>8, <1>9, <1>10 DEF Cleared, Tidy, Dropped, e, c

-----------------------------------------------------------------------------
(* The elements of a message, as they are made                              *)

\* x has the text v and nothing else below it; with Null it has nothing.
Holds(d, x, v) ==
  IF v = Null THEN ListOf(d, x) = <<>>
  ELSE \E y \in Linked(d) : /\ ListOf(d, x) = <<y>>
                            /\ d.kind[y] = "text" /\ d.value[y] = v
Full(d, x, name, attributes, v) ==
  Elem(d, x, name, attributes, ListOf(d, x)) /\ Holds(d, x, v)
Leaf(d, x, name, attributes, v) ==
  x \in Linked(d) /\ Full(d, x, name, attributes, v)

LEMMA LeafStays ==
  ASSUME NEW d, NEW e, NEW C, SameBut(d, e, C), C \cap Linked(d) = {},
         NEW x, NEW name, NEW attributes, NEW v
  PROVE  /\ Leaf(d, x, name, attributes, v) => Leaf(e, x, name, attributes, v)
         /\ Full(d, x, name, attributes, v) /\ x \notin C =>
              Full(e, x, name, attributes, v)
<1>1. \A m \in Linked(d) : SameNode(d, e, m) /\ m \in Linked(e) /\ m \in Node
  BY DEF SameBut, Linked
<1>2. ASSUME Full(d, x, name, attributes, v), x \notin C
      PROVE  Full(e, x, name, attributes, v)
  <2>1. SameNode(d, e, x) /\ ListOf(e, x) = ListOf(d, x)
    BY <1>2 DEF SameBut, Full, Elem, Parent
  <2> QED BY <1>1, <1>2, <2>1 DEF Full, Elem, Holds, SameNode
<1> QED BY <1>1, <1>2 DEF Leaf

LEMMA NoneBelow ==
  ASSUME NEW d, Listed(d), NEW x \in Parent, ListOf(d, x) = <<>>
  PROVE  \A m \in Node : d.parent[m] # x
<1>1. IsList(d, x, <<>>)
  BY DEF Listed
<1> QED BY <1>1 DEF IsList

\* x gets a text below it.
GotText(d, e, P, x, v) ==
  /\ Tidy(e, P) /\ SameBut(d, e, {x, Fresh(d)}) /\ Fresh(d) \notin Allocated(d)
  /\ Allocated(e) = Allocated(d) \cup {Fresh(d)} /\ Fresh(d) \in Node
  /\ SameNode(d, e, x) /\ Holds(e, x, v)
  /\ ListOf(e, Document) = ListOf(d, Document)

LEMMA TextIsPut ==
  ASSUME NEW d, NEW P, Tidy(d, P), Allocated(d) # Node, NEW v \in Value,
         NEW x \in P, d.kind[x] = "element", ListOf(d, x) = <<>>
  PROVE  /\ GotText(d, InsertEndChild(New(d, "text", v), x, Fresh(d)), P, x, v)
         /\ GotText(d, SetText(d, x, v), P, x, v)
<1> DEFINE y == Fresh(d)
           c == New(d, "text", v)
           e == InsertEndChild(c, x, y)
<1>1. /\ Sound(d) /\ Listed(d) /\ x \in Node /\ x \in Parent /\ x # Document
      /\ x \in Allocated(d) /\ x \notin Linked(d) /\ "text" \in Kind
      /\ Linked(d) \subseteq Node
  BY TidyFacts, NullIsNoNode DEF Parent, Kind
<1>2. SetText(d, x, v) = e
  BY <1>1, NoneBelow, SetTextInserts
<1>3. MadeNode(d, c, P, y, "text", v)
  BY <1>1, NodeIsMade
<1> HIDE DEF c, y
<1>4. /\ Tidy(c, P \cup {y}) /\ y \in Node \ Allocated(d) /\ y \notin P
      /\ SameBut(d, c, {y}) /\ Allocated(c) = Allocated(d) \cup {y}
      /\ Linked(c) = Linked(d)
      /\ c.kind[y] = "text" /\ c.value[y] = v
      /\ ListOf(c, Document) = ListOf(d, Document)
  BY <1>3 DEF MadeNode
<1>5. SameNode(d, c, x) /\ ListOf(c, x) = <<>> /\ x # y
  BY <1>1, <1>4 DEF SameBut
<1>6. Inserted(c, e, P \cup {y}, x, y)
  <2>1. x \in {Document} \cup Elements(c)
    BY <1>1, <1>5 DEF SameNode, Elements
  <2>2. x \in {Document} \cup ((P \cup {y}) \ {y}) /\ y \in P \cup {y}
    BY <1>4
  <2> QED BY <1>4, <2>1, <2>2, InsertIsDone
<1> HIDE DEF e
<1>7. (P \cup {y}) \ {y} = P
  BY <1>4
<1>8. /\ Tidy(e, P) /\ SameBut(c, e, {x}) /\ Linked(e) = Linked(c) \cup {y}
      /\ Allocated(e) = Allocated(c) /\ \A m \in Node : SameNode(c, e, m)
      /\ ListOf(e, x) = Append(ListOf(c, x), y)
  BY <1>6, <1>7 DEF Inserted
<1>9. SameBut(d, e, {x, y})
  <2>1. SameBut(d, e, {y} \cup {x})
    BY <1>4, <1>8, SameTwice
  <2>2. {y} \cup {x} = {x, y}
    OBVIOUS
  <2> QED BY <2>1, <2>2
<1>10. SameNode(d, e, x)
  BY <1>1, <1>5, <1>8 DEF SameNode
<1>11. Holds(e, x, v)
  <2>1. ListOf(e, x) = <<y>> /\ y \in Linked(e)
    BY <1>5, <1>8
  <2>2. e.kind[y] = "text" /\ e.value[y] = v
    BY <1>4, <1>8 DEF SameNode
  <2>3. v # Null => Holds(e, x, v)
    BY <2>1, <2>2 DEF Holds
  <2>4. v # Null
    BY ValueAssumption
  <2> QED BY <2>3, <2>4
<1>12. ListOf(e, Document) = ListOf(d, Document)
  BY <1>1, <1>4, <1>8 DEF SameBut, Parent
<1>13. GotText(d, e, P, x, v)
  BY <1>4, <1>8, <1>9, <1>10, <1>11, <1>12 DEF GotText, y
<1> QED BY <1>2, <1>13 DEF e, c, y

\* A new element, which is full already, is the last of p.
GotLeaf(d, e, P, p, x, name, attributes, v) ==
  /\ Tidy(e, P) /\ x \in Node \ Allocated(d)
  /\ \E C : C \cap Allocated(d) = {} /\ Document \notin C
            /\ SameBut(d, e, C \cup {p})
  /\ SameNode(d, e, p) /\ ListOf(e, p) = Append(ListOf(d, p), x)
  /\ Leaf(e, x, name, attributes, v)
  /\ ListOf(e, Document) = ListOf(d, Document)

\* c is d with the new element x, which has no text yet.
LEMMA LeafIsPut ==
  ASSUME NEW d, NEW P, Tidy(d, P), NEW k \in Nat, Cells(d, k + 2),
         NEW p \in P, d.kind[p] = "element",
         NEW c, NEW x, NEW name, NEW attributes, NEW v \in Value,
         Tidy(c, P \cup {x}), x \in Node \ Allocated(d), x \notin P,
         SameBut(d, c, {x}), Linked(c) = Linked(d),
         Allocated(c) = Allocated(d) \cup {x},
         Elem(c, x, name, attributes, <<>>),
         ListOf(c, Document) = ListOf(d, Document)
  PROVE  LET e == InsertEndChild(SetText(c, x, v), p, x)
         IN GotLeaf(d, e, P, p, x, name, attributes, v) /\ Cells(e, k)
<1> DEFINE f == SetText(c, x, v)
           e == InsertEndChild(f, p, x)
           y == Fresh(c)
<1>1. /\ p \in Node /\ p \in Parent /\ p # Document /\ p # x
      /\ p \in Allocated(d) /\ p \notin Linked(d) /\ Document # x
      /\ x \in Parent
  BY TidyFacts, NullIsNoNode DEF Parent
<1>2. Cells(c, k + 1)
  BY OneCellLess DEF Cells
<1>3. Allocated(c) # Node
  BY <1>2, CellIsLeft DEF Cells
<1>4. c.kind[x] = "element" /\ ListOf(c, x) = <<>> /\ x \in P \cup {x}
  BY DEF Elem
<1>5. GotText(c, f, P \cup {x}, x, v)
  BY <1>3, <1>4, TextIsPut
<1> HIDE DEF f, y
<1>6. /\ Tidy(f, P \cup {x}) /\ SameBut(c, f, {x, y}) /\ y \notin Allocated(c)
      /\ Allocated(f) = Allocated(c) \cup {y} /\ y \in Node
      /\ SameNode(c, f, x) /\ Holds(f, x, v)
      /\ ListOf(f, Document) = ListOf(c, Document)
  BY <1>5 DEF GotText, y
<1>7. Cells(f, k)
  BY <1>2, <1>6, OneCellLess DEF Cells
<1>8. /\ SameNode(d, c, p) /\ ListOf(c, p) = ListOf(d, p)
      /\ SameNode(c, f, p) /\ ListOf(f, p) = ListOf(c, p)
  BY <1>1, <1>6 DEF SameBut
<1>9. Inserted(f, e, P \cup {x}, p, x)
  <2>1. p \in {Document} \cup Elements(f)
    BY <1>1, <1>8 DEF SameNode, Elements
  <2>2. p \in {Document} \cup ((P \cup {x}) \ {x}) /\ x \in P \cup {x}
    BY <1>1
  <2> QED BY <1>6, <2>1, <2>2, InsertIsDone
<1> HIDE DEF e
<1>10. (P \cup {x}) \ {x} = P
  OBVIOUS
<1>11. /\ Tidy(e, P) /\ SameBut(f, e, {p}) /\ Linked(e) = Linked(f) \cup {x}
       /\ Allocated(e) = Allocated(f) /\ \A m \in Node : SameNode(f, e, m)
       /\ ListOf(e, p) = Append(ListOf(f, p), x)
  BY <1>9, <1>10 DEF Inserted
<1>12. Leaf(e, x, name, attributes, v)
  <2>1. Full(f, x, name, attributes, v)
    BY <1>6 DEF Full, Elem, SameNode
  <2>2. Linked(f) \cap {p} = {}
    <3>1. p \notin Linked(f)
      BY <1>1, <1>6, TidyFacts
    <3> QED BY <3>1
  <2>3. Full(e, x, name, attributes, v)
    BY <1>1, <1>11, <2>1, <2>2, LeafStays
  <2> QED BY <1>11, <2>3 DEF Leaf
<1>13. \E C : C \cap Allocated(d) = {} /\ Document \notin C
              /\ SameBut(d, e, C \cup {p})
  <2>1. SameBut(d, e, ({x} \cup {x, y}) \cup {p})
    BY <1>6, <1>11, SameTwice
  <2>2. ({x} \cup {x, y}) \cap Allocated(d) = {}
    BY <1>6
  <2>3. Document \notin ({x} \cup {x, y})
    BY <1>1, <1>6, NullIsNoNode
  <2> QED BY <2>1, <2>2, <2>3
<1>14. SameNode(d, e, p) /\ ListOf(e, p) = Append(ListOf(d, p), x)
  BY <1>1, <1>8, <1>11 DEF SameNode
<1>15. ListOf(e, Document) = ListOf(d, Document)
  BY <1>1, <1>6, <1>11 DEF SameBut, Parent
<1>16. Cells(e, k)
  BY <1>7, <1>11 DEF Cells
<1> QED BY <1>11, <1>12, <1>13, <1>14, <1>15, <1>16 DEF GotLeaf, e, f

\* The fields of writeHeader and writeContent, and the times of writeTime
LEMMA LeafIsAdded ==
  ASSUME NEW d, NEW P, Tidy(d, P), NEW k \in Nat, Cells(d, k + 2),
         NEW p \in P, d.kind[p] = "element", NEW name \in Symbol,
         NEW v \in Value
  PROVE  LET e == Added(d, p, name, v)
         IN GotLeaf(d, e, P, p, Fresh(d), name, <<>>, v) /\ Cells(e, k)
<1>1. Cells(d, (k + 1) + 1)
  BY DEF Cells
<1>2. Allocated(d) # Node
  BY <1>1, CellIsLeft DEF Cells
<1>3. /\ MadeNode(d, NewElement(d, name), P, Fresh(d), "element", <<name>>)
      /\ Elem(NewElement(d, name), Fresh(d), name, <<>>, <<>>)
  BY <1>2, ElementIsMade
<1> QED BY <1>3, LeafIsPut DEF Added, MadeNode

LEMMA TimeIsAdded ==
  ASSUME NEW d, NEW P, Tidy(d, P), NEW k \in Nat, Cells(d, k + 2),
         NEW p \in P, d.kind[p] = "element", NEW name \in Symbol,
         NEW a \in Attribute, NEW v \in Value
  PROVE  LET x == Fresh(d)
             made == SetAttribute(NewElement(d, name), x, a)
             e == InsertEndChild(SetText(made, x, v), p, x)
         IN GotLeaf(d, e, P, p, x, name, <<a>>, v) /\ Cells(e, k)
<1> DEFINE x == Fresh(d)
           b == NewElement(d, name)
           c == SetAttribute(b, x, a)
<1>1. Cells(d, (k + 1) + 1)
  BY DEF Cells
<1>2. Allocated(d) # Node
  BY <1>1, CellIsLeft DEF Cells
<1>3. /\ MadeNode(d, b, P, x, "element", <<name>>)
      /\ Elem(b, x, name, <<>>, <<>>)
  BY <1>2, ElementIsMade
<1> HIDE DEF b, x
<1>4. /\ Tidy(b, P \cup {x}) /\ x \in Node \ Allocated(d) /\ x \notin P
      /\ SameBut(d, b, {x}) /\ Linked(b) = Linked(d)
      /\ Allocated(b) = Allocated(d) \cup {x}
      /\ ListOf(b, Document) = ListOf(d, Document)
  BY <1>3 DEF MadeNode
<1>5. GotAttribute(b, c, P \cup {x}, x, a)
  BY <1>3, <1>4, AttributeIsSet DEF Elem
<1> HIDE DEF c
<1>6. /\ Tidy(c, P \cup {x}) /\ SameBut(b, c, {x}) /\ Linked(c) = Linked(d)
      /\ Allocated(c) = Allocated(d) \cup {x}
      /\ ListOf(c, Document) = ListOf(d, Document)
      /\ Elem(c, x, name, <<a>>, <<>>)
  BY <1>3, <1>4, <1>5 DEF GotAttribute, Elem
<1>7. SameBut(d, c, {x})
  BY <1>4, <1>6, SameTwice
<1>8. LET e == InsertEndChild(SetText(c, x, v), p, x)
      IN GotLeaf(d, e, P, p, x, name, <<a>>, v) /\ Cells(e, k)
  BY <1>4, <1>6, <1>7, LeafIsPut
<1> QED BY <1>8 DEF c, b, x

-----------------------------------------------------------------------------
(* The tree of a message                                                    *)

FieldNames == <<"Type", "SourceID", "DestinationID">>
FieldNumbers(m) == <<m.type, m.sourceID, m.destinationID>>

\* r is the element of m, with the first k of its fields.
HasFields(d, m, r, k) ==
  /\ Elem(d, r, m.form, <<NumberAttribute("Number", m.number)>>, ListOf(d, r))
  /\ Len(ListOf(d, r)) >= k
  /\ \A i \in 1..k : Leaf(d, ListOf(d, r)[i], FieldNames[i], <<>>,
                          Numeral(FieldNumbers(m)[i]))

\* x has the first j of the times of m, in the order o.
TimeLeaf(d, m, n, id) ==
  Leaf(d, n, "Time", <<NumberAttribute("NodeID", id)>>,
       Numeral(m.vectorTimes[id]))
HasTimes(d, m, o, x, j) ==
  /\ Elem(d, x, "VectorTimes", <<>>, ListOf(d, x))
  /\ Len(ListOf(d, x)) = j
  /\ \A i \in 1..j : TimeLeaf(d, m, ListOf(d, x)[i], o[i])

\* r has its fields and its times, and v for its content.
HasList(d, m, o, r) ==
  /\ HasFields(d, m, r, 3)
  /\ Len(ListOf(d, r)) >= 4
  /\ ListOf(d, r)[4] \in Linked(d)
  /\ HasTimes(d, m, o, ListOf(d, r)[4], Len(o))
HasContent(d, m, o, r, v) ==
  /\ HasList(d, m, o, r)
  /\ Len(ListOf(d, r)) = 5
  /\ Leaf(d, ListOf(d, r)[5], "Content", <<>>, v)
IsTree(d, m, o, r, v) ==
  ListOf(d, Document) = <<r>> /\ HasContent(d, m, o, r, v)

\* The ids of the times, each once
IsOrder(m, o) ==
  /\ o \in Seq(Numbers)
  /\ \A i, j \in 1..Len(o) : o[i] = o[j] => i = j
  /\ DOMAIN m.vectorTimes = {o[i] : i \in 1..Len(o)}

\* r keeps what it has below it, and may have got more.
Keeps(d, e, r) ==
  /\ SameNode(d, e, r) /\ Len(ListOf(e, r)) \in Nat /\ Len(ListOf(d, r)) \in Nat
  /\ Len(ListOf(e, r)) >= Len(ListOf(d, r))
  /\ \A i \in 1..Len(ListOf(d, r)) : ListOf(e, r)[i] = ListOf(d, r)[i]

LEMMA ListIsSeq ==
  ASSUME NEW d, Listed(d), NEW p \in Parent
  PROVE  ListOf(d, p) \in Seq(Node) /\ Len(ListOf(d, p)) \in Nat
<1>1. IsList(d, p, ListOf(d, p))
  BY DEF Listed
<1> QED BY <1>1, ListFacts

LEMMA KeepsAsItWas ==
  ASSUME NEW d, NEW e, NEW C, SameBut(d, e, C), NEW r \in Node \ C, Listed(d)
  PROVE  Keeps(d, e, r) /\ ListOf(e, r) = ListOf(d, r)
<1>1. r \in Parent
  BY DEF Parent
<1> QED BY <1>1, ListIsSeq DEF SameBut, Keeps

LEMMA KeepsWithMore ==
  ASSUME NEW d, NEW e, NEW r \in Node, Listed(d), SameNode(d, e, r), NEW x,
         x \in Node, ListOf(e, r) = Append(ListOf(d, r), x)
  PROVE  /\ Keeps(d, e, r) /\ Len(ListOf(e, r)) = Len(ListOf(d, r)) + 1
         /\ ListOf(e, r)[Len(ListOf(d, r)) + 1] = x
<1>1. ListOf(d, r) \in Seq(Node) /\ Len(ListOf(d, r)) \in Nat
  BY ListIsSeq DEF Parent
<1> QED BY <1>1 DEF Keeps

LEMMA FieldsStay ==
  ASSUME NEW d, NEW e, NEW C, SameBut(d, e, C), C \cap Linked(d) = {},
         NEW r, Keeps(d, e, r), NEW m, NEW k \in 0..3, HasFields(d, m, r, k)
  PROVE  HasFields(e, m, r, k)
<1>1. Elem(e, r, m.form, <<NumberAttribute("Number", m.number)>>, ListOf(e, r))
  BY DEF Keeps, HasFields, Elem, SameNode
<1>2. Len(ListOf(e, r)) >= k
  BY DEF Keeps, HasFields
<1>3. ASSUME NEW i \in 1..k
      PROVE  Leaf(e, ListOf(e, r)[i], FieldNames[i], <<>>,
                  Numeral(FieldNumbers(m)[i]))
  <2>1. ListOf(e, r)[i] = ListOf(d, r)[i]
    BY DEF Keeps, HasFields
  <2>2. Leaf(d, ListOf(d, r)[i], FieldNames[i], <<>>,
             Numeral(FieldNumbers(m)[i]))
    BY DEF HasFields
  <2> QED BY <2>1, <2>2, LeafStays
<1> QED BY <1>1, <1>2, <1>3 DEF HasFields

LEMMA TimesStay ==
  ASSUME NEW d, NEW e, NEW C, SameBut(d, e, C), C \cap Linked(d) = {},
         NEW x, x \notin C, NEW m, NEW o, NEW j, HasTimes(d, m, o, x, j)
  PROVE  HasTimes(e, m, o, x, j)
<1>1. x \in Node \ C /\ x \in Parent \ C
  BY DEF HasTimes, Elem, Parent
<1>2. SameNode(d, e, x) /\ ListOf(e, x) = ListOf(d, x)
  BY <1>1 DEF SameBut
<1>3. ASSUME NEW i \in 1..j PROVE TimeLeaf(e, m, ListOf(d, x)[i], o[i])
  BY LeafStays DEF HasTimes, TimeLeaf
<1> QED BY <1>2, <1>3 DEF HasTimes, Elem, SameNode

\* One time more
LEMMA TimesGrow ==
  ASSUME NEW d, NEW e, NEW C, SameBut(d, e, C), C \cap Linked(d) = {},
         Listed(d), NEW x, SameNode(d, e, x), NEW n \in Node,
         ListOf(e, x) = Append(ListOf(d, x), n),
         NEW m, NEW o, NEW j \in Nat, HasTimes(d, m, o, x, j),
         TimeLeaf(e, m, n, o[j + 1])
  PROVE  HasTimes(e, m, o, x, j + 1)
<1>1. /\ x \in Node /\ Len(ListOf(d, x)) = j
      /\ Elem(e, x, "VectorTimes", <<>>, ListOf(e, x))
  BY DEF HasTimes, Elem, SameNode
<1>2. /\ Keeps(d, e, x) /\ Len(ListOf(e, x)) = j + 1
      /\ ListOf(e, x)[j + 1] = n
  BY <1>1, KeepsWithMore
<1>3. ASSUME NEW i \in 1..j PROVE TimeLeaf(e, m, ListOf(e, x)[i], o[i])
  <2>1. ListOf(e, x)[i] = ListOf(d, x)[i]
    BY <1>1, <1>2 DEF Keeps
  <2> QED BY <2>1, LeafStays DEF HasTimes, TimeLeaf
<1>4. ASSUME NEW i \in 1..j + 1 PROVE TimeLeaf(e, m, ListOf(e, x)[i], o[i])
  <2>1. i \in 1..j \/ i = j + 1
    OBVIOUS
  <2> QED BY <1>2, <1>3, <2>1
<1> QED BY <1>1, <1>2, <1>4 DEF HasTimes

LEMMA ListStays ==
  ASSUME NEW d, NEW e, NEW C, SameBut(d, e, C), C \cap Linked(d) = {},
         NEW r, Keeps(d, e, r), NEW m, NEW o, HasList(d, m, o, r)
  PROVE  HasList(e, m, o, r)
<1> DEFINE x == ListOf(d, r)[4]
<1>1. HasFields(e, m, r, 3)
  BY FieldsStay DEF HasList
<1>2. Len(ListOf(e, r)) >= 4 /\ ListOf(e, r)[4] = x
  BY DEF HasList, Keeps
<1>3. x \in Linked(d) /\ x \notin C /\ x \in Linked(e)
  BY DEF HasList, SameBut
<1>4. HasTimes(e, m, o, x, Len(o))
  BY <1>3, TimesStay DEF HasList
<1> QED BY <1>1, <1>2, <1>3, <1>4 DEF HasList

LEMMA ContentStays ==
  ASSUME NEW d, NEW e, NEW C, SameBut(d, e, C), C \cap Linked(d) = {},
         NEW r, Keeps(d, e, r), ListOf(e, r) = ListOf(d, r),
         NEW m, NEW o, NEW v, HasContent(d, m, o, r, v)
  PROVE  HasContent(e, m, o, r, v)
<1>1. HasList(e, m, o, r)
  BY ListStays DEF HasContent
<1>2. Leaf(e, ListOf(d, r)[5], "Content", <<>>, v)
  BY LeafStays DEF HasContent
<1> QED BY <1>1, <1>2 DEF HasContent

-----------------------------------------------------------------------------
(* What is read in that tree                                                *)

LEMMA TextOf ==
  ASSUME NEW d, Listed(d), NEW x \in Node, NEW v, Holds(d, x, v)
  PROVE  GetText(d, x) = v
<1>1. IsList(d, x, ListOf(d, x))
  BY DEF Listed, Parent
<1>2. CASE v = Null
  <2>1. IsList(d, x, <<>>)
    BY <1>1, <1>2 DEF Holds
  <2>2. d.firstChild[x] = Null
    BY <2>1 DEF IsList
  <2> QED BY <1>2, <2>2 DEF GetText
<1>3. CASE v # Null
  <2>1. PICK y \in Linked(d) : /\ ListOf(d, x) = <<y>>
                               /\ d.kind[y] = "text" /\ d.value[y] = v
    BY <1>3 DEF Holds
  <2>2. IsList(d, x, <<y>>) /\ y # Null
    BY <1>1, <2>1, NullIsNoNode DEF Linked
  <2>3. d.firstChild[x] = y
    BY <2>2 DEF IsList
  <2> QED BY <2>1, <2>2, <2>3 DEF GetText, isText
<1> QED BY <1>2, <1>3

LEMMA LeafText ==
  ASSUME NEW d, Listed(d), NEW x, NEW name, NEW attributes, NEW v,
         Leaf(d, x, name, attributes, v)
  PROVE  GetText(d, x) = v /\ Elem(d, x, name, attributes, ListOf(d, x))
BY TextOf DEF Leaf, Full, Elem

LEMMA OneIsLeast ==
  ASSUME NEW k \in Int PROVE Min({k}) = k /\ Max({k}) = k
BY DEF Min, Max

LEMMA NumeralIsRead ==
  ASSUME NEW k \in Numbers PROVE NumberIn(Numeral(k)) = k
<1> DEFINE v == Numeral(k)
<1>1. v = <<ToString(k)>> /\ Len(v) = 1
  BY DEF Numeral
<1>2. ASSUME NEW j \in Numbers PROVE Starts(v, 1, Numeral(j)) <=> j = k
  <2>1. Numeral(j) = <<ToString(j)>>
    BY DEF Numeral
  <2>2. Starts(v, 1, Numeral(j)) <=> ToString(k) = ToString(j)
    <3> HIDE DEF v
    <3>1. Len(Numeral(j)) = 1 /\ DOMAIN Numeral(j) = {1}
          /\ Numeral(j)[1] = ToString(j) /\ v[1] = ToString(k)
      BY <1>1, <2>1
    <3> QED BY <1>1, <3>1 DEF Starts
  <2> QED BY <2>2, NumeralAssumption
<1>3. v \in Value
  <2>1. ToString(k) \in Symbol
    BY NumeralFacts
  <2> QED BY <1>1, <2>1 DEF Value
<1>4. v # Null
  BY <1>3, ValueAssumption
<1> HIDE DEF v
<1>5. NumberIn(v) = CHOOSE j \in Numbers : Starts(v, 1, Numeral(j))
  BY <1>2, <1>4 DEF NumberIn
<1>6. (CHOOSE j \in Numbers : Starts(v, 1, Numeral(j))) = k
  BY <1>2
<1> QED BY <1>5, <1>6 DEF v

\* The attribute of a node that has no other
LEMMA TheAttribute ==
  ASSUME NEW d, NEW n, NEW name, NEW k \in Numbers,
         d.attributes[n] = <<NumberAttribute(name, k)>>
  PROVE  NumberIn(AttributeOf(d, n, <<name>>)) = k
<1> DEFINE a == NumberAttribute(name, k)
           found == {i \in DOMAIN d.attributes[n] :
                       d.attributes[n][i].name = <<name>>}
<1>1. a.name = <<name>> /\ a.value = Numeral(k)
  BY DEF NumberAttribute
<1>2. found = {1}
  <2> HIDE DEF a
  <2>1. DOMAIN d.attributes[n] = {1} /\ d.attributes[n][1] = a
    BY DEF a
  <2> QED BY <1>1, <2>1
<1>3. FindAttribute(d, n, <<name>>) = 1
  BY <1>2, OneIsLeast DEF FindAttribute
<1>4. AttributeOf(d, n, <<name>>) = Numeral(k)
  BY <1>1, <1>3 DEF AttributeOf
<1> QED BY <1>4, NumeralIsRead

LEMMA ChildOf ==
  ASSUME NEW d, Listed(d), NEW r \in Parent, NEW i \in 1..Len(ListOf(d, r)),
         NEW name \in Symbol, d.kind[ListOf(d, r)[i]] = "element",
         d.value[ListOf(d, r)[i]] = <<name>>,
         \A j \in 1..i - 1 : d.value[ListOf(d, r)[j]] # <<name>>
  PROVE  FirstChildElement(d, r, <<name>>) = ListOf(d, r)[i]
<1> DEFINE s == ListOf(d, r)
           found == ElementsBelow(d, r, <<name>>)
<1>1. s \in Seq(Node) /\ DOMAIN s = 1..Len(s) /\ Len(s) \in Nat
  BY ListIsSeq
<1>2. <<name>> # Null
  <2>1. <<name>> \in Value
    BY DEF Value
  <2> QED BY <2>1, ValueAssumption
<1>3. /\ found \in SUBSET Nat /\ i \in found
      /\ \A j \in found : j >= i
  BY <1>1, <1>2 DEF ElementsBelow, ToElementWithName
<1> HIDE DEF found
<1>4. Min(found) = i
  <2>1. Min(found) \in found /\ \A j \in found : Min(found) <= j
    BY <1>3, LeastOf
  <2>2. Min(found) \in Nat /\ i \in Nat /\ Min(found) <= i /\ Min(found) >= i
    BY <1>3, <2>1
  <2> HIDE DEF s
  <2> QED BY <2>2
<1>5. found # {}
  BY <1>3
<1> QED BY <1>4, <1>5 DEF FirstChildElement, found

LEMMA FieldsFound ==
  ASSUME NEW d, Listed(d), NEW m, NEW o, NEW r, NEW v, HasContent(d, m, o, r, v)
  PROVE  LET s == ListOf(d, r)
         IN /\ FirstChildElement(d, r, <<"Type">>) = s[1]
            /\ FirstChildElement(d, r, <<"SourceID">>) = s[2]
            /\ FirstChildElement(d, r, <<"DestinationID">>) = s[3]
            /\ FirstChildElement(d, r, <<"VectorTimes">>) = s[4]
            /\ FirstChildElement(d, r, <<"Content">>) = s[5]
            /\ GetText(d, s[1]) = Numeral(m.type)
            /\ GetText(d, s[2]) = Numeral(m.sourceID)
            /\ GetText(d, s[3]) = Numeral(m.destinationID)
            /\ GetText(d, s[5]) = v
            /\ \A i \in 1..5 : s[i] \in Node
            /\ s[4] \in Node
<1> DEFINE s == ListOf(d, r)
<1>1. r \in Parent
  BY DEF HasContent, HasList, HasFields, Elem, Parent
<1>2. s \in Seq(Node) /\ Len(s) = 5
  BY <1>1, ListIsSeq DEF HasContent
<1>3. /\ Leaf(d, s[1], "Type", <<>>, Numeral(m.type))
      /\ Leaf(d, s[2], "SourceID", <<>>, Numeral(m.sourceID))
      /\ Leaf(d, s[3], "DestinationID", <<>>, Numeral(m.destinationID))
  <2>1. \A i \in 1..3 : Leaf(d, s[i], FieldNames[i], <<>>,
                             Numeral(FieldNumbers(m)[i]))
    BY DEF HasContent, HasList, HasFields
  <2>2. /\ FieldNames[1] = "Type" /\ FieldNumbers(m)[1] = m.type
        /\ FieldNames[2] = "SourceID" /\ FieldNumbers(m)[2] = m.sourceID
        /\ FieldNames[3] = "DestinationID"
        /\ FieldNumbers(m)[3] = m.destinationID
        /\ 1 \in 1..3 /\ 2 \in 1..3 /\ 3 \in 1..3
    BY DEF FieldNames, FieldNumbers
  <2> QED BY <2>1, <2>2
<1>4. /\ Elem(d, s[4], "VectorTimes", <<>>, ListOf(d, s[4]))
      /\ Leaf(d, s[5], "Content", <<>>, v)
  BY DEF HasContent, HasList, HasTimes
<1>5. /\ GetText(d, s[1]) = Numeral(m.type)
      /\ GetText(d, s[2]) = Numeral(m.sourceID)
      /\ GetText(d, s[3]) = Numeral(m.destinationID)
      /\ GetText(d, s[5]) = v
  BY <1>3, <1>4, LeafText
<1>6. /\ Elem(d, s[1], "Type", <<>>, ListOf(d, s[1]))
      /\ Elem(d, s[2], "SourceID", <<>>, ListOf(d, s[2]))
      /\ Elem(d, s[3], "DestinationID", <<>>, ListOf(d, s[3]))
      /\ Elem(d, s[5], "Content", <<>>, ListOf(d, s[5]))
  BY <1>3, <1>4 DEF Leaf, Full
<1>7. /\ d.value[s[1]] = <<"Type">> /\ d.value[s[2]] = <<"SourceID">>
      /\ d.value[s[3]] = <<"DestinationID">>
      /\ d.value[s[4]] = <<"VectorTimes">> /\ d.value[s[5]] = <<"Content">>
      /\ \A i \in 1..5 : s[i] \in Node
      /\ d.kind[s[1]] = "element" /\ d.kind[s[2]] = "element"
      /\ d.kind[s[3]] = "element" /\ d.kind[s[4]] = "element"
      /\ d.kind[s[5]] = "element"
  BY <1>2, <1>4, <1>6 DEF Elem
<1>8. fieldNames \subseteq Symbol
  BY NameAssumption
<1> HIDE DEF s
<1>9. FirstChildElement(d, r, <<"Type">>) = s[1]
  BY <1>1, <1>2, <1>7, <1>8, ChildOf DEF fieldNames, s
<1>10. FirstChildElement(d, r, <<"SourceID">>) = s[2]
  <2>1. \A j \in 1..2 - 1 : d.value[s[j]] # <<"SourceID">>
    BY <1>7
  <2>2. "SourceID" \in Symbol /\ 2 \in 1..Len(s)
    BY <1>2, <1>8 DEF fieldNames
  <2> QED BY <1>1, <1>7, <2>1, <2>2, ChildOf DEF s
<1>11. FirstChildElement(d, r, <<"DestinationID">>) = s[3]
  <2>1. \A j \in 1..3 - 1 : d.value[s[j]] # <<"DestinationID">>
    BY <1>7
  <2>2. "DestinationID" \in Symbol /\ 3 \in 1..Len(s)
    BY <1>2, <1>8 DEF fieldNames
  <2> QED BY <1>1, <1>7, <2>1, <2>2, ChildOf DEF s
<1>12. FirstChildElement(d, r, <<"VectorTimes">>) = s[4]
  <2>1. \A j \in 1..4 - 1 : d.value[s[j]] # <<"VectorTimes">>
    BY <1>7
  <2>2. "VectorTimes" \in Symbol /\ 4 \in 1..Len(s)
    BY <1>2, <1>8 DEF fieldNames
  <2> QED BY <1>1, <1>7, <2>1, <2>2, ChildOf DEF s
<1>13. FirstChildElement(d, r, <<"Content">>) = s[5]
  <2>1. \A j \in 1..5 - 1 : d.value[s[j]] # <<"Content">>
    BY <1>7
  <2>2. "Content" \in Symbol /\ 5 \in 1..Len(s)
    BY <1>2, <1>8 DEF fieldNames
  <2> QED BY <1>1, <1>7, <2>1, <2>2, ChildOf DEF s
<1>14. s[4] \in Node
  BY <1>7
<1> QED BY <1>5, <1>7, <1>9, <1>10, <1>11, <1>12, <1>13, <1>14 DEF s

LEMMA AsReadIs ==
  ASSUME NEW m,
         m = [form |-> m.form, type |-> m.type, number |-> m.number,
              sourceID |-> m.sourceID, destinationID |-> m.destinationID,
              vectorTimes |-> m.vectorTimes, content |-> m.content],
         NEW times,
         times = [n \in {k \in DOMAIN m.vectorTimes : k > 0} |-> m.vectorTimes[n]]
  PROVE  asRead(m) =
           [form |-> m.form, type |-> m.type, number |-> m.number,
            sourceID |-> m.sourceID, destinationID |-> m.destinationID,
            vectorTimes |-> times, content |-> Normalized(m.content)]
<1>1. PICK q : q = [m EXCEPT !.vectorTimes = times]
  OBVIOUS
<1>2. q = [form |-> m.form, type |-> m.type, number |-> m.number,
           sourceID |-> m.sourceID, destinationID |-> m.destinationID,
           vectorTimes |-> times, content |-> m.content]
  BY <1>1
<1>3. asRead(m) = [q EXCEPT !.content = Normalized(@)]
  BY <1>1, Zenon DEF asRead
<1>4. [q EXCEPT !.content = Normalized(@)] =
        [form |-> m.form, type |-> m.type, number |-> m.number,
         sourceID |-> m.sourceID, destinationID |-> m.destinationID,
         vectorTimes |-> times, content |-> Normalized(m.content)]
  BY <1>2
<1> QED BY <1>3, <1>4

LEMMA TimesAreRead ==
  ASSUME NEW d, Listed(d), NEW m, IsMessage(m), NEW o, IsOrder(m, o), NEW x,
         HasTimes(d, m, o, x, Len(o))
  PROVE  hasTimes(d, x) /\ readTimes(d, x) = asRead(m).vectorTimes
<1> DEFINE s == ListOf(d, x)
           T == ElementsBelow(d, x, <<"Time">>)
           id(i) == NumberIn(AttributeOf(d, s[i], <<"NodeID">>))
<1>1. x \in Parent /\ Len(s) = Len(o)
  BY DEF HasTimes, Elem, Parent
<1>2. s \in Seq(Node) /\ Len(s) \in Nat /\ DOMAIN s = 1..Len(o)
  BY <1>1, ListIsSeq
<1>3. o \in Seq(Numbers) /\ DOMAIN m.vectorTimes = {o[i] : i \in 1..Len(o)}
      /\ \A i, j \in 1..Len(o) : o[i] = o[j] => i = j
  BY DEF IsOrder
<1>4. m.vectorTimes \in [DOMAIN m.vectorTimes -> Numbers]
  BY DEF IsMessage
<1>5. ASSUME NEW i \in 1..Len(o)
      PROVE  /\ i \in T /\ id(i) = o[i] /\ o[i] \in Numbers
             /\ NumberIn(GetText(d, s[i])) = m.vectorTimes[o[i]]
             /\ m.vectorTimes[o[i]] \in Numbers
  <2>1. o[i] \in Numbers /\ m.vectorTimes[o[i]] \in Numbers
    BY <1>3, <1>4
  <2>2. Leaf(d, s[i], "Time", <<NumberAttribute("NodeID", o[i])>>,
             Numeral(m.vectorTimes[o[i]]))
    BY DEF HasTimes, TimeLeaf
  <2> HIDE DEF s
  <2>3. /\ GetText(d, s[i]) = Numeral(m.vectorTimes[o[i]])
        /\ d.kind[s[i]] = "element" /\ d.value[s[i]] = <<"Time">>
        /\ d.attributes[s[i]] = <<NumberAttribute("NodeID", o[i])>>
    BY <2>2, LeafText DEF Elem
  <2>4. i \in T
    BY <1>2, <2>3 DEF ElementsBelow, ToElementWithName, s
  <2>5. id(i) = o[i]
    BY <2>1, <2>3, TheAttribute
  <2>6. NumberIn(GetText(d, s[i])) = m.vectorTimes[o[i]]
    BY <2>1, <2>3, NumeralIsRead
  <2> HIDE DEF T, id
  <2> QED BY <2>1, <2>4, <2>5, <2>6
<1>6. T = 1..Len(o)
  <2>1. T \subseteq 1..Len(o)
    BY <1>2 DEF ElementsBelow
  <2> QED BY <1>5, <2>1
<1>7. Null \notin Numbers
  BY NumeralAssumption
<1>8. hasTimes(d, x)
  BY <1>5, <1>6, <1>7 DEF hasTimes
<1> DEFINE time(i) == NumberIn(GetText(d, s[i]))
           K == {id(i) : i \in T} \ {n \in Numbers : n <= 0}
           largest(k) == Max({time(i) : i \in {j \in T : id(j) = k}})
<1>9. readTimes(d, x) = [k \in K |-> largest(k)]
  BY DEF readTimes
<1>10. K = {k \in DOMAIN m.vectorTimes : k > 0}
  <2>1. {id(i) : i \in T} = DOMAIN m.vectorTimes
    BY <1>3, <1>5, <1>6
  <2>2. DOMAIN m.vectorTimes \subseteq Numbers /\ Numbers \subseteq Int
    BY NumeralAssumption DEF IsMessage
  <2>3. K = DOMAIN m.vectorTimes \ {n \in Numbers : n <= 0}
    BY <2>1, Zenon
  <2> HIDE DEF K
  <2> QED BY <2>2, <2>3
<1>11. ASSUME NEW k \in DOMAIN m.vectorTimes PROVE largest(k) = m.vectorTimes[k]
  <2>1. PICK i \in 1..Len(o) : o[i] = k
    BY <1>3
  <2>2. {j \in T : id(j) = k} = {i}
    BY <1>3, <1>5, <1>6, <2>1
  <2>3. time(i) = m.vectorTimes[k] /\ time(i) \in Int
    BY <1>5, <2>1, NumeralAssumption
  <2> HIDE DEF T, id, time
  <2>4. {time(j) : j \in {l \in T : id(l) = k}} = {time(i)}
    BY <2>2
  <2>5. largest(k) = time(i)
    BY <2>3, <2>4, OneIsLeast
  <2> QED BY <2>3, <2>5
<1> HIDE DEF largest, K
<1>12. readTimes(d, x) =
         [k \in {n \in DOMAIN m.vectorTimes : n > 0} |-> m.vectorTimes[k]]
  BY <1>9, <1>10, <1>11
<1>13. asRead(m).vectorTimes =
         [k \in {n \in DOMAIN m.vectorTimes : n > 0} |-> m.vectorTimes[k]]
  BY DEF asRead, IsMessage
<1> QED BY <1>8, <1>12, <1>13

LEMMA TreeIsRead ==
  ASSUME NEW d, Listed(d), NEW m, IsMessage(m), NEW o, IsOrder(m, o), NEW r,
         NEW v, v = IF isBlank(m.content) THEN Null ELSE Normalized(m.content),
         IsTree(d, m, o, r, v)
  PROVE  Reading(d) = IF isBlank(m.content) THEN Dies
                      ELSE [outcome |-> "message", message |-> asRead(m)]
<1> DEFINE s == ListOf(d, r)
           field(name) == FirstChildElement(d, r, <<name>>)
<1>1. HasContent(d, m, o, r, v) /\ ListOf(d, Document) = <<r>>
  BY DEF IsTree
<1>2. Elem(d, r, m.form, <<NumberAttribute("Number", m.number)>>, ListOf(d, r))
  BY <1>1 DEF HasContent, HasList, HasFields
<1>3. /\ r \in Node /\ d.kind[r] = "element" /\ d.value[r] = <<m.form>>
      /\ d.attributes[r] = <<NumberAttribute("Number", m.number)>>
      /\ r # Null
  BY <1>2, NullIsNoNode DEF Elem
<1>4. d.firstChild[Document] = r
  <2>1. IsList(d, Document, <<r>>)
    BY <1>1 DEF Listed, Parent
  <2> QED BY <2>1 DEF IsList
<1>5. /\ m.form \in Forms /\ m.type \in Numbers /\ m.number \in Numbers
      /\ m.sourceID \in Numbers /\ m.destinationID \in Numbers
      /\ m.content \in Contents
      /\ m = [form |-> m.form, type |-> m.type, number |-> m.number,
              sourceID |-> m.sourceID, destinationID |-> m.destinationID,
              vectorTimes |-> m.vectorTimes, content |-> m.content]
  BY DEF IsMessage
<1>6. Normalized(m.content) # Null
  <2>1. Normalized(m.content) \in Value
    BY <1>5, ContentIsText, NormalizedIsText
  <2> QED BY <2>1, ValueAssumption
<1>7. /\ field("Type") = s[1] /\ field("SourceID") = s[2]
      /\ field("DestinationID") = s[3] /\ field("VectorTimes") = s[4]
      /\ field("Content") = s[5]
      /\ GetText(d, s[1]) = Numeral(m.type)
      /\ GetText(d, s[2]) = Numeral(m.sourceID)
      /\ GetText(d, s[3]) = Numeral(m.destinationID)
      /\ GetText(d, s[5]) = v
      /\ \A i \in 1..5 : s[i] \in Node
  BY <1>1, FieldsFound
<1>8. HasTimes(d, m, o, s[4], Len(o))
  BY <1>1 DEF HasContent, HasList
<1> HIDE DEF s, field
<1>9. /\ hasTimes(d, field("VectorTimes"))
      /\ readTimes(d, field("VectorTimes")) = asRead(m).vectorTimes
  BY <1>7, <1>8, TimesAreRead
<1>10. /\ field("Type") # Null /\ field("SourceID") # Null
       /\ field("DestinationID") # Null /\ field("VectorTimes") # Null
       /\ field("Content") # Null
  BY <1>7, NullIsNoNode
<1>11. hasAll(d, r, fieldNames \ {"Content"}) /\ hasAll(d, r, {"Content"})
  BY <1>10 DEF hasAll, fieldNames, field
<1>12. hasContent(d, r) <=> v # Null
  BY <1>7, <1>11 DEF hasContent, field
<1>13. d.value[r] \in {<<f>> : f \in Forms}
  BY <1>3, <1>5
<1>14. Reading(d) = IF v = Null THEN Dies
                    ELSE [outcome |-> "message", message |-> readMessage(d, r)]
  BY <1>3, <1>4, <1>9, <1>11, <1>12, <1>13 DEF Reading, field
<1>15. ASSUME v # Null PROVE readMessage(d, r) = asRead(m)
  <2>1. Null \notin Numbers
    BY NumeralAssumption
  <2>2. NumberIn(AttributeOf(d, r, <<"Number">>)) = m.number
    BY <1>3, <1>5, TheAttribute
  <2>3. /\ IntText(d, field("Type")) = m.type
        /\ IntText(d, field("SourceID")) = m.sourceID
        /\ IntText(d, field("DestinationID")) = m.destinationID
    BY <1>5, <1>7, <2>1, NumeralIsRead DEF IntText
  <2>4. GetText(d, field("Content")) = Normalized(m.content)
    BY <1>7, <1>15
  <2>5. d.value[r][1] = m.form
    BY <1>3
  <2>6. readMessage(d, r) =
          [form |-> m.form, number |-> m.number, type |-> m.type,
           sourceID |-> m.sourceID, destinationID |-> m.destinationID,
           vectorTimes |-> asRead(m).vectorTimes,
           content |-> Normalized(m.content)]
    BY <1>5, <1>9, <2>1, <2>2, <2>3, <2>4, <2>5 DEF readMessage, field
  <2>7. asRead(m) =
          [form |-> m.form, number |-> m.number, type |-> m.type,
           sourceID |-> m.sourceID, destinationID |-> m.destinationID,
           vectorTimes |-> asRead(m).vectorTimes,
           content |-> Normalized(m.content)]
    <3>1. PICK times : times = [n \in {k \in DOMAIN m.vectorTimes : k > 0} |->
                                  m.vectorTimes[n]]
      OBVIOUS
    <3>2. asRead(m) =
            [form |-> m.form, type |-> m.type, number |-> m.number,
             sourceID |-> m.sourceID, destinationID |-> m.destinationID,
             vectorTimes |-> times, content |-> Normalized(m.content)]
      BY <1>5, <3>1, AsReadIs
    <3> QED BY ONLY <3>2
  <2> QED BY <2>6, <2>7
<1> QED BY <1>6, <1>14, <1>15

-----------------------------------------------------------------------------
(* What is written is that tree                                             *)

\* r has the first k fields and nothing else, and c cells are left.
RootStage(d, m, r, k, c) ==
  /\ Tidy(d, {r}) /\ HasFields(d, m, r, k) /\ Len(ListOf(d, r)) = k
  /\ ListOf(d, Document) = <<>> /\ Cells(d, c)

LEMMA LeafJoins ==
  ASSUME NEW d, NEW e, NEW P, Tidy(d, P), NEW p \in P, NEW x, NEW name,
         NEW attributes, NEW v, GotLeaf(d, e, P, p, x, name, attributes, v)
  PROVE  \E C : /\ SameBut(d, e, C) /\ C \cap Linked(d) = {}
                /\ C \cap P = {p} /\ Document \notin C
                /\ Keeps(d, e, p) /\ x \in Node
                /\ Len(ListOf(e, p)) = Len(ListOf(d, p)) + 1
                /\ ListOf(e, p)[Len(ListOf(d, p)) + 1] = x
<1>1. PICK C : C \cap Allocated(d) = {} /\ Document \notin C
               /\ SameBut(d, e, C \cup {p})
  BY DEF GotLeaf
<1>2. /\ P \subseteq Allocated(d) /\ Linked(d) = Allocated(d) \ P
      /\ Linked(d) \subseteq Node /\ P \subseteq Node /\ P \cap Linked(d) = {}
      /\ Listed(d)
  BY TidyFacts
<1>3. /\ (C \cup {p}) \cap Linked(d) = {} /\ (C \cup {p}) \cap P = {p}
      /\ Document \notin C \cup {p}
  BY <1>1, <1>2, NullIsNoNode
<1>4. /\ Keeps(d, e, p) /\ Len(ListOf(e, p)) = Len(ListOf(d, p)) + 1
      /\ ListOf(e, p)[Len(ListOf(d, p)) + 1] = x
  BY <1>2, KeepsWithMore DEF GotLeaf
<1> QED BY <1>1, <1>3, <1>4 DEF GotLeaf

LEMMA FieldIsWritten ==
  ASSUME NEW d, NEW m, NEW r, NEW k \in 0..2, NEW c \in Nat,
         RootStage(d, m, r, k, c + 2), FieldNumbers(m)[k + 1] \in Numbers
  PROVE  RootStage(Added(d, r, FieldNames[k + 1],
                         Numeral(FieldNumbers(m)[k + 1])), m, r, k + 1, c)
<1> DEFINE name == FieldNames[k + 1]
           v == Numeral(FieldNumbers(m)[k + 1])
           e == Added(d, r, name, v)
           x == Fresh(d)
<1>1. name \in Symbol
  <2>1. fieldNames \subseteq Symbol
    BY NameAssumption
  <2>2. k + 1 \in 1..3 /\ \A i \in 1..3 : FieldNames[i] \in fieldNames
    BY DEF FieldNames, fieldNames
  <2> QED BY <2>1, <2>2
<1>2. v \in Value
  <2>1. v = <<ToString(FieldNumbers(m)[k + 1])>>
        /\ ToString(FieldNumbers(m)[k + 1]) \in Symbol
    BY NumeralFacts
  <2> QED BY <2>1 DEF Value
<1> HIDE DEF name, v
<1>3. Tidy(d, {r}) /\ d.kind[r] = "element"
  BY DEF RootStage, HasFields, Elem
<1>4. GotLeaf(d, e, {r}, r, x, name, <<>>, v) /\ Cells(e, c)
  BY <1>1, <1>2, <1>3, LeafIsAdded DEF RootStage
<1> HIDE DEF e, x
<1>5. PICK C : /\ SameBut(d, e, C) /\ C \cap Linked(d) = {}
               /\ C \cap {r} = {r} /\ Document \notin C
               /\ Keeps(d, e, r) /\ x \in Node
               /\ Len(ListOf(e, r)) = Len(ListOf(d, r)) + 1
               /\ ListOf(e, r)[Len(ListOf(d, r)) + 1] = x
  BY <1>3, <1>4, LeafJoins
<1>6. Len(ListOf(e, r)) = k + 1 /\ ListOf(e, r)[k + 1] = x
  BY <1>5 DEF RootStage
<1>7. HasFields(e, m, r, k)
  BY <1>5, FieldsStay DEF RootStage
<1>8. Leaf(e, ListOf(e, r)[k + 1], FieldNames[k + 1], <<>>,
           Numeral(FieldNumbers(m)[k + 1]))
  BY <1>4, <1>6 DEF GotLeaf, name, v
<1>9. HasFields(e, m, r, k + 1)
  <2>1. \A i \in 1..k + 1 : i \in 1..k \/ i = k + 1
    OBVIOUS
  <2> QED BY <1>6, <1>7, <1>8, <2>1 DEF HasFields
<1>10. RootStage(e, m, r, k + 1, c)
  BY <1>4, <1>6, <1>9 DEF RootStage, GotLeaf
<1> QED BY <1>10 DEF e, name, v

LEMMA EmptyIsTidy == Tidy(Empty, {}) /\ ListOf(Empty, Document) = <<>>
<1>1. \A p \in Parent : IsList(Empty, p, <<>>)
  BY NodeAssumption DEF IsList, Empty, NoCell
<1>2. Listed(Empty)
  BY <1>1, ListedBy
<1>3. ListOf(Empty, Document) = <<>>
  BY <1>1, TheList DEF Parent
<1> QED BY <1>2, <1>3, EmptyHangs DEF Tidy

\* The element of a message, with nothing but its number
LEMMA RootIsWritten ==
  ASSUME NEW d, d = Empty, NEW c \in Nat, Cells(d, c + 1), NEW m,
         m.form \in Forms, m.number \in Numbers
  PROVE  RootStage(SetAttribute(NewElement(d, m.form), Fresh(d),
                                NumberAttribute("Number", m.number)),
                   m, Fresh(d), 0, c)
<1> DEFINE r == Fresh(d)
           b == NewElement(d, m.form)
           a == NumberAttribute("Number", m.number)
           e == SetAttribute(b, r, a)
<1>1. Tidy(d, {}) /\ ListOf(d, Document) = <<>>
  BY EmptyIsTidy
<1>2. Allocated(d) # Node
  BY CellIsLeft DEF Cells
<1>3. m.form \in Symbol /\ "Number" \in Symbol
  BY NameAssumption
<1>4. a \in Attribute
  <2>1. ToString(m.number) \in Symbol /\ Numeral(m.number) = <<ToString(m.number)>>
    BY NumeralFacts
  <2> QED BY <1>3, <2>1 DEF NumberAttribute, Attribute, Value
<1>5. /\ MadeNode(d, b, {}, r, "element", <<m.form>>)
      /\ Elem(b, r, m.form, <<>>, <<>>)
  BY <1>1, <1>2, <1>3, ElementIsMade
<1> HIDE DEF b, r, a
<1>6. /\ Tidy(b, {r}) /\ r \in Node \ Allocated(d)
      /\ Allocated(b) = Allocated(d) \cup {r}
      /\ ListOf(b, Document) = ListOf(d, Document)
  BY <1>5 DEF MadeNode
<1>7. Cells(b, c)
  BY <1>6, OneCellLess DEF Cells
<1>8. GotAttribute(b, e, {r}, r, a)
  BY <1>4, <1>5, <1>6, AttributeIsSet DEF Elem
<1> HIDE DEF e
<1>9. /\ Tidy(e, {r}) /\ ListOf(e, Document) = <<>>
      /\ Elem(e, r, m.form, <<a>>, <<>>) /\ Cells(e, c)
  BY <1>1, <1>5, <1>6, <1>7, <1>8 DEF GotAttribute, Elem, Cells
<1>10. RootStage(e, m, r, 0, c)
  BY <1>9 DEF RootStage, HasFields, Elem, a
<1> QED BY <1>10 DEF e, b, a, r

\* Its times are being written, up to those of o.
ListStage(d, m, r, x, o) ==
  /\ Tidy(d, {r, x}) /\ r # x
  /\ HasFields(d, m, r, 3) /\ Len(ListOf(d, r)) = 3
  /\ HasTimes(d, m, o, x, Len(o)) /\ ListOf(d, Document) = <<>>

HeaderWritten(d, m) ==
  LET r == Fresh(d)
      d1 == SetAttribute(NewElement(d, m.form), r,
                         NumberAttribute("Number", m.number))
      d2 == Added(d1, r, "Type", Numeral(m.type))
      d3 == Added(d2, r, "SourceID", Numeral(m.sourceID))
      d4 == Added(d3, r, "DestinationID", Numeral(m.destinationID))
  IN ListStage(NewElement(d4, "VectorTimes"), m, r, Fresh(d4), <<>>)

LEMMA HeaderIsWritten ==
  ASSUME NEW d, d = Empty, Cardinality(Node \ Allocated(d)) >= 8, NEW m,
         m.form \in Forms, m.number \in Numbers, m.type \in Numbers,
         m.sourceID \in Numbers, m.destinationID \in Numbers
  PROVE  HeaderWritten(d, m)
<1> DEFINE r == Fresh(d)
           d1 == SetAttribute(NewElement(d, m.form), r,
                              NumberAttribute("Number", m.number))
           d2 == Added(d1, r, "Type", Numeral(m.type))
           d3 == Added(d2, r, "SourceID", Numeral(m.sourceID))
           d4 == Added(d3, r, "DestinationID", Numeral(m.destinationID))
           e == NewElement(d4, "VectorTimes")
           x == Fresh(d4)
<1>1. RootStage(d1, m, r, 0, 7)
  BY RootIsWritten DEF Cells
<1>2. /\ FieldNames[0 + 1] = "Type" /\ FieldNumbers(m)[0 + 1] = m.type
      /\ FieldNames[1 + 1] = "SourceID" /\ FieldNumbers(m)[1 + 1] = m.sourceID
      /\ FieldNames[2 + 1] = "DestinationID"
      /\ FieldNumbers(m)[2 + 1] = m.destinationID
  BY DEF FieldNames, FieldNumbers
<1> HIDE DEF d1, r
<1>3. RootStage(d2, m, r, 1, 5)
  <2>1. RootStage(d1, m, r, 0, 5 + 2) /\ 0 \in 0..2 /\ 5 \in Nat
    BY <1>1
  <2>2. RootStage(Added(d1, r, FieldNames[0 + 1],
                        Numeral(FieldNumbers(m)[0 + 1])), m, r, 0 + 1, 5)
    BY <1>2, <2>1, FieldIsWritten
  <2> QED BY <1>2, <2>2
<1> HIDE DEF d2
<1>4. RootStage(d3, m, r, 2, 3)
  <2>1. RootStage(d2, m, r, 1, 3 + 2) /\ 1 \in 0..2 /\ 3 \in Nat
    BY <1>3
  <2>2. RootStage(Added(d2, r, FieldNames[1 + 1],
                        Numeral(FieldNumbers(m)[1 + 1])), m, r, 1 + 1, 3)
    BY <1>2, <2>1, FieldIsWritten
  <2> QED BY <1>2, <2>2
<1> HIDE DEF d3
<1>5. RootStage(d4, m, r, 3, 1)
  <2>1. RootStage(d3, m, r, 2, 1 + 2) /\ 2 \in 0..2 /\ 1 \in Nat
    BY <1>4
  <2>2. RootStage(Added(d3, r, FieldNames[2 + 1],
                        Numeral(FieldNumbers(m)[2 + 1])), m, r, 2 + 1, 1)
    BY <1>2, <2>1, FieldIsWritten
  <2> QED BY <1>2, <2>2
<1> HIDE DEF d4
<1>6. Allocated(d4) # Node
  <2>1. Cardinality(Node \ Allocated(d4)) >= 0 + 1 /\ 0 \in Nat
    BY <1>5 DEF RootStage, Cells
  <2> QED BY <2>1, CellIsLeft
<1>7. "VectorTimes" \in Symbol
  BY NameAssumption DEF fieldNames
<1>8. /\ MadeNode(d4, e, {r}, x, "element", <<"VectorTimes">>)
      /\ Elem(e, x, "VectorTimes", <<>>, <<>>)
  BY <1>5, <1>6, <1>7, ElementIsMade DEF RootStage
<1> HIDE DEF e, x
<1>9. /\ Tidy(e, {r} \cup {x}) /\ r # x /\ SameBut(d4, e, {x})
      /\ x \notin Linked(d4)
      /\ ListOf(e, Document) = <<>>
  <2>1. Tidy(d4, {r}) /\ ListOf(d4, Document) = <<>>
    BY <1>5 DEF RootStage
  <2>2. Linked(d4) \subseteq Allocated(d4)
    BY <2>1, TidyFacts
  <2>3. /\ Tidy(e, {r} \cup {x}) /\ SameBut(d4, e, {x})
        /\ x \notin Allocated(d4) /\ x \notin {r}
        /\ ListOf(e, Document) = ListOf(d4, Document)
    BY <1>8 DEF MadeNode
  <2> QED BY <2>1, <2>2, <2>3
<1>10. Keeps(d4, e, r) /\ ListOf(e, r) = ListOf(d4, r)
  <2>1. r \in Node \ {x} /\ Listed(d4)
    BY <1>5, <1>9 DEF RootStage, HasFields, Elem, Tidy
  <2> QED BY <1>9, <2>1, KeepsAsItWas
<1>11. HasFields(e, m, r, 3) /\ Len(ListOf(e, r)) = 3
  <2>1. {x} \cap Linked(d4) = {} /\ 3 \in 0..3
    BY <1>9
  <2> QED BY <1>5, <1>9, <1>10, <2>1, FieldsStay DEF RootStage
<1>12. HasTimes(e, m, <<>>, x, Len(<<>>))
  BY <1>8 DEF HasTimes, Elem
<1>13. {r} \cup {x} = {r, x}
  OBVIOUS
<1>14. ListStage(e, m, r, x, <<>>)
  BY <1>9, <1>11, <1>12, <1>13 DEF ListStage
<1> QED BY <1>14 DEF HeaderWritten, e, x, d4, d3, d2, d1, r

LEMMA TimeIsWritten ==
  ASSUME NEW d, NEW m, NEW r, NEW x, NEW o \in Seq(Numbers),
         ListStage(d, m, r, x, o), Cells(d, 2), NEW id \in Numbers,
         m.vectorTimes[id] \in Numbers
  PROVE  LET n == Fresh(d)
             made == SetAttribute(NewElement(d, "Time"), n,
                                  NumberAttribute("NodeID", id))
             filled == SetText(made, n, Numeral(m.vectorTimes[id]))
         IN ListStage(InsertEndChild(filled, x, n), m, r, x, Append(o, id))
<1> DEFINE n == Fresh(d)
           a == NumberAttribute("NodeID", id)
           made == SetAttribute(NewElement(d, "Time"), n, a)
           v == Numeral(m.vectorTimes[id])
           e == InsertEndChild(SetText(made, n, v), x, n)
           q == Append(o, id)
<1>1. "Time" \in Symbol /\ "NodeID" \in Symbol
  BY NameAssumption
<1>2. v \in Value /\ a \in Attribute
  <2>1. /\ ToString(id) \in Symbol /\ Numeral(id) = <<ToString(id)>>
        /\ ToString(m.vectorTimes[id]) \in Symbol
        /\ v = <<ToString(m.vectorTimes[id])>>
    BY NumeralFacts
  <2> QED BY <1>1, <2>1 DEF NumberAttribute, Attribute, Value
<1>3. /\ Tidy(d, {r, x}) /\ r # x /\ HasFields(d, m, r, 3)
      /\ HasTimes(d, m, o, x, Len(o)) /\ d.kind[x] = "element"
      /\ Listed(d) /\ Cells(d, 0 + 2) /\ 0 \in Nat
      /\ Len(ListOf(d, r)) = 3 /\ ListOf(d, Document) = <<>>
      /\ r \in Node
  BY DEF ListStage, HasTimes, Elem, Tidy, HasFields
<1> HIDE DEF v, a
<1>4. GotLeaf(d, e, {r, x}, x, n, "Time", <<a>>, v)
  BY <1>1, <1>2, <1>3, TimeIsAdded
<1> HIDE DEF e, n
<1>5. PICK C : /\ SameBut(d, e, C) /\ C \cap Linked(d) = {}
               /\ C \cap {r, x} = {x} /\ Document \notin C
               /\ Keeps(d, e, x) /\ n \in Node
  BY <1>3, <1>4, LeafJoins
<1>6. /\ Tidy(e, {r, x}) /\ SameNode(d, e, x) /\ Leaf(e, n, "Time", <<a>>, v)
      /\ ListOf(e, x) = Append(ListOf(d, x), n) /\ ListOf(e, Document) = <<>>
  BY <1>3, <1>4 DEF GotLeaf
<1>7. /\ q \in Seq(Numbers) /\ Len(o) \in Nat /\ Len(q) = Len(o) + 1
      /\ q[Len(o) + 1] = id /\ \A i \in 1..Len(o) : q[i] = o[i]
  OBVIOUS
<1> HIDE DEF q
<1>8. HasTimes(d, m, q, x, Len(o))
  BY <1>3, <1>7 DEF HasTimes
<1>9. HasTimes(e, m, q, x, Len(o) + 1)
  <2>1. TimeLeaf(e, m, n, q[Len(o) + 1])
    BY <1>6, <1>7 DEF TimeLeaf, a, v
  <2> QED BY <1>3, <1>5, <1>6, <1>7, <1>8, <2>1, TimesGrow
<1>10. Keeps(d, e, r) /\ ListOf(e, r) = ListOf(d, r)
  <2>1. r \in Node \ C
    BY <1>3, <1>5
  <2> QED BY <1>3, <1>5, <2>1, KeepsAsItWas
<1>11. HasFields(e, m, r, 3)
  <2>1. 3 \in 0..3
    OBVIOUS
  <2> QED BY <1>3, <1>5, <1>10, <2>1, FieldsStay
<1>12. ListStage(e, m, r, x, q)
  BY <1>3, <1>6, <1>7, <1>9, <1>10, <1>11 DEF ListStage
<1> QED BY <1>12 DEF e, v, n, q, a

\* The list of times joins its message.
LEMMA ListJoins ==
  ASSUME NEW d, NEW e, NEW m, NEW r, NEW x, NEW o, x \in Node,
         HasFields(d, m, r, 3), Len(ListOf(d, r)) = 3, Listed(d),
         HasTimes(d, m, o, x, Len(o)), NEW C, C \cap Linked(d) = {}, x \notin C,
         SameBut(d, e, C), SameNode(d, e, r), x \in Linked(e),
         ListOf(e, r) = Append(ListOf(d, r), x)
  PROVE  HasList(e, m, o, r) /\ Len(ListOf(e, r)) = 4
<1>1. r \in Node
  BY DEF HasFields, Elem
<1>2. /\ Keeps(d, e, r) /\ Len(ListOf(e, r)) = 4 /\ ListOf(e, r)[4] = x
  <2>1. /\ Listed(d) /\ SameNode(d, e, r) /\ x \in Node /\ r \in Node
        /\ ListOf(e, r) = Append(ListOf(d, r), x)
    BY <1>1
  <2>2. /\ Keeps(d, e, r) /\ Len(ListOf(e, r)) = Len(ListOf(d, r)) + 1
        /\ ListOf(e, r)[Len(ListOf(d, r)) + 1] = x
    BY ONLY <2>1, KeepsWithMore
  <2> QED BY <2>1, <2>2
<1>3. 3 \in 0..3
  OBVIOUS
<1>4. HasFields(e, m, r, 3)
  BY <1>2, <1>3, FieldsStay
<1>5. HasTimes(e, m, o, x, Len(o))
  BY <1>3, TimesStay
<1> QED BY <1>2, <1>4, <1>5 DEF HasList

\* So does its content.
LEMMA ContentJoins ==
  ASSUME NEW d, NEW e, NEW m, NEW r, NEW o, NEW x, NEW v, NEW C,
         HasList(d, m, o, r), Len(ListOf(d, r)) = 4,
         SameBut(d, e, C), C \cap Linked(d) = {},
         Keeps(d, e, r), Len(ListOf(e, r)) = 5, ListOf(e, r)[5] = x,
         Leaf(e, x, "Content", <<>>, v)
  PROVE  HasContent(e, m, o, r, v)
BY ListStays DEF HasContent

\* And the element of the message the document.
LEMMA RootJoins ==
  ASSUME NEW d, NEW e, NEW m, NEW r, NEW o, NEW v, HasContent(d, m, o, r, v),
         Listed(d), NEW C, SameBut(d, e, C), C \cap Linked(d) = {},
         r \in Node \ C, ListOf(d, Document) = <<>>,
         ListOf(e, Document) = Append(ListOf(d, Document), r)
  PROVE  IsTree(e, m, o, r, v)
<1>2. Keeps(d, e, r) /\ ListOf(e, r) = ListOf(d, r)
  BY KeepsAsItWas
<1>3. HasContent(e, m, o, r, v)
  BY <1>2, ContentStays
<1> QED BY <1>3 DEF IsTree

LEMMA ContentIsWritten ==
  ASSUME NEW d, NEW m, NEW r, NEW x, NEW o, ListStage(d, m, r, x, o),
         Cells(d, 2), NEW v \in Value
  PROVE  LET e == InsertEndChild(Added(InsertEndChild(d, r, x), r, "Content", v),
                                 Document, r)
         IN Tidy(e, {}) /\ IsTree(e, m, o, r, v)
<1> DEFINE b == InsertEndChild(d, r, x)
           n == Fresh(b)
           c == Added(b, r, "Content", v)
           e == InsertEndChild(c, Document, r)
<1>1. /\ Tidy(d, {r, x}) /\ Listed(d) /\ r # x /\ r \in Node /\ x \in Node
      /\ r \notin Linked(d) /\ HasFields(d, m, r, 3) /\ Len(ListOf(d, r)) = 3
      /\ HasTimes(d, m, o, x, Len(o)) /\ d.kind[r] = "element"
      /\ ListOf(d, Document) = <<>>
  BY TidyFacts DEF ListStage, HasFields, Elem
<1>2. Inserted(d, b, {r, x}, r, x)
  <2>1. r \in {Document} \cup ({r, x} \ {x}) /\ r \in {Document} \cup Elements(d)
        /\ x \in {r, x}
    BY <1>1 DEF Elements
  <2> QED BY <1>1, <2>1, InsertIsDone
<1> HIDE DEF b
<1>3. {r, x} \ {x} = {r}
  BY <1>1
<1>4. /\ Tidy(b, {r}) /\ SameBut(d, b, {r}) /\ x \in Linked(b)
      /\ SameNode(d, b, r) /\ ListOf(b, r) = Append(ListOf(d, r), x)
      /\ Cells(b, 0 + 2) /\ 0 \in Nat
  <2>1. /\ Tidy(b, {r}) /\ SameBut(d, b, {r}) /\ x \in Linked(b)
        /\ \A n1 \in Node : SameNode(d, b, n1)
        /\ ListOf(b, r) = Append(ListOf(d, r), x)
        /\ Allocated(b) = Allocated(d)
    BY <1>2, <1>3 DEF Inserted
  <2>2. Cells(b, 0 + 2)
    BY <2>1 DEF Cells
  <2> QED BY <1>1, <2>1, <2>2
<1>5. HasList(b, m, o, r) /\ Len(ListOf(b, r)) = 4
  <2>1. {r} \cap Linked(d) = {} /\ x \notin {r}
    BY <1>1
  <2> QED BY <1>1, <1>4, <2>1, ListJoins
<1>6. GotLeaf(b, c, {r}, r, n, "Content", <<>>, v)
  <2>1. "Content" \in Symbol
    BY NameAssumption DEF fieldNames
  <2>2. b.kind[r] = "element" /\ r \in {r}
    BY <1>1, <1>4 DEF SameNode
  <2> QED BY <1>4, <2>1, <2>2, LeafIsAdded
<1> HIDE DEF c, n
<1>7. PICK C : /\ SameBut(b, c, C) /\ C \cap Linked(b) = {}
               /\ C \cap {r} = {r} /\ Document \notin C
               /\ Keeps(b, c, r) /\ n \in Node
               /\ Len(ListOf(c, r)) = Len(ListOf(b, r)) + 1
               /\ ListOf(c, r)[Len(ListOf(b, r)) + 1] = n
  BY <1>4, <1>6, LeafJoins
<1>8. HasContent(c, m, o, r, v)
  <2>1. Len(ListOf(c, r)) = 5 /\ ListOf(c, r)[5] = n
    BY <1>5, <1>7
  <2>2. Leaf(c, n, "Content", <<>>, v)
    BY <1>6 DEF GotLeaf
  <2> QED BY <1>5, <1>7, <2>1, <2>2, ContentJoins
<1>9. Tidy(c, {r}) /\ ListOf(c, Document) = <<>> /\ Listed(c)
      /\ Linked(c) \subseteq Node
  <2>1. ListOf(b, Document) = ListOf(d, Document)
    BY <1>1, <1>4, NullIsNoNode DEF SameBut, Parent
  <2>2. Tidy(c, {r}) /\ ListOf(c, Document) = <<>>
    BY <1>1, <1>6, <2>1 DEF GotLeaf
  <2> QED BY <2>2, TidyFacts
<1>10. Inserted(c, e, {r}, Document, r)
  BY <1>9, InsertIsDone
<1> HIDE DEF e
<1>11. /\ Tidy(e, {}) /\ SameBut(c, e, {Document})
       /\ ListOf(e, Document) = Append(ListOf(c, Document), r)
  <2>1. {r} \ {r} = {}
    OBVIOUS
  <2> QED BY <1>10, <2>1 DEF Inserted
<1>12. IsTree(e, m, o, r, v)
  <2>1. r \in Node \ {Document} /\ {Document} \cap Linked(c) = {}
    BY <1>1, <1>9, NullIsNoNode
  <2> QED BY <1>8, <1>9, <1>11, <2>1, RootJoins
<1> QED BY <1>11, <1>12 DEF e, c, b

\* The document is what has been made of the message.
TreeInv ==
  /\ writing = "times" =>
       \E o \in Seq(Numbers) :
         /\ ListStage(doc, message, root, xvectorTimes, o)
         /\ \A i, j \in 1..Len(o) : o[i] = o[j] => i = j
         /\ \A k : k \in DOMAIN message.vectorTimes \ left
                   <=> \E i \in 1..Len(o) : o[i] = k
  /\ writing \in {"printing", "sent"} =>
       /\ Tidy(doc, {})
       /\ \E o : /\ IsOrder(message, o)
                 /\ IsTree(doc, message, o, root, message.content)

LEMMA HeaderStep ==
  ASSUME WriterInv, writeHeader PROVE TreeInv'
<1> DEFINE r == Fresh(doc)
           d1 == SetAttribute(NewElement(doc, message.form), r,
                              NumberAttribute("Number", message.number))
           d2 == Added(d1, r, "Type", Numeral(message.type))
           d3 == Added(d2, r, "SourceID", Numeral(message.sourceID))
           d4 == Added(d3, r, "DestinationID", Numeral(message.destinationID))
           x == Fresh(d4)
<1>1. /\ message # NoMessage /\ doc = Empty
      /\ Cardinality(Node \ Allocated(doc)) >= 8
      /\ message' = message /\ writing' = "times"
  BY DEF writeHeader, HasCells, WriterInv, transferVars
<1>2. /\ doc' = NewElement(d4, "VectorTimes") /\ xvectorTimes' = x /\ root' = r
      /\ left' = DOMAIN message.vectorTimes
  BY Zenon DEF writeHeader
<1>3. ListStage(NewElement(d4, "VectorTimes"), message, r, x, <<>>)
  <2>1. HeaderWritten(doc, message)
    BY <1>1, MessageFacts, HeaderIsWritten
  <2> QED BY <2>1 DEF HeaderWritten
<1> HIDE DEF r, d1, d2, d3, d4, x
<1>4. ListStage(doc', message', root', xvectorTimes', <<>>)
  BY <1>1, <1>2, <1>3
<1>5. \A k : k \in DOMAIN message'.vectorTimes \ left'
             <=> \E i \in 1..Len(<<>>) : <<>>[i] = k
  BY <1>1, <1>2
<1>6. <<>> \in Seq(Numbers) /\ \A i, j \in 1..Len(<<>>) : <<>>[i] = <<>>[j] => i = j
  OBVIOUS
<1> QED BY <1>1, <1>4, <1>5, <1>6 DEF TreeInv

LEMMA TimeStep ==
  ASSUME WriterInv, TreeInv, writeTime PROVE TreeInv'
<1> DEFINE id == Min(left)
           n == Fresh(doc)
           made == SetAttribute(NewElement(doc, "Time"), n,
                                NumberAttribute("NodeID", id))
           filled == SetText(made, n, Numeral(message.vectorTimes[id]))
<1>1. /\ writing = "times" /\ left # {} /\ message # NoMessage
      /\ Cells(doc, 2) /\ left \subseteq DOMAIN message.vectorTimes
      /\ message' = message /\ writing' = writing /\ root' = root
      /\ xvectorTimes' = xvectorTimes
  BY DEF writeTime, HasCells, WriterInv, transferVars, Cells
<1>2. /\ doc' = InsertEndChild(filled, xvectorTimes, n)
      /\ left' = left \ {id}
  BY DEF writeTime
<1>3. id \in left
  <2>1. left \in SUBSET Int /\ IsFiniteSet(left)
    BY <1>1, MessageFacts, FS_Subset, NumeralAssumption
  <2> QED BY <1>1, <2>1, LeastInteger
<1>4. id \in Numbers /\ message.vectorTimes[id] \in Numbers
  BY <1>1, <1>3, MessageFacts
<1>5. PICK o \in Seq(Numbers) :
        /\ ListStage(doc, message, root, xvectorTimes, o)
        /\ \A i, j \in 1..Len(o) : o[i] = o[j] => i = j
        /\ \A k : k \in DOMAIN message.vectorTimes \ left
                  <=> \E i \in 1..Len(o) : o[i] = k
  BY <1>1 DEF TreeInv
<1> DEFINE q == Append(o, id)
<1>6. ListStage(InsertEndChild(filled, xvectorTimes, n), message, root,
                xvectorTimes, q)
  <2> HIDE DEF id
  <2> QED BY <1>1, <1>4, <1>5, TimeIsWritten
<1> HIDE DEF n, made, filled, id
<1>7. /\ q \in Seq(Numbers) /\ Len(o) \in Nat /\ Len(q) = Len(o) + 1
      /\ q[Len(o) + 1] = id /\ \A i \in 1..Len(o) : q[i] = o[i]
  BY <1>4
<1> HIDE DEF q
<1>8. \A i \in 1..Len(o) : o[i] # id
  BY <1>3, <1>5
<1>9. \A i, j \in 1..Len(q) : q[i] = q[j] => i = j
  <2>1. \A i \in 1..Len(q) : i \in 1..Len(o) \/ i = Len(o) + 1
    BY <1>7
  <2> QED BY <1>5, <1>7, <1>8, <2>1
<1>10. \A k : k \in DOMAIN message.vectorTimes \ left'
              <=> \E i \in 1..Len(q) : q[i] = k
  <2>1. \A k : (\E i \in 1..Len(q) : q[i] = k)
               <=> k = id \/ \E i \in 1..Len(o) : o[i] = k
    <3>1. \A i \in 1..Len(q) : i \in 1..Len(o) \/ i = Len(o) + 1
      BY <1>7
    <3>2. \A i \in 1..Len(o) : i \in 1..Len(q)
      BY <1>7
    <3>3. Len(o) + 1 \in 1..Len(q)
      BY <1>7
    <3> QED BY <1>7, <3>1, <3>2, <3>3
  <2> QED BY <1>1, <1>2, <1>3, <1>5, <2>1
<1>11. ListStage(doc', message', root', xvectorTimes', q)
  BY <1>1, <1>2, <1>6
<1> QED BY <1>1, <1>7, <1>9, <1>10, <1>11 DEF TreeInv

LEMMA ContentStep ==
  ASSUME WriterInv, TreeInv, writeContent PROVE TreeInv'
<1>1. /\ writing = "times" /\ message # NoMessage /\ left = {}
      /\ Cells(doc, 2)
      /\ message' = message /\ writing' = "printing" /\ root' = root
  BY DEF writeContent, HasCells, WriterInv, transferVars, Cells
<1>2. PICK o \in Seq(Numbers) :
        /\ ListStage(doc, message, root, xvectorTimes, o)
        /\ \A i, j \in 1..Len(o) : o[i] = o[j] => i = j
        /\ \A k : k \in DOMAIN message.vectorTimes \ left
                  <=> \E i \in 1..Len(o) : o[i] = k
  BY <1>1 DEF TreeInv
<1>3. message.content \in Value
  BY <1>1, MessageFacts, SeqMonotonic DEF Texts, Value
<1>4. Tidy(doc', {}) /\ IsTree(doc', message, o, root, message.content)
  BY <1>1, <1>2, <1>3, ContentIsWritten DEF writeContent
<1>5. IsOrder(message, o)
  <2>1. DOMAIN message.vectorTimes = {o[i] : i \in 1..Len(o)}
    BY <1>1, <1>2
  <2> QED BY <1>2, <2>1 DEF IsOrder
<1> QED BY <1>1, <1>4, <1>5 DEF TreeInv

-----------------------------------------------------------------------------
(* The text of a message                                                    *)

\* The tag of an element begins at p behind k blanks, and ends one tag or a
\* text.
Opening(t, p, k, name) ==
  /\ t[p - 1] = ">"
  /\ \A i \in p..p + k - 1 : t[i] \in Blank
  /\ t[p + k] = "<" /\ t[p + k + 1] = name

OneBlank == " "

\* The attribute of a time, which other elements do not have
Identified(t, q, id) == id # Null => t[q] = OneBlank /\ NumberedAt(t, q + 1, "NodeID", id)
TagEnd(p, k, id) == IF id = Null THEN p + k + 2 ELSE p + k + 8

Closing(t, q, name) ==
  t[q] = "<" /\ t[q + 1] = "/" /\ t[q + 2] = name /\ t[q + 3] = ">"

\* An element with the text u, and where the next one is
Line(t, p, k, name, id, u) ==
  LET a == TagEnd(p, k, id)
  IN /\ Opening(t, p, k, name) /\ Identified(t, p + k + 2, id) /\ t[a] = ">"
     /\ \A i \in 1..Len(u) : t[a + i] = u[i]
     /\ Closing(t, a + Len(u) + 1, name) /\ a + Len(u) + 4 <= Len(t)
Behind(p, k, id, u) == TagEnd(p, k, id) + Len(u) + 5

HeadLine(t, m) ==
  /\ t[1] = "<" /\ t[2] = m.form /\ t[3] = OneBlank
  /\ NumberedAt(t, 4, "Number", m.number) /\ Len(t) >= 8
FieldLine(t, m, i) ==
  Line(t, 10 * i, 2, FieldNames[i], Null, Numeral(FieldNumbers(m)[i]))
TimeLine(t, m, o, j) ==
  Line(t, 28 + 17 * j, 3, "Time", o[j], Numeral(m.vectorTimes[o[j]]))

\* The element of the times, and where the next one is
ListTag(t) == Opening(t, 40, 2, "VectorTimes") /\ Len(t) >= 43
EndOfTimes(o) == 45 + 17 * Len(o)
ListEnd(t, o) ==
  IF Len(o) = 0 THEN t[44] = "/" /\ t[45] = ">" /\ Len(t) >= 45
  ELSE LET p == EndOfTimes(o)
       IN /\ t[p] \in Blank /\ t[p + 1] \in Blank
          /\ Closing(t, p + 2, "VectorTimes") /\ Len(t) >= p + 5
BehindTimes(o) == IF Len(o) = 0 THEN 46 ELSE EndOfTimes(o) + 6

Encoded(m) == PrintString(m.content, restrictedEntities)
ContentLine(t, m, o) ==
  Line(t, BehindTimes(o), 2, "Content", Null, Encoded(m))
BehindContent(m, o) == Behind(BehindTimes(o), 2, Null, Encoded(m))

\* What there is of the text of the message m, whose times are in the order o
TextA(t, m, k) ==
  Len(t) \in Nat /\ HeadLine(t, m) /\ \A i \in 1..k : FieldLine(t, m, i)
TextB(t, m, o, j) ==
  TextA(t, m, 3) /\ ListTag(t) /\ \A i \in 1..j : TimeLine(t, m, o, i)
TextC(t, m, o) == TextB(t, m, o, Len(o)) /\ ListEnd(t, o)
TextD(t, m, o) == TextC(t, m, o) /\ ContentLine(t, m, o)
MessageText(t, m, o) ==
  LET p == BehindContent(m, o)
  IN /\ TextD(t, m, o)
     /\ t[p] \in Blank /\ Closing(t, p + 1, m.form)
     /\ Len(t) \in {p + 4, p + 5} /\ (Len(t) = p + 5 => t[p + 5] \in Blank)

\* u is t and more.
Grown(t, u) ==
  /\ Len(t) \in Nat /\ Len(u) \in Nat /\ Len(t) <= Len(u)
  /\ \A i \in 1..Len(t) : u[i] = t[i]

LEMMA LineStays ==
  ASSUME NEW t, NEW u, Grown(t, u), NEW p \in Nat, p >= 2, NEW k \in {2, 3},
         NEW name, NEW id, NEW v, Len(v) \in Nat, Line(t, p, k, name, id, v)
  PROVE  Line(u, p, k, name, id, v)
<1> DEFINE a == TagEnd(p, k, id)
           w == Len(v)
<1>1. /\ a \in Nat /\ w \in Nat /\ Len(t) \in Nat
      /\ a >= p + k + 2 /\ (id # Null => a = p + k + 8)
      /\ a + w + 4 <= Len(t) /\ Len(t) <= Len(u)
      /\ \A i \in 1..Len(t) : u[i] = t[i]
  BY DEF Grown, Line, TagEnd
<1>2. /\ Opening(t, p, k, name) /\ Identified(t, p + k + 2, id) /\ t[a] = ">"
      /\ \A i \in 1..w : t[a + i] = v[i]
      /\ Closing(t, a + w + 1, name)
  BY DEF Line
<1> HIDE DEF a, w
<1>3. Opening(u, p, k, name)
  <2>1. p - 1 \in 1..Len(t) /\ p + k \in 1..Len(t) /\ p + k + 1 \in 1..Len(t)
        /\ \A i \in p..p + k - 1 : i \in 1..Len(t)
    BY <1>1
  <2> QED BY <1>1, <1>2, <2>1 DEF Opening
<1>4. Identified(u, p + k + 2, id)
  <2>1. CASE id = Null
    BY <2>1 DEF Identified
  <2>2. CASE id # Null
    <3> DEFINE q == p + k + 2
    <3>1. /\ q \in Nat /\ q \in 1..Len(t) /\ q + 1 \in 1..Len(t) /\ q + 2 \in 1..Len(t)
          /\ q + 3 \in 1..Len(t) /\ q + 4 \in 1..Len(t) /\ q + 5 \in 1..Len(t)
      BY <1>1, <2>2
    <3>2. Identified(t, q, id)
      BY <1>2
    <3> HIDE DEF q
    <3>3. /\ (q + 1) + 1 = q + 2 /\ (q + 1) + 2 = q + 3 /\ (q + 1) + 3 = q + 4
          /\ (q + 1) + 4 = q + 5
      BY <3>1
    <3>4. Identified(u, q, id)
      BY <1>1, <2>2, <3>1, <3>2, <3>3 DEF Identified, NumberedAt
    <3> QED BY <3>4 DEF q
  <2> QED BY <2>1, <2>2
<1>5. u[a] = ">" /\ \A i \in 1..w : u[a + i] = v[i]
  <2>1. a \in 1..Len(t) /\ \A i \in 1..w : a + i \in 1..Len(t)
    BY <1>1
  <2> QED BY <1>1, <1>2, <2>1
<1>6. Closing(u, a + w + 1, name)
  <2>1. /\ a + w + 1 \in 1..Len(t) /\ (a + w + 1) + 1 \in 1..Len(t)
        /\ (a + w + 1) + 2 \in 1..Len(t) /\ (a + w + 1) + 3 \in 1..Len(t)
    BY <1>1
  <2> QED BY <1>1, <1>2, <2>1 DEF Closing
<1>7. a + w + 4 <= Len(u)
  BY <1>1 DEF Grown
<1> QED BY <1>3, <1>4, <1>5, <1>6, <1>7 DEF Line, a, w

LEMMA GrowsOn ==
  ASSUME NEW t, NEW u, NEW w, Grown(t, u), Grown(u, w) PROVE Grown(t, w)
<1>1. \A i \in 1..Len(t) : i \in 1..Len(u)
  BY DEF Grown
<1> QED BY <1>1 DEF Grown

LEMMA OneLong == \A k : Len(Numeral(k)) = 1 /\ Numeral(k)[1] = ToString(k)
BY DEF Numeral

LEMMA TextAStays ==
  ASSUME NEW t, NEW u, Grown(t, u), NEW m, NEW k \in 0..3, TextA(t, m, k)
  PROVE  TextA(u, m, k)
<1>1. HeadLine(u, m)
  <2>0. Len(t) \in Nat /\ Len(t) >= 8 /\ Len(u) >= 8
    BY DEF Grown, TextA, HeadLine
  <2>1. \A i \in 1..8 : u[i] = t[i]
    BY <2>0 DEF Grown
  <2>2. u[1] = t[1] /\ u[2] = t[2] /\ u[3] = t[3] /\ u[4] = t[4] /\ u[5] = t[5]
        /\ u[6] = t[6] /\ u[7] = t[7] /\ u[8] = t[8]
    BY <2>1
  <2>3. HeadLine(t, m)
    BY DEF TextA
  <2> QED BY ONLY <2>0, <2>2, <2>3 DEF HeadLine, NumberedAt
<1>2. ASSUME NEW i \in 1..k PROVE FieldLine(u, m, i)
  <2>1. FieldLine(t, m, i) /\ 10 * i \in Nat /\ 10 * i >= 2
    BY DEF TextA
  <2> QED BY <2>1, OneLong, LineStays DEF FieldLine
<1> QED BY <1>1, <1>2 DEF TextA, Grown

LEMMA TextBStays ==
  ASSUME NEW t, NEW u, Grown(t, u), NEW m, NEW o, NEW j \in Nat,
         TextB(t, m, o, j)
  PROVE  TextB(u, m, o, j)
<1>1. TextA(u, m, 3)
  BY TextAStays DEF TextB
<1>2. ListTag(u)
  <2>1. Len(t) \in Nat /\ Len(t) >= 43
    BY DEF TextB, ListTag, Grown
  <2>2. \A i \in 39..43 : u[i] = t[i]
    BY <2>1 DEF Grown
  <2> QED BY <2>1, <2>2 DEF TextB, ListTag, Grown, Opening
<1>3. ASSUME NEW i \in 1..j PROVE TimeLine(u, m, o, i)
  <2>1. TimeLine(t, m, o, i) /\ 28 + 17 * i \in Nat /\ 28 + 17 * i >= 2
    BY DEF TextB
  <2> QED BY <2>1, OneLong, LineStays DEF TimeLine
<1> QED BY <1>1, <1>2, <1>3 DEF TextB

LEMMA ListEndStays ==
  ASSUME NEW t, NEW u, Grown(t, u), NEW o, Len(o) \in Nat, ListEnd(t, o)
  PROVE  ListEnd(u, o)
<1> DEFINE p == EndOfTimes(o)
<1>1. p \in Nat /\ p >= 45
  BY DEF EndOfTimes
<1>2. CASE Len(o) = 0
  BY <1>2 DEF Grown, ListEnd
<1>3. CASE Len(o) # 0
  <2> HIDE DEF p
  <2>1. /\ Len(t) >= p + 5 /\ t[p] \in Blank /\ t[p + 1] \in Blank
        /\ Closing(t, p + 2, "VectorTimes") /\ Len(t) \in Nat
    BY <1>3 DEF ListEnd, p, Grown
  <2>2. \A i \in p..p + 5 : u[i] = t[i]
    BY <1>1, <2>1 DEF Grown
  <2>3. u[p] \in Blank /\ u[p + 1] \in Blank /\ Closing(u, p + 2, "VectorTimes")
    BY <1>1, <2>1, <2>2 DEF Closing
  <2>4. Len(u) >= p + 5
    BY <1>1, <2>1 DEF Grown
  <2> QED BY <1>3, <2>3, <2>4 DEF ListEnd, p
<1> QED BY <1>2, <1>3

LEMMA TextCStays ==
  ASSUME NEW t, NEW u, Grown(t, u), NEW m, NEW o, Len(o) \in Nat, TextC(t, m, o)
  PROVE  TextC(u, m, o)
BY TextBStays, ListEndStays DEF TextC

LEMMA TextDStays ==
  ASSUME NEW t, NEW u, Grown(t, u), NEW m, NEW o, Len(o) \in Nat,
         Len(Encoded(m)) \in Nat, TextD(t, m, o)
  PROVE  TextD(u, m, o)
<1>1. BehindTimes(o) \in Nat /\ BehindTimes(o) >= 2
  BY DEF BehindTimes, EndOfTimes
<1> QED BY <1>1, TextCStays, LineStays DEF TextD, ContentLine
-----------------------------------------------------------------------------
(* What the printer appends                                                 *)

\* From s to e the symbols of u are appended.
Appended(s, e, u) ==
  /\ PrinterOK(e) /\ Grown(s.out, e.out) /\ Len(e.out) = Len(s.out) + Len(u)
  /\ \A i \in 1..Len(u) : e.out[Len(s.out) + i] = u[i]

LEMMA OutFacts ==
  ASSUME NEW s, PrinterOK(s)
  PROVE  /\ s.out \in Texts /\ Len(s.out) \in Nat
         /\ s.depth \in Int /\ s.textDepth \in Int
         /\ s.elementJustOpened \in BOOLEAN /\ s.firstElement \in BOOLEAN
BY LenProperties DEF PrinterOK, Texts

LEMMA EmitAppends ==
  ASSUME NEW s, PrinterOK(s), NEW u \in Texts
  PROVE  LET e == Emit(s, u)
         IN /\ Appended(s, e, u)
            /\ e.elementJustOpened = s.elementJustOpened
            /\ e.firstElement = s.firstElement
            /\ e.depth = s.depth /\ e.textDepth = s.textDepth
<1> DEFINE e == Emit(s, u)
           c == s.out \o u
<1>1. s.out \in Texts /\ Len(s.out) \in Nat
  BY OutFacts
<1>2. c \in Texts /\ Joined(c, s.out, u)
  BY <1>1, ConcatAt DEF Texts
<1> HIDE DEF c
<1>3. /\ PrinterOK(e) /\ e.out = c
      /\ e.elementJustOpened = s.elementJustOpened
      /\ e.firstElement = s.firstElement
      /\ e.depth = s.depth /\ e.textDepth = s.textDepth
  <2>1. e = [s EXCEPT !.out = c]
    BY DEF Emit, c
  <2> QED BY <1>2, <2>1 DEF PrinterOK
<1> HIDE DEF e
<1>4. Appended(s, e, u)
  BY <1>1, <1>2, <1>3 DEF Joined, Appended, Grown
<1> QED BY <1>3, <1>4 DEF e

\* Where an element may follow at the place p: the printer is in depth levels
\* of elements, and not in a text.
Ready(s, p, depth) ==
  /\ PrinterOK(s) /\ ~s.firstElement /\ s.depth = depth /\ s.textDepth = -1
  /\ IF s.elementJustOpened THEN Len(s.out) = p - 2
     ELSE Len(s.out) = p - 1 /\ s.out[p - 1] = ">"

\* The tag of an element has been begun, up to the place l.
InTheTag(s, l, depth) ==
  /\ PrinterOK(s) /\ ~s.firstElement /\ s.depth = depth /\ s.textDepth = -1
  /\ s.elementJustOpened /\ Len(s.out) = l

LEMMA TagIsReady ==
  ASSUME NEW s, NEW l \in Nat, NEW depth, InTheTag(s, l, depth)
  PROVE  Ready(s, l + 2, depth)
BY DEF InTheTag, Ready

LEMMA Seals ==
  ASSUME NEW s, PrinterOK(s)
  PROVE  LET e == SealElementIfJustOpened(s)
         IN /\ PrinterOK(e) /\ Grown(s.out, e.out) /\ ~e.elementJustOpened
            /\ e.firstElement = s.firstElement
            /\ e.depth = s.depth /\ e.textDepth = s.textDepth
            /\ IF s.elementJustOpened
               THEN /\ Len(e.out) = Len(s.out) + 1
                    /\ e.out[Len(s.out) + 1] = ">"
               ELSE e.out = s.out
<1> DEFINE e == SealElementIfJustOpened(s)
           c == Emit(s, <<">">>)
<1>1. CASE s.elementJustOpened
  <2>1. ">" \in Symbol \ {NUL}
    BY SomeSymbols
  <2>2. <<">">> \in Texts
    BY <2>1, ShortTexts DEF Texts
  <2>3. /\ Appended(s, c, <<">">>)
        /\ c.firstElement = s.firstElement
        /\ c.depth = s.depth /\ c.textDepth = s.textDepth
    BY <2>2, EmitAppends
  <2>4. e = [c EXCEPT !.elementJustOpened = FALSE]
    BY <1>1 DEF SealElementIfJustOpened
  <2> HIDE DEF c, e
  <2>5. /\ PrinterOK(e) /\ e.out = c.out /\ ~e.elementJustOpened
        /\ e.firstElement = s.firstElement
        /\ e.depth = s.depth /\ e.textDepth = s.textDepth
    BY <2>3, <2>4 DEF Appended, PrinterOK
  <2>6. Len(<<">">>) = 1 /\ <<">">>[1] = ">"
    OBVIOUS
  <2>7. /\ Grown(s.out, c.out) /\ Len(c.out) = Len(s.out) + 1
        /\ c.out[Len(s.out) + 1] = ">"
    BY <2>3, <2>6 DEF Appended
  <2> QED BY <1>1, <2>5, <2>7 DEF e
<1>2. CASE ~s.elementJustOpened
  <2>1. e = s
    BY <1>2 DEF SealElementIfJustOpened
  <2> QED BY <1>2, <2>1, OutFacts DEF Grown
<1> QED BY <1>1, <1>2

LEMMA SealsReady ==
  ASSUME NEW s, NEW p \in Nat, p >= 2, NEW depth, Ready(s, p, depth)
  PROVE  LET e == SealElementIfJustOpened(s)
         IN /\ Ready(e, p, depth) /\ ~e.elementJustOpened
            /\ Grown(s.out, e.out) /\ Len(e.out) = p - 1 /\ e.out[p - 1] = ">"
<1> DEFINE e == SealElementIfJustOpened(s)
<1>1. /\ PrinterOK(e) /\ Grown(s.out, e.out) /\ ~e.elementJustOpened
      /\ e.firstElement = s.firstElement
      /\ e.depth = s.depth /\ e.textDepth = s.textDepth
      /\ IF s.elementJustOpened
         THEN Len(e.out) = Len(s.out) + 1 /\ e.out[Len(s.out) + 1] = ">"
         ELSE e.out = s.out
  BY Seals DEF Ready
<1> HIDE DEF e
<1>2. Len(e.out) = p - 1 /\ e.out[p - 1] = ">"
  <2>1. (p - 2) + 1 = p - 1
    OBVIOUS
  <2> QED BY <1>1, <2>1 DEF Ready
<1>3. Ready(e, p, depth)
  BY <1>1, <1>2 DEF Ready
<1> QED BY <1>1, <1>2, <1>3 DEF e

LEMMA Spaces ==
  ASSUME NEW k \in Nat
  PROVE  /\ Space(k) \in Texts /\ Len(Space(k)) = k
         /\ \A i \in 1..k : Space(k)[i] \in Blank
<1>1. " " \in Symbol \ {NUL} /\ " " \in Blank
  BY SomeSymbols, BlankSymbols
<1>2. PICK c : c = " "
  OBVIOUS
<1>3. Space(k) = [i \in 1..k |-> c]
  BY <1>2, Zenon DEF Space
<1>4. c \in Symbol \ {NUL} /\ c \in Blank
  BY <1>1, <1>2, Zenon
<1> QED BY <1>3, <1>4, IsASeq DEF Texts

\* The line break and the indentation before a tag
LEMMA Indented ==
  ASSUME NEW k \in Nat
  PROVE  LET b == <<"\n">> \o Space(k)
         IN /\ b \in Texts /\ Len(b) = k + 1
            /\ \A i \in 1..k + 1 : b[i] \in Blank
<1>1. PICK c : c = "\n"
  OBVIOUS
<1>2. c \in Symbol \ {NUL} /\ c \in Blank
  <2>1. "\n" \in Symbol \ {NUL} /\ "\n" \in Blank
    BY SomeSymbols, BlankSymbols
  <2> QED BY <1>1, <2>1, Zenon
<1> DEFINE b == <<c>> \o Space(k)
<1>3. <<c>> \in Texts /\ Len(<<c>>) = 1 /\ <<c>>[1] = c
  BY <1>2, ShortTexts DEF Texts
<1>4. b \in Texts /\ Joined(b, <<c>>, Space(k))
  BY <1>3, Spaces, ConcatAt DEF Texts
<1>5. /\ Len(b) = 1 + k /\ b[1] = c
      /\ \A i \in 1..k : b[1 + i] \in Blank
  <2> DEFINE a == Space(k)
  <2>1. Len(a) = k /\ \A i \in 1..k : a[i] \in Blank
    BY Spaces
  <2>2. Joined(b, <<c>>, a)
    BY <1>4
  <2> HIDE DEF a, b
  <2>3. b[1] = c /\ \A i \in 1..Len(a) : b[1 + i] = a[i]
    BY <1>3, <2>2 DEF Joined
  <2>4. Len(b) = 1 + k
    BY <1>3, <2>1, <2>2 DEF Joined
  <2> QED BY <2>1, <2>3, <2>4
<1>6. \A i \in 1..k + 1 : b[i] \in Blank
  <2> HIDE DEF b
  <2>1. \A i \in 1..k + 1 : i = 1 \/ (i - 1 \in 1..k /\ 1 + (i - 1) = i)
    OBVIOUS
  <2> QED BY <1>2, <1>5, <2>1
<1>7. b = <<"\n">> \o Space(k)
  BY <1>1, Zenon
<1>8. Len(b) = k + 1
  BY <1>5
<1> QED BY <1>4, <1>6, <1>7, <1>8

LEMMA ElementOpens ==
  ASSUME NEW s, NEW p \in Nat, p >= 2, NEW depth \in Nat, Ready(s, p, depth),
         NEW name \in Symbol \ {NUL}
  PROVE  LET e == OpenElement(s, <<name>>)
         IN /\ InTheTag(e, p + depth + 2, depth + 1)
            /\ Grown(s.out, e.out) /\ Opening(e.out, p, depth + 1, name)
<1> DEFINE c == SealElementIfJustOpened(s)
           b == <<"\n">> \o Space(depth)
           u == b \o <<"<">> \o <<name>>
           f == Emit(c, u)
           e == OpenElement(s, <<name>>)
<1>1. /\ Ready(c, p, depth) /\ ~c.elementJustOpened
      /\ Grown(s.out, c.out) /\ Len(c.out) = p - 1 /\ c.out[p - 1] = ">"
  BY SealsReady
<1>2. NewLine(c) = <<"\n">>
  <2> HIDE DEF c
  <2>1. c.textDepth < 0 /\ ~c.firstElement
    BY <1>1 DEF Ready
  <2> QED BY <2>1, Zenon DEF NewLine
<1>3. /\ b \in Texts /\ Len(b) = depth + 1
      /\ \A i \in 1..depth + 1 : b[i] \in Blank
  BY Indented
<1> HIDE DEF b
<1>4. /\ u \in Texts /\ Len(u) = depth + 3
      /\ \A i \in 1..depth + 1 : u[i] \in Blank
      /\ u[depth + 2] = "<" /\ u[depth + 3] = name
  <2>1. "<" \in Symbol \ {NUL}
    BY SomeSymbols
  <2>2. /\ <<"<">> \in Texts /\ <<name>> \in Texts
        /\ Len(<<"<">>) = 1 /\ Len(<<name>>) = 1
        /\ <<"<">>[1] = "<" /\ <<name>>[1] = name
    BY <2>1, ShortTexts DEF Texts
  <2> DEFINE w == b \o <<"<">>
  <2>3. w \in Texts /\ Joined(w, b, <<"<">>)
    BY <1>3, <2>2, ConcatAt DEF Texts
  <2>4. u \in Texts /\ Joined(u, w, <<name>>)
    BY <2>2, <2>3, ConcatAt DEF Texts
  <2> HIDE DEF w, u
  <2>5. Len(w) = depth + 2 /\ \A i \in 1..Len(b) : w[i] = b[i]
    BY <1>3, <2>2, <2>3 DEF Joined
  <2>6. w[depth + 2] = "<"
    <3>1. 1 \in 1..Len(<<"<">>) /\ Len(b) + 1 = depth + 2
      BY <1>3, <2>2
    <3>2. \A i \in 1..Len(<<"<">>) : w[Len(b) + i] = <<"<">>[i]
      BY <2>3 DEF Joined
    <3>3. w[Len(b) + 1] = <<"<">>[1]
      BY <3>1, <3>2
    <3> QED BY <2>2, <3>1, <3>3
  <2>7. Len(u) = depth + 3 /\ \A i \in 1..depth + 2 : u[i] = w[i]
    BY <2>2, <2>4, <2>5 DEF Joined
  <2>8. u[depth + 3] = name
    <3>1. 1 \in 1..Len(<<name>>) /\ Len(w) + 1 = depth + 3
      BY <2>2, <2>5
    <3>2. \A i \in 1..Len(<<name>>) : u[Len(w) + i] = <<name>>[i]
      BY <2>4 DEF Joined
    <3>3. u[Len(w) + 1] = <<name>>[1]
      BY <3>1, <3>2
    <3> QED BY <2>2, <3>1, <3>3
  <2>9. \A i \in 1..depth + 1 : i \in 1..depth + 2 /\ i \in 1..Len(b)
    BY <1>3
  <2>10. \A i \in 1..depth + 1 : u[i] \in Blank
    BY <1>3, <2>5, <2>7, <2>9
  <2>11. u[depth + 2] = "<"
    BY <2>6, <2>7
  <2> QED BY <2>4, <2>7, <2>8, <2>10, <2>11
<1>5. e = [f EXCEPT !.elementJustOpened = TRUE, !.firstElement = FALSE,
                    !.depth = @ + 1]
  <2>1. NewLine(c) \o Space(c.depth) \o <<"<">> \o <<name>> = u
    <3>1. c.depth = depth
      BY <1>1 DEF Ready
    <3> HIDE DEF c
    <3> QED BY <1>2, <3>1, Zenon DEF b
  <2> HIDE DEF u
  <2> QED BY <2>1, Zenon DEF OpenElement, c, f
<1> HIDE DEF c, u
<1>6. Appended(c, f, u) /\ f.depth = depth /\ f.textDepth = -1
  BY <1>1, <1>4, EmitAppends DEF Ready
<1> HIDE DEF f, e
<1>7. /\ PrinterOK(e) /\ e.out = f.out /\ e.elementJustOpened /\ ~e.firstElement
      /\ e.depth = depth + 1 /\ e.textDepth = -1
  <2> DEFINE k == depth + 1
             g == [f EXCEPT !.elementJustOpened = TRUE,
                            !.firstElement = FALSE, !.depth = k]
  <2>1. PrinterOK(f) /\ f.depth = depth /\ f.textDepth = -1
    BY <1>6 DEF Appended
  <2>2. e = g
    BY <1>5, <2>1 DEF PrinterOK
  <2>3. k \in Int
    OBVIOUS
  <2> HIDE DEF k
  <2>4. /\ PrinterOK(g) /\ g.out = f.out /\ g.elementJustOpened /\ ~g.firstElement
        /\ g.depth = k /\ g.textDepth = -1
    BY <2>1, <2>3 DEF PrinterOK
  <2> HIDE DEF g
  <2> QED BY <2>2, <2>4 DEF k
<1>8. /\ Grown(c.out, e.out) /\ Len(e.out) = p + depth + 2
      /\ \A i \in 1..depth + 3 : e.out[p - 1 + i] = u[i]
  <2>1. /\ Grown(c.out, e.out) /\ Len(e.out) = Len(c.out) + Len(u)
        /\ \A i \in 1..Len(u) : e.out[Len(c.out) + i] = u[i]
    BY <1>6, <1>7 DEF Appended
  <2>2. Len(c.out) = p - 1 /\ Len(u) = depth + 3
    BY <1>1, <1>4
  <2>3. (p - 1) + (depth + 3) = p + depth + 2
    OBVIOUS
  <2> QED BY <2>1, <2>2, <2>3
<1>9. InTheTag(e, p + depth + 2, depth + 1)
  BY <1>7, <1>8 DEF InTheTag
<1>10. Grown(s.out, e.out)
  BY <1>1, <1>8, GrowsOn
<1>11. Opening(e.out, p, depth + 1, name)
  <2>1. e.out[p - 1] = ">"
    BY <1>1, <1>8 DEF Grown
  <2>2. \A i \in p..p + (depth + 1) - 1 :
          i - p + 1 \in 1..depth + 3 /\ i - p + 1 \in 1..depth + 1
          /\ p - 1 + (i - p + 1) = i
    OBVIOUS
  <2>3. \A i \in p..p + (depth + 1) - 1 : e.out[i] \in Blank
    <3>1. ASSUME NEW i \in p..p + (depth + 1) - 1 PROVE e.out[i] \in Blank
      <4>1. e.out[p - 1 + (i - p + 1)] = u[i - p + 1]
        BY <1>8, <2>2
      <4> QED BY <1>4, <2>2, <4>1
    <3> QED BY <3>1
  <2>4. /\ depth + 2 \in 1..depth + 3 /\ p - 1 + (depth + 2) = p + (depth + 1)
        /\ depth + 3 \in 1..depth + 3 /\ p - 1 + (depth + 3) = p + (depth + 1) + 1
    OBVIOUS
  <2>5. e.out[p + (depth + 1)] = "<" /\ e.out[p + (depth + 1) + 1] = name
    BY <1>4, <1>8, <2>4
  <2> QED BY <2>1, <2>3, <2>5 DEF Opening
<1> QED BY <1>9, <1>10, <1>11 DEF e

\* The tag of the message itself
LEMMA FirstTagOpens ==
  ASSUME NEW name \in Symbol \ {NUL}
  PROVE  LET e == OpenElement(FirstPrinter, <<name>>)
         IN InTheTag(e, 2, 1) /\ e.out = <<"<", name>>
<1> DEFINE e == OpenElement(FirstPrinter, <<name>>)
<1>1. SealElementIfJustOpened(FirstPrinter) = FirstPrinter
  BY DEF SealElementIfJustOpened, FirstPrinter
<1>2. NewLine(FirstPrinter) \o Space(FirstPrinter.depth) \o <<"<">> \o <<name>>
        = <<"<", name>>
  <2>1. NewLine(FirstPrinter) = <<>>
    BY Zenon DEF NewLine, FirstPrinter
  <2>2. FirstPrinter.depth = 0
    BY DEF FirstPrinter
  <2>3. "<" \in Symbol \ {NUL}
    BY SomeSymbols
  <2>4. Space(0) = <<>>
    <3>1. Space(0) \in Texts /\ Len(Space(0)) = 0
      BY Spaces
    <3> QED BY <3>1, EmptySeq DEF Texts
  <2>5. <<>> \o <<>> \o <<"<">> = <<"<">>
    <3>1. <<>> \o <<>> = <<>> /\ <<>> \o <<"<">> = <<"<">>
      OBVIOUS
    <3> QED BY <3>1
  <2> QED BY <2>1, <2>2, <2>4, <2>5, PairOf
<1>3. e = [out |-> <<>> \o <<"<", name>>, elementJustOpened |-> TRUE,
           firstElement |-> FALSE, depth |-> 1, textDepth |-> -1]
  <2> DEFINE u == <<"<", name>>
             f == Emit(FirstPrinter, u)
  <2>1. e = [f EXCEPT !.elementJustOpened = TRUE, !.firstElement = FALSE,
                      !.depth = @ + 1]
    BY <1>1, <1>2, Zenon DEF OpenElement
  <2> DEFINE w == <<>> \o u
  <2> HIDE DEF u, w
  <2>2. f = [out |-> w, elementJustOpened |-> FALSE,
             firstElement |-> TRUE, depth |-> 0, textDepth |-> -1]
    <3>1. f = [FirstPrinter EXCEPT !.out = FirstPrinter.out \o u]
      BY DEF Emit
    <3>2. FirstPrinter.out = <<>>
      BY DEF FirstPrinter
    <3>3. f = [FirstPrinter EXCEPT !.out = w]
      BY <3>1, <3>2, Zenon DEF w
    <3> HIDE DEF f
    <3> QED BY <3>3 DEF FirstPrinter
  <2> HIDE DEF f, e
  <2>3. f.depth + 1 = 1
    BY <2>2
  <2>4. e = [f EXCEPT !.elementJustOpened = TRUE, !.firstElement = FALSE,
                      !.depth = 1]
    BY <2>1, <2>2, <2>3
  <2>5. e = [out |-> w, elementJustOpened |-> TRUE,
             firstElement |-> FALSE, depth |-> 1, textDepth |-> -1]
    BY <2>2, <2>4
  <2> QED BY <2>5 DEF u, e, w
<1>4. "<" \in Symbol \ {NUL}
  BY SomeSymbols
<1>5. <<"<", name>> \in Texts /\ Len(<<"<", name>>) = 2
      /\ <<>> \o <<"<", name>> = <<"<", name>>
  BY <1>4, ShortTexts DEF Texts
<1> DEFINE u == <<"<", name>>
<1>6. e = [out |-> u, elementJustOpened |-> TRUE, firstElement |-> FALSE,
           depth |-> 1, textDepth |-> -1]
  BY <1>3, <1>5
<1>7. u \in Texts /\ Len(u) = 2
  BY <1>5
<1> HIDE DEF e, u
<1>8. InTheTag(e, 2, 1) /\ e.out = u
  BY <1>6, <1>7 DEF InTheTag, PrinterOK
<1> QED BY <1>8 DEF e, u

LEMMA OneMore ==
  ASSUME NEW u \in Texts, NEW x \in Symbol \ {NUL}
  PROVE  LET w == u \o <<x>>
         IN /\ w \in Texts /\ Len(u) \in Nat /\ Len(w) = Len(u) + 1
            /\ w[Len(u) + 1] = x /\ \A i \in 1..Len(u) : w[i] = u[i]
<1> DEFINE w == u \o <<x>>
<1>1. <<x>> \in Texts /\ Len(<<x>>) = 1 /\ <<x>>[1] = x
  BY ShortTexts DEF Texts
<1>2. w \in Texts /\ Joined(w, u, <<x>>)
  BY <1>1, ConcatAt DEF Texts
<1> HIDE DEF w
<1>3. 1 \in 1..Len(<<x>>)
  BY <1>1
<1>4. w[Len(u) + 1] = <<x>>[1]
  BY <1>2, <1>3 DEF Joined
<1>5. Len(u) \in Nat /\ Len(w) = Len(u) + 1 /\ \A i \in 1..Len(u) : w[i] = u[i]
  BY <1>1, <1>2 DEF Joined
<1> QED BY <1>1, <1>2, <1>4, <1>5 DEF w

\* w is u and x behind it, at the place k.
Longer(w, u, x, k) ==
  /\ w \in Texts /\ Len(w) = k /\ Len(u) = k - 1
  /\ w[k] = x /\ \A i \in 1..k - 1 : w[i] = u[i]

LEMMA NextOne ==
  ASSUME NEW u \in Texts, NEW x \in Symbol \ {NUL}, NEW k \in Nat, Len(u) = k - 1
  PROVE  Longer(u \o <<x>>, u, x, k)
<1> DEFINE w == u \o <<x>>
<1>1. /\ w \in Texts /\ Len(u) \in Nat /\ Len(w) = Len(u) + 1
      /\ w[Len(u) + 1] = x /\ \A i \in 1..Len(u) : w[i] = u[i]
  BY OneMore
<1> HIDE DEF w
<1>2. Len(u) + 1 = k
  OBVIOUS
<1>3. Len(w) = k /\ w[k] = x
  BY <1>1, <1>2
<1>4. Longer(w, u, x, k)
  BY <1>1, <1>3 DEF Longer
<1> QED BY <1>4 DEF w

LEMMA FourMore ==
  ASSUME NEW a \in Symbol \ {NUL}, NEW b \in Symbol \ {NUL},
         NEW c \in Symbol \ {NUL}, NEW d \in Symbol \ {NUL}
  PROVE  LET w == (<<a, b>> \o <<c>>) \o <<d>>
         IN /\ w \in Texts /\ Len(w) = 4
            /\ w[1] = a /\ w[2] = b /\ w[3] = c /\ w[4] = d
<1> DEFINE u == <<a, b>> \o <<c>>
           w == u \o <<d>>
<1>1. <<a, b>> \in Texts /\ Len(<<a, b>>) = 2 /\ <<a, b>>[1] = a /\ <<a, b>>[2] = b
  BY ShortTexts DEF Texts
<1>2. Longer(u, <<a, b>>, c, 3)
  <2>1. Len(<<a, b>>) = 3 - 1
    BY <1>1
  <2> QED BY <1>1, <2>1, NextOne
<1> HIDE DEF u
<1>3. u \in Texts /\ Len(u) = 3 /\ u[1] = a /\ u[2] = b /\ u[3] = c
  BY <1>1, <1>2 DEF Longer
<1>4. Longer(w, u, d, 4)
  <2>1. Len(u) = 4 - 1
    BY <1>3
  <2> QED BY <1>3, <2>1, NextOne
<1> HIDE DEF w
<1>5. Len(w) = 4 /\ w[1] = a /\ w[2] = b /\ w[3] = c /\ w[4] = d
  BY <1>3, <1>4 DEF Longer
<1> QED BY <1>4, <1>5 DEF w, u, Longer

LEMMA NumeralIsPlain ==
  ASSUME NEW k \in Numbers, NEW F \in SUBSET DOMAIN entities
  PROVE  PrintString(Numeral(k), F) = Numeral(k)
<1>1. ToString(k) \notin F
  BY NumeralFacts DEF Markup
<1>2. DOMAIN Numeral(k) = {1} /\ Numeral(k)[1] = ToString(k)
  BY DEF Numeral
<1>3. PrintString(Numeral(k), F) = [i \in {1} |-> ToString(k)]
  BY <1>1, <1>2 DEF PrintString
<1>4. Numeral(k) = [i \in {1} |-> ToString(k)]
  BY DEF Numeral
<1> QED BY <1>3, <1>4

LEMMA AttributeIsPushed ==
  ASSUME NEW s, NEW l \in Nat, NEW depth, InTheTag(s, l, depth),
         NEW name \in Symbol \ {NUL}, NEW k \in Numbers
  PROVE  LET e == PushAttribute(s, NumberAttribute(name, k))
         IN /\ InTheTag(e, l + 6, depth) /\ Grown(s.out, e.out)
            /\ e.out[l + 1] = OneBlank /\ NumberedAt(e.out, l + 2, name, k)
<1> DEFINE n == ToString(k)
           b == OneBlank
           q == Quote
           u1 == <<b>> \o <<name>>
           u2 == u1 \o <<"=">>
           u3 == u2 \o <<q>>
           u4 == u3 \o <<n>>
           u == u4 \o <<q>>
           e == PushAttribute(s, NumberAttribute(name, k))
<1>1. /\ b \in Symbol \ {NUL} /\ q \in Symbol \ {NUL} /\ "=" \in Symbol \ {NUL}
      /\ n \in Symbol \ {NUL}
  <2>1. OneBlank \in Symbol \ {NUL} /\ Quote \in Symbol \ {NUL}
        /\ "=" \in Symbol \ {NUL}
    BY SomeSymbols, Zenon DEF OneBlank, Quote
  <2>2. n \in Symbol \ {NUL}
    BY NumeralFacts DEF Markup
  <2> QED BY <2>1, <2>2
<1> HIDE DEF b, q, n
<1>2. <<b>> \in Texts /\ Len(<<b>>) = 1 /\ <<b>>[1] = b
  BY <1>1, ShortTexts DEF Texts
<1>3. Longer(u1, <<b>>, name, 2)
  <2>1. Len(<<b>>) = 2 - 1
    BY <1>2
  <2> QED BY <1>2, <2>1, NextOne
<1> HIDE DEF u1
<1>4. u1 \in Texts /\ Len(u1) = 2 /\ u1[2] = name /\ u1[1] = b
  BY <1>2, <1>3 DEF Longer
<1>5. Longer(u2, u1, "=", 3)
  <2>1. Len(u1) = 3 - 1
    BY <1>4
  <2> QED BY <1>1, <1>4, <2>1, NextOne
<1> HIDE DEF u2
<1>6. u2 \in Texts /\ Len(u2) = 3 /\ u2[1] = b /\ u2[2] = name /\ u2[3] = "="
  BY <1>4, <1>5 DEF Longer
<1>7. Longer(u3, u2, q, 4)
  <2>1. Len(u2) = 4 - 1
    BY <1>6
  <2> QED BY <1>1, <1>6, <2>1, NextOne
<1> HIDE DEF u3
<1>8. /\ u3 \in Texts /\ Len(u3) = 4
      /\ u3[1] = b /\ u3[2] = name /\ u3[3] = "=" /\ u3[4] = q
  BY <1>6, <1>7 DEF Longer
<1>9. Longer(u4, u3, n, 5)
  <2>1. Len(u3) = 5 - 1
    BY <1>8
  <2> QED BY <1>1, <1>8, <2>1, NextOne
<1> HIDE DEF u4
<1>10. /\ u4 \in Texts /\ Len(u4) = 5
       /\ u4[1] = b /\ u4[2] = name /\ u4[3] = "=" /\ u4[4] = q /\ u4[5] = n
  BY <1>8, <1>9 DEF Longer
<1>11. Longer(u, u4, q, 6)
  <2>1. Len(u4) = 6 - 1
    BY <1>10
  <2> QED BY <1>1, <1>10, <2>1, NextOne
<1> HIDE DEF u
<1>12. /\ u \in Texts /\ Len(u) = 6 /\ u[1] = b /\ u[2] = name /\ u[3] = "="
       /\ u[4] = q /\ u[5] = n /\ u[6] = q
  BY <1>10, <1>11 DEF Longer
<1>13. e = Emit(s, u)
  <2> DEFINE a == NumberAttribute(name, k)
  <2>1. a.name = <<name>> /\ a.value = Numeral(k)
    BY DEF NumberAttribute
  <2>2. PrintString(a.value, DOMAIN entities) = <<n>>
    BY <2>1, NumeralIsPlain DEF n, Numeral
  <2>3. u1 \o <<"=", q>> = u3
    <3>1. <<"=">> \o <<q>> = <<"=", q>>
      BY PairOf
    <3>2. (u1 \o <<"=">>) \o <<q>> = u1 \o (<<"=">> \o <<q>>)
      <4>1. <<"=">> \in Texts /\ <<q>> \in Texts
        BY <1>1, ShortTexts DEF Texts
      <4> QED BY <1>4, <4>1, TextsAssociate
    <3> QED BY <3>1, <3>2 DEF u2, u3
  <2>4. <<" ">> \o a.name \o <<"=", "\"">> \o PrintString(a.value, DOMAIN entities)
          \o <<"\"">> = u
    <3>1. ((u1 \o <<"=", q>>) \o <<n>>) \o <<q>> = u
      BY <2>3, Zenon DEF u4, u
    <3>2. u1 = <<" ">> \o a.name
      BY <2>1, Zenon DEF u1, b, OneBlank
    <3> HIDE DEF a
    <3> QED BY <2>2, <3>1, <3>2, Zenon DEF q, Quote
  <2> HIDE DEF a
  <2>5. PushAttribute(s, a) = Emit(s, u)
    BY <2>4, Zenon DEF PushAttribute
  <2> QED BY <2>5 DEF a
<1> HIDE DEF e
<1>14. /\ Appended(s, e, u) /\ e.elementJustOpened /\ ~e.firstElement
       /\ e.depth = depth /\ e.textDepth = -1 /\ Len(s.out) = l
  BY <1>12, <1>13, EmitAppends DEF InTheTag
<1>15. InTheTag(e, l + 6, depth) /\ Grown(s.out, e.out)
  BY <1>12, <1>14 DEF Appended, InTheTag
<1>16. \A i \in 1..6 : e.out[l + i] = u[i]
  BY <1>12, <1>14 DEF Appended
<1>17. e.out[l + 1] = b /\ NumberedAt(e.out, l + 2, name, k)
  <2>1. /\ e.out[l + 1] = b /\ e.out[l + 2] = name /\ e.out[l + 3] = "="
        /\ e.out[l + 4] = q /\ e.out[l + 5] = n /\ e.out[l + 6] = q
    BY <1>12, <1>16
  <2>2. /\ (l + 2) + 1 = l + 3 /\ (l + 2) + 2 = l + 4 /\ (l + 2) + 3 = l + 5
        /\ (l + 2) + 4 = l + 6
    OBVIOUS
  <2> QED BY <2>1, <2>2 DEF NumberedAt, q, n
<1> QED BY <1>15, <1>17 DEF e, b

\* The text of the element has been printed, up to the place l.
InTheText(s, l, depth) ==
  /\ PrinterOK(s) /\ ~s.firstElement /\ s.depth = depth /\ s.textDepth = depth - 1
  /\ ~s.elementJustOpened /\ Len(s.out) = l

LEMMA TextIsEncoded ==
  ASSUME NEW v \in Texts
  PROVE  LET u == PrintString(v, restrictedEntities)
         IN /\ u \in Plain /\ u \in Texts /\ Len(u) = Len(v) /\ Len(v) \in Nat
            /\ DOMAIN u = 1..Len(v)
<1>1. restrictedEntities \in SUBSET DOMAIN entities /\ "<" \in restrictedEntities
  BY SomeSymbols DEF restrictedEntities
<1> DEFINE u == PrintString(v, restrictedEntities)
<1>2. u \in Plain
  BY <1>1, EncodedIsPlain
<1>3. u \in Texts
  BY <1>2, SeqMonotonic DEF Plain, Texts
<1>4. Len(v) \in Nat /\ DOMAIN v = 1..Len(v)
  BY LenProperties DEF Texts
<1>5. DOMAIN u = 1..Len(v)
  BY <1>4 DEF PrintString
<1>6. DOMAIN u = 1..Len(u) /\ Len(u) \in Nat
  BY <1>3, LenProperties DEF Texts
<1>7. Len(u) = Len(v)
  BY <1>4, <1>5, <1>6, SameEnd
<1> QED BY <1>2, <1>3, <1>4, <1>5, <1>7

LEMMA TextIsPushed ==
  ASSUME NEW s, NEW l \in Nat, NEW depth \in Nat, InTheTag(s, l, depth),
         NEW v \in Texts
  PROVE  LET e == PushText(s, "text", v)
             u == PrintString(v, restrictedEntities)
         IN /\ InTheText(e, l + 1 + Len(u), depth) /\ Grown(s.out, e.out)
            /\ e.out[l + 1] = ">" /\ \A i \in 1..Len(u) : e.out[l + 1 + i] = u[i]
<1> DEFINE u == PrintString(v, restrictedEntities)
           c == SealElementIfJustOpened(s)
           k == depth - 1
           f == [c EXCEPT !.textDepth = k]
           e == PushText(s, "text", v)
<1>1. /\ PrinterOK(c) /\ Grown(s.out, c.out) /\ ~c.elementJustOpened
      /\ ~c.firstElement /\ c.depth = depth
      /\ Len(c.out) = l + 1 /\ c.out[l + 1] = ">"
  BY Seals DEF InTheTag
<1>2. u \in Texts /\ Len(u) \in Nat
  BY TextIsEncoded
<1>3. e = Emit(f, u)
  <2>1. s.depth - 1 = k
    BY DEF InTheTag
  <2>2. "text" # "cdata"
    OBVIOUS
  <2> QED BY <2>1, <2>2 DEF PushText
<1> HIDE DEF c, u
<1>4. /\ PrinterOK(f) /\ f.out = c.out /\ ~f.elementJustOpened /\ ~f.firstElement
      /\ f.depth = depth /\ f.textDepth = k
  <2>1. k \in Int
    OBVIOUS
  <2> HIDE DEF k
  <2> QED BY <1>1, <2>1 DEF PrinterOK
<1> HIDE DEF f, e
<1>5. /\ Appended(f, e, u) /\ ~e.elementJustOpened /\ ~e.firstElement
      /\ e.depth = depth /\ e.textDepth = k
  BY <1>2, <1>3, <1>4, EmitAppends
<1>6. /\ Grown(c.out, e.out) /\ Len(e.out) = l + 1 + Len(u)
      /\ \A i \in 1..Len(u) : e.out[l + 1 + i] = u[i]
  BY <1>1, <1>4, <1>5 DEF Appended
<1>7. InTheText(e, l + 1 + Len(u), depth)
  BY <1>5, <1>6 DEF InTheText, Appended
<1>8. e.out[l + 1] = ">"
  BY <1>1, <1>6 DEF Grown
<1>9. Grown(s.out, e.out)
  BY <1>1, <1>6, GrowsOn
<1> QED BY <1>6, <1>7, <1>8, <1>9 DEF e, u

LEMMA CloseAppends ==
  ASSUME NEW s, PrinterOK(s), NEW name, EndOf(s, name) \in Texts
  PROVE  LET e == CloseElement(s, name)
         IN /\ Appended(s, e, EndOf(s, name)) /\ ~e.elementJustOpened
            /\ e.firstElement = s.firstElement /\ e.depth = s.depth - 1
            /\ e.textDepth = IF s.textDepth = s.depth - 1 THEN -1 ELSE s.textDepth
<1> DEFINE d == s.depth - 1
           t == IF s.textDepth = d THEN -1 ELSE s.textDepth
           u == EndOf(s, name)
           f == Emit(s, u)
           e == [f EXCEPT !.depth = d, !.elementJustOpened = FALSE,
                          !.textDepth = t]
<1>1. CloseElement(s, name) =
        [f EXCEPT !.depth = d, !.elementJustOpened = FALSE,
                  !.textDepth = IF @ = d THEN -1 ELSE @]
  BY Zenon DEF CloseElement, EndOf
<1>2. d \in Int /\ t \in Int
  BY DEF PrinterOK
<1> HIDE DEF u
<1>3. /\ Appended(s, f, u) /\ f.firstElement = s.firstElement
      /\ f.textDepth = s.textDepth
  <2>1. u \in Texts
    BY DEF u
  <2> QED BY <2>1, EmitAppends
<1>4. CloseElement(s, name) = e
  BY <1>1, <1>3 DEF Appended, PrinterOK
<1> HIDE DEF f, d, t
<1>5. /\ PrinterOK(e) /\ e.out = f.out /\ ~e.elementJustOpened
      /\ e.firstElement = f.firstElement /\ e.depth = d /\ e.textDepth = t
  BY <1>2, <1>3 DEF Appended, PrinterOK
<1> HIDE DEF e
<1>6. Appended(s, e, u)
  BY <1>3, <1>5 DEF Appended
<1> QED BY <1>3, <1>4, <1>5, <1>6 DEF u, d, t

\* The end tag behind a layout
TagOf(name) == (<<"<", "/">> \o <<name>>) \o <<">">>

LEMMA TagOfName ==
  ASSUME NEW name \in Symbol \ {NUL}
  PROVE  LET w == TagOf(name)
         IN /\ w \in Texts /\ Len(w) = 4 /\ Closing(w, 1, name)
            /\ \A a \in Texts : ((a \o <<"<", "/">>) \o <<name>>) \o <<">">> = a \o w
<1>1. "<" \in Symbol \ {NUL} /\ "/" \in Symbol \ {NUL} /\ ">" \in Symbol \ {NUL}
  BY SomeSymbols
<1> DEFINE w == TagOf(name)
<1>2. /\ w \in Texts /\ Len(w) = 4
      /\ w[1] = "<" /\ w[2] = "/" /\ w[3] = name /\ w[4] = ">"
  BY <1>1, FourMore DEF TagOf
<1>3. ASSUME NEW a \in Texts
      PROVE  ((a \o <<"<", "/">>) \o <<name>>) \o <<">">> = a \o w
  <2> DEFINE x == <<"<", "/">>
             y == <<name>>
             z == <<">">>
  <2>1. x \in Texts /\ y \in Texts /\ z \in Texts
    BY <1>1, ShortTexts DEF Texts
  <2> HIDE DEF x, y, z
  <2>2. a \o x \in Texts /\ x \o y \in Texts
    BY <2>1, ConcatProperties DEF Texts
  <2>3. ((a \o x) \o y) \o z = (a \o (x \o y)) \o z
    BY <2>1, TextsAssociate
  <2>4. (a \o (x \o y)) \o z = a \o ((x \o y) \o z)
    BY <2>1, <2>2, TextsAssociate
  <2> QED BY <2>3, <2>4 DEF x, y, z, TagOf
<1> HIDE DEF w
<1>4. Closing(w, 1, name)
  BY <1>2 DEF Closing
<1> QED BY <1>2, <1>3, <1>4 DEF w

\* The tag comes behind a in c.
LEMMA TagBehind ==
  ASSUME NEW a \in Texts, NEW l \in Nat, Len(a) = l, NEW name \in Symbol \ {NUL}
  PROVE  LET c == ((a \o <<"<", "/">>) \o <<name>>) \o <<">">>
         IN /\ c \in Texts /\ Len(c) = l + 4 /\ Closing(c, l + 1, name)
            /\ \A i \in 1..l : c[i] = a[i]
<1> DEFINE w == TagOf(name)
           c == a \o w
<1>1. /\ w \in Texts /\ Len(w) = 4 /\ Closing(w, 1, name)
      /\ ((a \o <<"<", "/">>) \o <<name>>) \o <<">">> = c
  BY TagOfName
<1> HIDE DEF w
<1>2. c \in Texts /\ Joined(c, a, w)
  BY <1>1, ConcatAt DEF Texts
<1> HIDE DEF c
<1>3. Len(c) = l + 4 /\ \A i \in 1..l : c[i] = a[i]
  BY <1>1, <1>2 DEF Joined
<1>4. \A i \in 1..4 : c[l + i] = w[i]
  BY <1>1, <1>2 DEF Joined
<1>5. c[l + 1] = w[1] /\ c[l + 2] = w[2] /\ c[l + 3] = w[3] /\ c[l + 4] = w[4]
  BY <1>4
<1>6. Closing(c, l + 1, name)
  <2>1. (l + 1) + 1 = l + 2 /\ (l + 1) + 2 = l + 3 /\ (l + 1) + 3 = l + 4
    OBVIOUS
  <2>2. w[1] = "<" /\ w[2] = "/" /\ w[3] = name /\ w[4] = ">"
    BY <1>1 DEF Closing
  <2> QED BY <1>5, <2>1, <2>2 DEF Closing
<1> QED BY <1>1, <1>2, <1>3, <1>6

\* An end tag at once behind the text
LEMMA TextCloses ==
  ASSUME NEW s, NEW l \in Nat, NEW depth \in Nat, depth >= 2,
         InTheText(s, l, depth), NEW name \in Symbol \ {NUL}
  PROVE  LET e == CloseElement(s, <<name>>)
         IN /\ Ready(e, l + 5, depth - 1) /\ ~e.elementJustOpened
            /\ Grown(s.out, e.out) /\ Closing(e.out, l + 1, name)
<1> DEFINE a == <<>>
           u == ((a \o <<"<", "/">>) \o <<name>>) \o <<">">>
           e == CloseElement(s, <<name>>)
<1>1. a \in Texts /\ Len(a) = 0
  BY EmptySeq DEF Texts
<1>2. u \in Texts /\ Len(u) = 0 + 4 /\ Closing(u, 0 + 1, name)
  BY <1>1, TagBehind
<1> HIDE DEF a
<1>3. EndOf(s, <<name>>) = u
  <2>1. /\ s.depth = depth /\ s.textDepth = depth - 1 /\ ~s.elementJustOpened
        /\ ~(s.textDepth < 0) /\ s.depth - 1 # 0
    BY DEF InTheText
  <2>2. u \o <<>> = u
    BY <1>2, ConcatEmptySeq DEF Texts
  <2> HIDE DEF u
  <2>3. u = <<>> \o <<"<", "/">> \o <<name>> \o <<">">>
    BY DEF u, a
  <2> QED BY <2>1, <2>2, <2>3, Zenon DEF EndOf
<1> HIDE DEF u
<1>4. /\ Appended(s, e, u) /\ ~e.elementJustOpened /\ ~e.firstElement
      /\ e.depth = depth - 1 /\ e.textDepth = -1
  BY <1>2, <1>3, CloseAppends DEF InTheText
<1> HIDE DEF e
<1>5. u[1] = "<" /\ u[2] = "/" /\ u[3] = name /\ u[4] = ">" /\ Len(u) = 4
  BY <1>2 DEF Closing
<1>6. Len(e.out) = l + 4 /\ \A i \in 1..4 : e.out[l + i] = u[i]
  BY <1>4, <1>5 DEF Appended, InTheText
<1>7. /\ e.out[l + 1] = "<" /\ e.out[l + 2] = "/" /\ e.out[l + 3] = name
      /\ e.out[l + 4] = ">"
  BY <1>5, <1>6
<1>8. /\ (l + 1) + 1 = l + 2 /\ (l + 1) + 2 = l + 3 /\ (l + 1) + 3 = l + 4
      /\ (l + 5) - 1 = l + 4
  OBVIOUS
<1>9. Closing(e.out, l + 1, name)
  BY <1>7, <1>8 DEF Closing
<1>10. Ready(e, l + 5, depth - 1)
  BY <1>4, <1>6, <1>7, <1>8 DEF Ready, Appended
<1> QED BY <1>4, <1>9, <1>10 DEF e, Appended

\* An end tag behind a line break and k blanks
TagLine(u, k, name) ==
  /\ u \in Texts /\ Len(u) = k + 5
  /\ \A i \in 1..k + 1 : u[i] \in Blank
  /\ u[k + 2] = "<" /\ u[k + 3] = "/" /\ u[k + 4] = name /\ u[k + 5] = ">"

LEMMA IndentedTag ==
  ASSUME NEW k \in Nat, NEW name \in Symbol \ {NUL}
  PROVE  LET u == (((<<"\n">> \o Space(k)) \o <<"<", "/">>) \o <<name>>) \o <<">">>
         IN TagLine(u, k, name)
<1> DEFINE a == <<"\n">> \o Space(k)
           u == ((a \o <<"<", "/">>) \o <<name>>) \o <<">">>
<1>1. a \in Texts /\ Len(a) = k + 1 /\ \A i \in 1..k + 1 : a[i] \in Blank
  BY Indented
<1> HIDE DEF a
<1>2. /\ u \in Texts /\ Len(u) = (k + 1) + 4 /\ Closing(u, (k + 1) + 1, name)
      /\ \A i \in 1..k + 1 : u[i] = a[i]
  BY <1>1, TagBehind
<1> HIDE DEF u
<1>3. /\ (k + 1) + 1 = k + 2 /\ (k + 2) + 1 = k + 3 /\ (k + 2) + 2 = k + 4
      /\ (k + 2) + 3 = k + 5
  OBVIOUS
<1>4. u[k + 2] = "<" /\ u[k + 3] = "/" /\ u[k + 4] = name /\ u[k + 5] = ">"
  BY <1>2, <1>3 DEF Closing
<1>5. Len(u) = k + 5
  BY <1>2
<1> QED BY <1>1, <1>2, <1>4, <1>5 DEF u, a, TagLine

LEMMA ListCloses ==
  ASSUME NEW s, NEW p \in Nat, p >= 2, Ready(s, p, 2), ~s.elementJustOpened,
         NEW name \in Symbol \ {NUL}
  PROVE  LET e == CloseElement(s, <<name>>)
         IN /\ Ready(e, p + 6, 1) /\ ~e.elementJustOpened
            /\ Grown(s.out, e.out) /\ Closing(e.out, p + 2, name)
            /\ e.out[p] \in Blank /\ e.out[p + 1] \in Blank
<1> DEFINE a == <<"\n">> \o Space(1)
           u == ((a \o <<"<", "/">>) \o <<name>>) \o <<">">>
           e == CloseElement(s, <<name>>)
<1>0. TagLine(u, 1, name)
  BY IndentedTag
<1> HIDE DEF u
<1>1. u \in Texts
  BY <1>0 DEF TagLine
<1>2. /\ Len(u) = 6 /\ u[1] \in Blank /\ u[2] \in Blank
      /\ u[3] = "<" /\ u[4] = "/" /\ u[5] = name /\ u[6] = ">"
  BY <1>0 DEF TagLine
<1>3. EndOf(s, <<name>>) = u
  <2>1. /\ s.depth - 1 = 1 /\ ~s.elementJustOpened /\ s.textDepth < 0 /\ 1 # 0
    BY DEF Ready
  <2>2. u \o <<>> = u
    BY <1>1, ConcatEmptySeq DEF Texts
  <2>3. u = <<"\n">> \o Space(1) \o <<"<", "/">> \o <<name>> \o <<">">>
    BY DEF u
  <2> QED BY <2>1, <2>2, <2>3, Zenon DEF EndOf
<1>4. /\ Appended(s, e, u) /\ ~e.elementJustOpened /\ ~e.firstElement
      /\ e.depth = 1 /\ e.textDepth = -1
  BY <1>1, <1>3, CloseAppends DEF Ready
<1> HIDE DEF e
<1>6. Len(e.out) = p + 5 /\ \A i \in 1..6 : e.out[p - 1 + i] = u[i]
  <2>1. Len(s.out) = p - 1
    BY DEF Ready
  <2>2. Len(e.out) = Len(s.out) + Len(u)
        /\ \A i \in 1..Len(u) : e.out[Len(s.out) + i] = u[i]
    BY <1>4 DEF Appended
  <2> QED BY <1>2, <2>1, <2>2
<1>7. /\ p - 1 + 1 = p /\ p - 1 + 2 = p + 1 /\ p - 1 + 3 = p + 2
      /\ p - 1 + 4 = (p + 2) + 1 /\ p - 1 + 5 = (p + 2) + 2
      /\ p - 1 + 6 = (p + 2) + 3 /\ (p + 6) - 1 = (p + 2) + 3 /\ p + 5 = (p + 6) - 1
  OBVIOUS
<1>8. /\ e.out[p] = u[1] /\ e.out[p + 1] = u[2] /\ e.out[p + 2] = u[3]
      /\ e.out[(p + 2) + 1] = u[4] /\ e.out[(p + 2) + 2] = u[5]
      /\ e.out[(p + 2) + 3] = u[6]
  <2>1. /\ e.out[p - 1 + 1] = u[1] /\ e.out[p - 1 + 2] = u[2]
        /\ e.out[p - 1 + 3] = u[3] /\ e.out[p - 1 + 4] = u[4]
        /\ e.out[p - 1 + 5] = u[5] /\ e.out[p - 1 + 6] = u[6]
    BY <1>6
  <2> QED BY <1>7, <2>1
<1>9. Closing(e.out, p + 2, name) /\ e.out[p] \in Blank /\ e.out[p + 1] \in Blank
  BY <1>2, <1>8 DEF Closing
<1>10. Ready(e, p + 6, 1)
  BY <1>2, <1>4, <1>6, <1>7, <1>8 DEF Ready, Appended
<1> QED BY <1>4, <1>9, <1>10 DEF e, Appended

LEMMA RootCloses ==
  ASSUME NEW s, NEW p \in Nat, p >= 2, Ready(s, p, 1), ~s.elementJustOpened,
         NEW name \in Symbol \ {NUL}
  PROVE  LET e == CloseElement(s, <<name>>)
         IN /\ Len(e.out) = p + 5 /\ Grown(s.out, e.out) /\ e.out[p] \in Blank
            /\ Closing(e.out, p + 1, name) /\ e.out[p + 5] \in Blank
            /\ e.out \in Texts
<1> DEFINE a == <<"\n">> \o Space(0)
           u == ((a \o <<"<", "/">>) \o <<name>>) \o <<">">>

           w == u \o <<"\n">>
           e == CloseElement(s, <<name>>)
<1>0. TagLine(u, 0, name)
  BY IndentedTag
<1> HIDE DEF u
<1>1. u \in Texts
  BY <1>0 DEF TagLine
<1>2. /\ Len(u) = 5 /\ u[1] \in Blank
      /\ u[2] = "<" /\ u[3] = "/" /\ u[4] = name /\ u[5] = ">"
  BY <1>0 DEF TagLine
<1>3. /\ w \in Texts /\ Len(w) = 6 /\ w[6] \in Blank
      /\ \A i \in 1..5 : w[i] = u[i]
  <2>1. PICK c : c = "\n"
    OBVIOUS
  <2>2. c \in Symbol \ {NUL} /\ c \in Blank
    <3>1. "\n" \in Symbol \ {NUL} /\ "\n" \in Blank
      BY SomeSymbols, BlankSymbols
    <3> QED BY <2>1, <3>1, Zenon
  <2>3. Len(u) = 6 - 1
    BY <1>2
  <2>4. Longer(u \o <<c>>, u, c, 6)
    BY <1>1, <2>2, <2>3, NextOne
  <2>5. w = u \o <<c>>
    BY <2>1, Zenon
  <2> HIDE DEF w
  <2>6. Longer(w, u, c, 6)
    BY <2>4, <2>5
  <2> QED BY <2>2, <2>6 DEF Longer
<1>4. EndOf(s, <<name>>) = w
  <2>1. /\ s.depth - 1 = 0 /\ ~s.elementJustOpened /\ s.textDepth < 0
    BY DEF Ready
  <2>2. u = <<"\n">> \o Space(0) \o <<"<", "/">> \o <<name>> \o <<">">>
    BY DEF u
  <2> QED BY <2>1, <2>2, Zenon DEF EndOf
<1> HIDE DEF w
<1>5. Appended(s, e, w)
  BY <1>3, <1>4, CloseAppends DEF Ready
<1> HIDE DEF e
<1>6. Len(e.out) = p + 5 /\ \A i \in 1..6 : e.out[p - 1 + i] = w[i]
  <2>1. Len(s.out) = p - 1
    BY DEF Ready
  <2>2. Len(e.out) = Len(s.out) + Len(w)
        /\ \A i \in 1..Len(w) : e.out[Len(s.out) + i] = w[i]
    BY <1>5 DEF Appended
  <2> QED BY <1>3, <2>1, <2>2
<1>7. /\ p - 1 + 1 = p /\ p - 1 + 2 = p + 1
      /\ p - 1 + 3 = (p + 1) + 1 /\ p - 1 + 4 = (p + 1) + 2
      /\ p - 1 + 5 = (p + 1) + 3 /\ p - 1 + 6 = p + 5
  OBVIOUS
<1>8. /\ e.out[p] = w[1] /\ e.out[p + 1] = w[2] /\ e.out[(p + 1) + 1] = w[3]
      /\ e.out[(p + 1) + 2] = w[4] /\ e.out[(p + 1) + 3] = w[5]
      /\ e.out[p + 5] = w[6]
  <2>1. /\ e.out[p - 1 + 1] = w[1] /\ e.out[p - 1 + 2] = w[2]
        /\ e.out[p - 1 + 3] = w[3] /\ e.out[p - 1 + 4] = w[4]
        /\ e.out[p - 1 + 5] = w[5] /\ e.out[p - 1 + 6] = w[6]
    BY <1>6
  <2> QED BY <1>7, <2>1
<1>9. w[1] = u[1] /\ w[2] = u[2] /\ w[3] = u[3] /\ w[4] = u[4] /\ w[5] = u[5]
  BY <1>3
<1>10. Closing(e.out, p + 1, name) /\ e.out[p] \in Blank /\ e.out[p + 5] \in Blank
  BY <1>2, <1>3, <1>8, <1>9 DEF Closing
<1> QED BY <1>5, <1>6, <1>10, OutFacts DEF e, Appended

LEMMA EmptyCloses ==
  ASSUME NEW s, NEW l \in Nat, InTheTag(s, l, 2), NEW name
  PROVE  LET e == CloseElement(s, <<name>>)
         IN /\ Ready(e, l + 3, 1) /\ ~e.elementJustOpened
            /\ Grown(s.out, e.out) /\ e.out[l + 1] = "/" /\ e.out[l + 2] = ">"
<1> DEFINE u == <<"/", ">">>
           e == CloseElement(s, <<name>>)
<1>1. "/" \in Symbol \ {NUL} /\ ">" \in Symbol \ {NUL}
  BY SomeSymbols
<1>2. u \in Texts /\ Len(u) = 2 /\ u[1] = "/" /\ u[2] = ">"
  BY <1>1, ShortTexts DEF Texts
<1> HIDE DEF u
<1>3. EndOf(s, <<name>>) = u
  <2>1. s.elementJustOpened /\ s.depth - 1 # 0
    BY DEF InTheTag
  <2>2. u \o <<>> = u
    BY <1>2, ConcatEmptySeq DEF Texts
  <2> QED BY <2>1, <2>2, Zenon DEF EndOf, u
<1>4. /\ Appended(s, e, u) /\ ~e.elementJustOpened /\ ~e.firstElement
      /\ e.depth = 1 /\ e.textDepth = -1
  BY <1>2, <1>3, CloseAppends DEF InTheTag
<1> HIDE DEF e
<1>5. Len(e.out) = l + 2 /\ \A i \in 1..2 : e.out[l + i] = u[i]
  BY <1>2, <1>4 DEF Appended, InTheTag
<1>6. e.out[l + 1] = "/" /\ e.out[l + 2] = ">"
  BY <1>2, <1>5
<1>7. (l + 3) - 1 = l + 2
  OBVIOUS
<1>8. Ready(e, l + 3, 1)
  BY <1>4, <1>5, <1>6, <1>7 DEF Ready, Appended
<1> QED BY <1>4, <1>6, <1>8 DEF e, Appended

-----------------------------------------------------------------------------
(* How the printer goes through an element that has a text                  *)

LEMMA ListLinks ==
  ASSUME NEW d, Listed(d), NEW p \in Parent
  PROVE  LET s == ListOf(d, p)
         IN /\ Len(s) \in Nat
            /\ d.firstChild[p] = IF Len(s) = 0 THEN Null ELSE s[1]
            /\ \A i \in 1..Len(s) :
                 /\ s[i] \in Node /\ s[i] # Null /\ s[i] # Document
                 /\ d.parent[s[i]] = p
                 /\ d.next[s[i]] = IF i = Len(s) THEN Null ELSE s[i + 1]
<1>1. IsList(d, p, ListOf(d, p))
  BY DEF Listed
<1>2. \A n \in Node : n # Null /\ n # Document
  BY NullIsNoNode
<1> QED BY <1>1, <1>2, ListFacts DEF IsList

\* The attributes of an element that has this id or none
AttributesFor(id) ==
  IF id = Null THEN <<>> ELSE <<NumberAttribute("NodeID", id)>>

\* What is printed of a line: its tag, and its tag and its text
TagThere(t, p, k, name, id) ==
  Opening(t, p, k, name) /\ Identified(t, p + k + 2, id)
TextThere(t, p, k, name, id, u) ==
  /\ TagThere(t, p, k, name, id) /\ t[TagEnd(p, k, id)] = ">"
  /\ \A i \in 1..Len(u) : t[TagEnd(p, k, id) + i] = u[i]

\* Where the printer may be in the element x with the text w, whose line begins
\* at p with k blanks: s is the printer at the visit v of n, with a attributes
\* behind it
AtLeaf(v, n, a, s, d, x, p, k, name, id, w) ==
  LET u == PrintString(w, restrictedEntities)
      l == TagEnd(p, k, id)
  IN \/ v = "enter" /\ n = x /\ a = 0 /\ Ready(s, p, k - 1)
     \/ /\ v = "attributes" /\ n = x /\ a = 0
        /\ InTheTag(s, p + k + 1, k) /\ Opening(s.out, p, k, name)
     \/ /\ v = "attributes" /\ n = x /\ a = 1 /\ id # Null
        /\ InTheTag(s, l - 1, k) /\ TagThere(s.out, p, k, name, id)
     \/ /\ v = "enter" /\ n = d.firstChild[x]
        /\ InTheTag(s, l - 1, k) /\ TagThere(s.out, p, k, name, id)
     \/ /\ v = "exit" /\ n = x
        /\ InTheText(s, l + Len(u), k) /\ TextThere(s.out, p, k, name, id, u)

\* The line is there, and the printer behind it.
LeafDone(s, p, k, name, id, w) ==
  LET u == PrintString(w, restrictedEntities)
  IN /\ Ready(s, Behind(p, k, id, u), k - 1) /\ ~s.elementJustOpened
     /\ Line(s.out, p, k, name, id, u)

\* x has the text w.
HasText(d, x, name, id, w) ==
  /\ Listed(d) /\ Leaf(d, x, name, AttributesFor(id), w)
  /\ w \in Texts /\ name \in Symbol \ {NUL} /\ id \in Numbers \cup {Null}

LEMMA LeafFacts ==
  ASSUME NEW d, NEW x, NEW name, NEW id, NEW w, HasText(d, x, name, id, w)
  PROVE  LET y == d.firstChild[x]
         IN /\ x \in Node /\ d.kind[x] = "element" /\ d.value[x] = <<name>>
            /\ x # Null /\ x # Document /\ d.attributes[x] = AttributesFor(id)
            /\ y \in Node /\ y # Null /\ y # Document /\ y # x
            /\ d.kind[y] = "text" /\ d.value[y] = w
            /\ d.next[y] = Null /\ d.parent[y] = x
<1>1. /\ Listed(d) /\ w # Null /\ x \in Node /\ x \in Parent
      /\ d.kind[x] = "element" /\ d.value[x] = <<name>>
      /\ d.attributes[x] = AttributesFor(id) /\ Holds(d, x, w)
  <2>1. w \in Value
    BY SeqMonotonic DEF HasText, Texts, Value
  <2> QED BY <2>1, ValueAssumption DEF HasText, Leaf, Full, Elem, Parent
<1>2. PICK z \in Linked(d) : /\ ListOf(d, x) = <<z>>
                             /\ d.kind[z] = "text" /\ d.value[z] = w
  BY <1>1 DEF Holds
<1>3. Len(<<z>>) = 1 /\ <<z>>[1] = z
  OBVIOUS
<1>4. d.firstChild[x] = z /\ z \in Node /\ d.next[z] = Null /\ d.parent[z] = x
  BY <1>1, <1>2, <1>3, ListLinks
<1>5. x # Null /\ x # Document /\ z # Null /\ z # Document
  BY <1>1, <1>4, NullIsNoNode
<1>6. "text" # "element"
  OBVIOUS
<1> QED BY <1>1, <1>2, <1>4, <1>5, <1>6

LEMMA PlacesInLine ==
  ASSUME NEW p \in Nat, NEW k \in {2, 3}, NEW id
  PROVE  /\ TagEnd(p, k, id) \in Nat
         /\ id = Null => TagEnd(p, k, id) = p + k + 2
         /\ id # Null => TagEnd(p, k, id) = p + k + 8
BY DEF TagEnd

\* Its tag goes on when there is more of the text.
LEMMA TagStays ==
  ASSUME NEW t, NEW u, Grown(t, u), NEW p \in Nat, p >= 2, NEW k \in {2, 3},
         NEW name, NEW id, Len(t) >= TagEnd(p, k, id) - 1
  PROVE  TagThere(t, p, k, name, id) => TagThere(u, p, k, name, id)
<1> SUFFICES ASSUME TagThere(t, p, k, name, id) PROVE TagThere(u, p, k, name, id)
  OBVIOUS
<1>1. /\ Len(t) \in Nat /\ Len(t) >= p + k + 1
      /\ (id # Null => Len(t) >= p + k + 7)
      /\ \A i \in 1..Len(t) : u[i] = t[i]
  BY PlacesInLine DEF Grown, TagEnd
<1>2. Opening(u, p, k, name)
  <2>1. p - 1 \in 1..Len(t) /\ p + k \in 1..Len(t) /\ p + k + 1 \in 1..Len(t)
        /\ \A i \in p..p + k - 1 : i \in 1..Len(t)
    BY <1>1
  <2> QED BY <1>1, <2>1 DEF Opening, TagThere
<1>3. Identified(u, p + k + 2, id)
  <2>1. CASE id = Null
    BY <2>1 DEF Identified
  <2>2. CASE id # Null
    <3> DEFINE q == p + k + 2
    <3>0. q \in Nat /\ q >= 1 /\ Len(t) \in Nat /\ Len(t) >= q + 5
      <4>1. Len(t) \in Nat /\ Len(t) >= p + k + 7
        BY <1>1, <2>2
      <4>2. k \in Nat
        OBVIOUS
      <4> QED BY <4>1, <4>2
    <3> HIDE DEF q
    <3>1. /\ q \in Nat /\ q \in 1..Len(t) /\ q + 1 \in 1..Len(t) /\ q + 2 \in 1..Len(t)
          /\ q + 3 \in 1..Len(t) /\ q + 4 \in 1..Len(t) /\ q + 5 \in 1..Len(t)
      BY <3>0
    <3>2. Identified(t, q, id)
      BY DEF TagThere, q
    <3>3. /\ (q + 1) + 1 = q + 2 /\ (q + 1) + 2 = q + 3 /\ (q + 1) + 3 = q + 4
          /\ (q + 1) + 4 = q + 5
      BY <3>1
    <3>4. Identified(u, q, id)
      BY <1>1, <2>2, <3>1, <3>2, <3>3 DEF Identified, NumberedAt
    <3> QED BY <3>4 DEF q
  <2> QED BY <2>1, <2>2
<1> QED BY <1>2, <1>3 DEF TagThere

\* A step of the printer within a line
GoesThrough(x, p, k, name, id, w) ==
  /\ Grown(printer.out, printer'.out)
  /\ \/ AtLeaf(visit', at', attribute', printer', doc, x, p, k, name, id, w)
     \/ LeafDone(printer', p, k, name, id, w) /\ Goes(doc.next[x], doc.parent[x])

LEMMA LineIsBegun ==
  ASSUME NEW x, NEW name, NEW id, NEW w, HasText(doc, x, name, id, w),
         NEW p \in Nat, p >= 2, NEW k \in {2, 3},
         visit = "enter", at = x, attribute = 0, Ready(printer, p, k - 1), Printing
  PROVE  GoesThrough(x, p, k, name, id, w)
<1>1. doc.kind[x] = "element" /\ doc.value[x] = <<name>>
  BY LeafFacts
<1>2. VisitEnter
  BY <1>1 DEF Printing, VisitEnter, VisitAttribute, VisitChildren, VisitExit, Visit
<1>3. /\ printer' = OpenElement(printer, <<name>>)
      /\ visit' = "attributes" /\ at' = x /\ attribute' = 0
  BY <1>1, <1>2 DEF VisitEnter
<1>4. k - 1 \in Nat /\ p + (k - 1) + 2 = p + k + 1 /\ (k - 1) + 1 = k
  OBVIOUS
<1>5. name \in Symbol \ {NUL}
  BY DEF HasText
<1>6. /\ InTheTag(printer', p + k + 1, k)
      /\ Grown(printer.out, printer'.out) /\ Opening(printer'.out, p, k, name)
  <2> DEFINE depth == k - 1
  <2>1. LET e == OpenElement(printer, <<name>>)
        IN /\ InTheTag(e, p + depth + 2, depth + 1)
           /\ Grown(printer.out, e.out) /\ Opening(e.out, p, depth + 1, name)
    <3>1. depth \in Nat /\ Ready(printer, p, depth)
      BY <1>4
    <3> HIDE DEF depth
    <3> QED BY <3>1, <1>5, ElementOpens
  <2> QED BY <2>1, <1>3, <1>4
<1> QED BY <1>3, <1>6 DEF GoesThrough, AtLeaf

LEMMA LineIsIdentified ==
  ASSUME NEW x, NEW name, NEW id, NEW w, HasText(doc, x, name, id, w),
         NEW p \in Nat, p >= 2, NEW k \in {2, 3},
         visit = "attributes", at = x, attribute = 0,
         InTheTag(printer, p + k + 1, k), Opening(printer.out, p, k, name), Printing
  PROVE  GoesThrough(x, p, k, name, id, w)
<1>1. /\ doc.attributes[x] = AttributesFor(id) /\ x \in Node
      /\ doc.firstChild[x] # Null /\ name \in Symbol \ {NUL}
  BY LeafFacts DEF HasText
<1>2. VisitAttribute \/ VisitChildren
  BY DEF Printing, VisitEnter, VisitAttribute, VisitChildren, VisitExit, Visit
<1>3. CASE id = Null
  <2>1. Len(doc.attributes[x]) = 0
    BY <1>1, <1>3 DEF AttributesFor
  <2>2. VisitChildren
    BY <1>2, <2>1 DEF VisitAttribute
  <2>3. /\ visit' = "enter" /\ at' = doc.firstChild[x] /\ attribute' = 0
        /\ printer' = printer
    BY <1>1, <2>2 DEF VisitChildren, Goes
  <2>4. TagEnd(p, k, id) - 1 = p + k + 1
    BY <1>3 DEF TagEnd
  <2>5. TagThere(printer.out, p, k, name, id)
    BY <1>3 DEF TagThere, Identified
  <2>6. Grown(printer.out, printer.out)
    BY OutFacts DEF Grown, InTheTag
  <2> QED BY <2>3, <2>4, <2>5, <2>6 DEF GoesThrough, AtLeaf
<1>4. CASE id # Null
  <2>1. /\ Len(doc.attributes[x]) = 1 /\ doc.attributes[x][1] = NumberAttribute("NodeID", id)
        /\ id \in Numbers
    BY <1>1, <1>4 DEF AttributesFor, HasText
  <2>2. VisitAttribute
    BY <1>2, <2>1 DEF VisitChildren
  <2>3. /\ visit' = "attributes" /\ at' = x /\ attribute' = 1
        /\ printer' = PushAttribute(printer, NumberAttribute("NodeID", id))
    BY <2>1, <2>2 DEF VisitAttribute
  <2>4. "NodeID" \in Symbol \ {NUL}
    BY WordsAreNames DEF Words, Markup
  <2>5. p + k + 1 \in Nat
    OBVIOUS
  <2>6. /\ InTheTag(printer', p + k + 1 + 6, k) /\ Grown(printer.out, printer'.out)
        /\ printer'.out[p + k + 1 + 1] = OneBlank
        /\ NumberedAt(printer'.out, p + k + 1 + 2, "NodeID", id)
    <3> DEFINE l == p + k + 1
    <3> HIDE DEF l
    <3>1. LET e == PushAttribute(printer, NumberAttribute("NodeID", id))
          IN /\ InTheTag(e, l + 6, k) /\ Grown(printer.out, e.out)
             /\ e.out[l + 1] = OneBlank /\ NumberedAt(e.out, l + 2, "NodeID", id)
      BY <2>1, <2>4, <2>5, AttributeIsPushed DEF l
    <3> QED BY <3>1, <2>3 DEF l
  <2>7. /\ p + k + 1 + 6 = TagEnd(p, k, id) - 1 /\ p + k + 1 + 1 = p + k + 2
        /\ p + k + 1 + 2 = (p + k + 2) + 1
    BY <1>4 DEF TagEnd
  <2>8. Opening(printer'.out, p, k, name)
    <3>1. /\ Len(printer.out) = p + k + 1 /\ \A i \in 1..Len(printer.out) : printer'.out[i] = printer.out[i]
      BY <2>6 DEF Grown, InTheTag
    <3>2. p - 1 \in 1..Len(printer.out) /\ p + k \in 1..Len(printer.out)
          /\ p + k + 1 \in 1..Len(printer.out)
          /\ \A i \in p..p + k - 1 : i \in 1..Len(printer.out)
      BY <3>1
    <3> QED BY <3>1, <3>2 DEF Opening
  <2>9. TagThere(printer'.out, p, k, name, id)
    BY <2>6, <2>7, <2>8 DEF TagThere, Identified
  <2> QED BY <1>4, <2>3, <2>6, <2>7, <2>9 DEF GoesThrough, AtLeaf
<1> QED BY <1>3, <1>4

LEMMA LineGoesBelow ==
  ASSUME NEW x, NEW name, NEW id, NEW w, HasText(doc, x, name, id, w),
         NEW p \in Nat, p >= 2, NEW k \in {2, 3},
         visit = "attributes", at = x, attribute = 1, id # Null,
         InTheTag(printer, TagEnd(p, k, id) - 1, k),
         TagThere(printer.out, p, k, name, id), Printing
  PROVE  GoesThrough(x, p, k, name, id, w)
<1>1. /\ doc.attributes[x] = AttributesFor(id) /\ doc.firstChild[x] # Null
  BY LeafFacts
<1>2. Len(doc.attributes[x]) = 1
  BY <1>1 DEF AttributesFor
<1>3. VisitChildren
  BY <1>2 DEF Printing, VisitEnter, VisitAttribute, VisitChildren, VisitExit, Visit
<1>4. /\ visit' = "enter" /\ at' = doc.firstChild[x] /\ attribute' = 0
      /\ printer' = printer
  BY <1>1, <1>3 DEF VisitChildren, Goes
<1>5. Grown(printer.out, printer.out)
  BY OutFacts DEF Grown, InTheTag
<1> QED BY <1>4, <1>5 DEF GoesThrough, AtLeaf

LEMMA LineHasText ==
  ASSUME NEW x, NEW name, NEW id, NEW w, HasText(doc, x, name, id, w),
         NEW p \in Nat, p >= 2, NEW k \in {2, 3},
         visit = "enter", at = doc.firstChild[x],
         InTheTag(printer, TagEnd(p, k, id) - 1, k),
         TagThere(printer.out, p, k, name, id), Printing
  PROVE  GoesThrough(x, p, k, name, id, w)
<1> DEFINE y == doc.firstChild[x]
           u == PrintString(w, restrictedEntities)
           l == TagEnd(p, k, id) - 1
<1>1. /\ doc.kind[y] = "text" /\ doc.value[y] = w /\ doc.next[y] = Null
      /\ doc.parent[y] = x /\ x # Document /\ w \in Texts
  BY LeafFacts DEF HasText
<1>2. Visit
  BY <1>1 DEF Printing, VisitEnter, VisitAttribute, VisitChildren, VisitExit, Visit
<1>3. /\ printer' = PushText(printer, "text", w)
      /\ visit' = "exit" /\ at' = x
  BY <1>1, <1>2 DEF Visit, GoesOn, Goes, isText
<1>4. l \in Nat /\ TagEnd(p, k, id) = l + 1 /\ k \in Nat
  BY PlacesInLine
<1>5. /\ InTheText(printer', l + 1 + Len(u), k) /\ Grown(printer.out, printer'.out)
      /\ printer'.out[l + 1] = ">"
      /\ \A i \in 1..Len(u) : printer'.out[l + 1 + i] = u[i]
  <2> HIDE DEF l, u
  <2>1. InTheTag(printer, l, k)
    BY DEF l
  <2> QED BY <1>1, <1>3, <1>4, <2>1, TextIsPushed DEF u
<1>6. Len(printer.out) >= TagEnd(p, k, id) - 1
  BY <1>4 DEF InTheTag
<1>7. TagThere(printer'.out, p, k, name, id)
  BY <1>5, <1>6, TagStays
<1> HIDE DEF l, y
<1>8. TextThere(printer'.out, p, k, name, id, u)
  BY <1>4, <1>5, <1>7 DEF TextThere
<1> QED BY <1>3, <1>4, <1>5, <1>8 DEF GoesThrough, AtLeaf

LEMMA LineIsClosed ==
  ASSUME NEW x, NEW name, NEW id, NEW w, HasText(doc, x, name, id, w),
         NEW p \in Nat, p >= 2, NEW k \in {2, 3},
         visit = "exit", at = x,
         InTheText(printer, TagEnd(p, k, id)
                              + Len(PrintString(w, restrictedEntities)), k),
         TextThere(printer.out, p, k, name, id, PrintString(w, restrictedEntities)),
         Printing
  PROVE  GoesThrough(x, p, k, name, id, w)
<1> DEFINE u == PrintString(w, restrictedEntities)
           a == TagEnd(p, k, id)
<1>1. /\ doc.value[x] = <<name>> /\ w \in Texts /\ name \in Symbol \ {NUL}
  BY LeafFacts DEF HasText
<1>2. VisitExit
  BY DEF Printing, VisitEnter, VisitAttribute, VisitChildren, VisitExit, Visit
<1>3. /\ printer' = CloseElement(printer, <<name>>)
      /\ Goes(doc.next[x], doc.parent[x])
  BY <1>1, <1>2 DEF VisitExit, GoesOn
<1>4. a \in Nat /\ Len(u) \in Nat /\ k \in Nat /\ k >= 2 /\ a + Len(u) \in Nat
  BY <1>1, PlacesInLine, TextIsEncoded
<1>5. InTheText(printer, a + Len(u), k) /\ TextThere(printer.out, p, k, name, id, u)
  OBVIOUS
<1> HIDE DEF u, a
<1>6. /\ Ready(printer', a + Len(u) + 5, k - 1) /\ ~printer'.elementJustOpened
      /\ Grown(printer.out, printer'.out) /\ Closing(printer'.out, a + Len(u) + 1, name)
  BY <1>1, <1>3, <1>4, <1>5, TextCloses
<1>7. /\ Len(printer.out) = a + Len(u) /\ Len(printer'.out) = a + Len(u) + 4
  BY <1>4, <1>5, <1>6 DEF InTheText, Ready
<1>8. TagThere(printer'.out, p, k, name, id)
  <2>1. Len(printer.out) >= a - 1
    BY <1>4, <1>7
  <2>2. Len(printer.out) >= TagEnd(p, k, id) - 1
    BY <2>1 DEF a
  <2>3. TagThere(printer.out, p, k, name, id)
    BY <1>5 DEF TextThere
  <2> QED BY <1>6, <2>2, <2>3, TagStays
<1>9. printer'.out[a] = ">" /\ \A i \in 1..Len(u) : printer'.out[a + i] = u[i]
  <2>1. printer.out[a] = ">" /\ \A i \in 1..Len(u) : printer.out[a + i] = u[i]
    BY <1>5 DEF TextThere, a
  <2>2. a \in 1..Len(printer.out) /\ \A i \in 1..Len(u) : a + i \in 1..Len(printer.out)
    <3>1. a >= 1
      BY DEF a, TagEnd
    <3> QED BY <1>4, <1>7, <3>1
  <2> QED BY <1>6, <2>1, <2>2 DEF Grown
<1>10. Line(printer'.out, p, k, name, id, u)
  BY <1>4, <1>6, <1>7, <1>8, <1>9 DEF Line, TagThere, a
<1>11. Behind(p, k, id, u) = a + Len(u) + 5
  BY DEF Behind, a
<1> QED BY <1>3, <1>6, <1>10, <1>11 DEF GoesThrough, LeafDone, u

LEMMA LineIsPrinted ==
  ASSUME NEW x, NEW name, NEW id, NEW w, HasText(doc, x, name, id, w),
         NEW p \in Nat, p >= 2, NEW k \in {2, 3},
         AtLeaf(visit, at, attribute, printer, doc, x, p, k, name, id, w), Printing
  PROVE  GoesThrough(x, p, k, name, id, w)
<1> DEFINE u == PrintString(w, restrictedEntities)
           l == TagEnd(p, k, id)
<1>1. CASE visit = "enter" /\ at = x /\ attribute = 0 /\ Ready(printer, p, k - 1)
  BY <1>1, LineIsBegun
<1>2. CASE /\ visit = "attributes" /\ at = x /\ attribute = 0
           /\ InTheTag(printer, p + k + 1, k) /\ Opening(printer.out, p, k, name)
  BY <1>2, LineIsIdentified
<1>3. CASE /\ visit = "attributes" /\ at = x /\ attribute = 1 /\ id # Null
           /\ InTheTag(printer, l - 1, k) /\ TagThere(printer.out, p, k, name, id)
  BY <1>3, LineGoesBelow
<1>4. CASE /\ visit = "enter" /\ at = doc.firstChild[x]
           /\ InTheTag(printer, l - 1, k) /\ TagThere(printer.out, p, k, name, id)
  BY <1>4, LineHasText
<1>5. CASE /\ visit = "exit" /\ at = x
           /\ InTheText(printer, l + Len(u), k)
           /\ TextThere(printer.out, p, k, name, id, u)
  BY <1>5, LineIsClosed
<1> QED BY <1>1, <1>2, <1>3, <1>4, <1>5 DEF AtLeaf

-----------------------------------------------------------------------------
(* How the printer goes through the document of a message                   *)

LEMMA MessageIsSound ==
  ASSUME NEW m, IsMessage(m)
  PROVE  /\ m.form \in Forms /\ m.type \in Numbers /\ m.number \in Numbers
         /\ m.sourceID \in Numbers /\ m.destinationID \in Numbers
         /\ m.content \in Texts
         /\ \A i \in 1..3 : FieldNumbers(m)[i] \in Numbers
         /\ \A id \in DOMAIN m.vectorTimes :
              id \in Numbers /\ m.vectorTimes[id] \in Numbers
<1>1. m.content \in Texts
  <2>1. m.content \in Contents
    BY DEF IsMessage
  <2> QED BY <2>1, ContentIsText
<1>2. {m.type, m.number, m.sourceID, m.destinationID} \subseteq Numbers
  BY Zenon DEF IsMessage
<1>3. \A i \in 1..3 : FieldNumbers(m)[i] \in Numbers
  <2>1. /\ FieldNumbers(m)[1] = m.type /\ FieldNumbers(m)[2] = m.sourceID
        /\ FieldNumbers(m)[3] = m.destinationID
    BY DEF FieldNumbers
  <2>2. \A i \in 1..3 : i = 1 \/ i = 2 \/ i = 3
    OBVIOUS
  <2> QED BY <1>2, <2>1, <2>2
<1> QED BY <1>1, <1>2, <1>3 DEF IsMessage

LEMMA WordsInPrint ==
  /\ \A f \in Forms : f \in Symbol \ {NUL}
  /\ \A i \in 1..3 : FieldNames[i] \in Words /\ FieldNames[i] \in Symbol \ {NUL}
  /\ "Content" \in Symbol \ {NUL} /\ "Time" \in Symbol \ {NUL}
  /\ "VectorTimes" \in Symbol \ {NUL} /\ "Number" \in Symbol \ {NUL}
<1>1. \A c \in Words : c \in Symbol \ {NUL}
  BY WordsAreNames DEF Markup
<1>2. FieldNames[1] = "Type" /\ FieldNames[2] = "SourceID"
      /\ FieldNames[3] = "DestinationID"
  BY DEF FieldNames
<1>3. \A i \in 1..3 : i = 1 \/ i = 2 \/ i = 3
  OBVIOUS
<1> QED BY <1>1, <1>2, <1>3 DEF Words, fieldNames

\* d is the document of the message m, to be printed.
Prepared(d, m, o, r) ==
  /\ Listed(d) /\ IsMessage(m) /\ IsOrder(m, o)
  /\ IsTree(d, m, o, r, m.content)

LEMMA RootLinks ==
  ASSUME NEW d, NEW m, NEW o, NEW r, Prepared(d, m, o, r)
  PROVE  /\ r \in Node /\ r # Null /\ r # Document /\ r \in Parent
         /\ d.kind[r] = "element" /\ d.value[r] = <<m.form>>
         /\ d.attributes[r] = <<NumberAttribute("Number", m.number)>>
         /\ d.firstChild[Document] = r
         /\ d.parent[r] = Document /\ d.next[r] = Null
         /\ d.firstChild[r] = ListOf(d, r)[1] /\ Len(ListOf(d, r)) = 5
         /\ \A i \in 1..5 :
              LET n == ListOf(d, r)[i]
              IN /\ n \in Node /\ n # Null /\ n # Document /\ d.parent[n] = r
                 /\ d.next[n] = IF i = 5 THEN Null ELSE ListOf(d, r)[i + 1]
<1>1. /\ HasContent(d, m, o, r, m.content) /\ ListOf(d, Document) = <<r>>
      /\ Listed(d)
  BY DEF Prepared, IsTree
<1>2. Elem(d, r, m.form, <<NumberAttribute("Number", m.number)>>, ListOf(d, r))
  BY <1>1 DEF HasContent, HasList, HasFields
<1>3. r \in Node /\ r # Null /\ r # Document /\ r \in Parent /\ Document \in Parent
  BY <1>2, NullIsNoNode DEF Elem, Parent
<1>4. Len(<<r>>) = 1 /\ <<r>>[1] = r
  OBVIOUS
<1>5. d.firstChild[Document] = r /\ d.parent[r] = Document /\ d.next[r] = Null
  BY <1>1, <1>3, <1>4, ListLinks
<1>6. Len(ListOf(d, r)) = 5
  BY <1>1 DEF HasContent
<1>7. /\ d.firstChild[r] = ListOf(d, r)[1]
      /\ \A i \in 1..5 :
           LET n == ListOf(d, r)[i]
           IN /\ n \in Node /\ n # Null /\ n # Document /\ d.parent[n] = r
              /\ d.next[n] = IF i = 5 THEN Null ELSE ListOf(d, r)[i + 1]
  BY <1>1, <1>3, <1>6, ListLinks
<1> QED BY <1>2, <1>3, <1>5, <1>6, <1>7 DEF Elem

LEMMA FieldLinks ==
  ASSUME NEW d, NEW m, NEW o, NEW r, Prepared(d, m, o, r)
  PROVE  /\ \A i \in 1..3 : HasText(d, ListOf(d, r)[i], FieldNames[i], Null,
                                    Numeral(FieldNumbers(m)[i]))
         /\ HasText(d, ListOf(d, r)[5], "Content", Null, m.content)
<1>1. /\ HasContent(d, m, o, r, m.content) /\ Listed(d) /\ IsMessage(m)
  BY DEF Prepared, IsTree
<1>2. AttributesFor(Null) = <<>>
  BY DEF AttributesFor
<1>3. ASSUME NEW i \in 1..3
      PROVE  HasText(d, ListOf(d, r)[i], FieldNames[i], Null,
                     Numeral(FieldNumbers(m)[i]))
  <2>1. Leaf(d, ListOf(d, r)[i], FieldNames[i], <<>>, Numeral(FieldNumbers(m)[i]))
    BY <1>1 DEF HasContent, HasList, HasFields
  <2>2. Numeral(FieldNumbers(m)[i]) \in Texts
    BY <1>1, MessageIsSound, NumeralIsText
  <2> QED BY <1>1, <1>2, <2>1, <2>2, WordsInPrint DEF HasText
<1>4. HasText(d, ListOf(d, r)[5], "Content", Null, m.content)
  BY <1>1, <1>2, MessageIsSound, WordsInPrint DEF HasText, HasContent
<1> QED BY <1>3, <1>4

LEMMA TimeLinks ==
  ASSUME NEW d, NEW m, NEW o, NEW r, Prepared(d, m, o, r)
  PROVE  LET x == ListOf(d, r)[4]
             z == ListOf(d, x)
         IN /\ d.kind[x] = "element" /\ d.value[x] = <<"VectorTimes">>
            /\ d.attributes[x] = <<>>
            /\ Len(o) \in Nat
            /\ d.firstChild[x] = IF Len(o) = 0 THEN Null ELSE z[1]
            /\ \A j \in 1..Len(o) :
                 /\ HasText(d, z[j], "Time", o[j], Numeral(m.vectorTimes[o[j]]))
                 /\ z[j] # Null /\ d.parent[z[j]] = x
                 /\ o[j] \in Numbers /\ o[j] # Null
                 /\ m.vectorTimes[o[j]] \in Numbers
                 /\ d.next[z[j]] = IF j = Len(o) THEN Null ELSE z[j + 1]
<1> DEFINE x == ListOf(d, r)[4]
           z == ListOf(d, x)
<1>1. HasTimes(d, m, o, x, Len(o)) /\ Listed(d) /\ IsMessage(m) /\ IsOrder(m, o)
  BY DEF Prepared, IsTree, HasContent, HasList
<1>2. Elem(d, x, "VectorTimes", <<>>, z) /\ Len(z) = Len(o) /\ x \in Parent
  BY <1>1 DEF HasTimes, Elem, Parent
<1>3. \A j \in 1..Len(o) : o[j] \in DOMAIN m.vectorTimes /\ o[j] \in Numbers
  BY <1>1 DEF IsOrder
<1>4. Len(o) \in Nat
  BY <1>1 DEF IsOrder
<1> HIDE DEF x
<1>5. ASSUME NEW j \in 1..Len(o)
      PROVE  /\ HasText(d, z[j], "Time", o[j], Numeral(m.vectorTimes[o[j]]))
             /\ o[j] \in Numbers /\ o[j] # Null
             /\ m.vectorTimes[o[j]] \in Numbers
  <2>1. o[j] \in Numbers /\ o[j] # Null /\ m.vectorTimes[o[j]] \in Numbers
    BY <1>1, <1>3, MessageIsSound, NumeralAssumption
  <2>2. TimeLeaf(d, m, z[j], o[j])
    BY <1>1 DEF HasTimes
  <2>3. AttributesFor(o[j]) = <<NumberAttribute("NodeID", o[j])>>
    BY <2>1 DEF AttributesFor
  <2>4. Leaf(d, z[j], "Time", AttributesFor(o[j]), Numeral(m.vectorTimes[o[j]]))
    BY <2>2, <2>3 DEF TimeLeaf
  <2> QED BY <1>1, <2>1, <2>4, NumeralIsText, WordsInPrint DEF HasText
<1>6. /\ d.firstChild[x] = IF Len(o) = 0 THEN Null ELSE z[1]
      /\ \A j \in 1..Len(o) :
           /\ z[j] # Null /\ d.parent[z[j]] = x
           /\ d.next[z[j]] = IF j = Len(o) THEN Null ELSE z[j + 1]
  BY <1>1, <1>2, ListLinks
<1> QED BY <1>2, <1>4, <1>5, <1>6 DEF x, Elem

\* s is the printer at the visit v of n, with a attributes behind it: at the
\* tag of the message, at a field, at the tags of the times, at a time, at the
\* content, and at the end.
AtHead(v, n, a, s, m, r) ==
  /\ n = r
  /\ \/ v = "enter" /\ a = 0 /\ s = FirstPrinter
     \/ v = "attributes" /\ a = 0 /\ InTheTag(s, 2, 1) /\ s.out = <<"<", m.form>>
     \/ v = "attributes" /\ a = 1 /\ InTheTag(s, 8, 1) /\ HeadLine(s.out, m)
AtField(v, n, a, s, d, m, r, i) ==
  /\ TextA(s.out, m, i - 1)
  /\ AtLeaf(v, n, a, s, d, ListOf(d, r)[i], 10 * i, 2, FieldNames[i], Null,
            Numeral(FieldNumbers(m)[i]))
AtList(v, n, a, s, d, m, o, r) ==
  /\ n = ListOf(d, r)[4]
  /\ \/ v = "enter" /\ a = 0 /\ TextA(s.out, m, 3) /\ Ready(s, 40, 1)
     \/ v = "attributes" /\ a = 0 /\ TextB(s.out, m, o, 0) /\ InTheTag(s, 43, 2)
     \/ /\ v = "exit" /\ TextB(s.out, m, o, Len(o))
        /\ IF Len(o) = 0 THEN InTheTag(s, 43, 2)
           ELSE Ready(s, EndOfTimes(o), 2) /\ ~s.elementJustOpened
AtTime(v, n, a, s, d, m, o, r, j) ==
  /\ TextB(s.out, m, o, j - 1)
  /\ AtLeaf(v, n, a, s, d, ListOf(d, ListOf(d, r)[4])[j], 28 + 17 * j, 3, "Time",
            o[j], Numeral(m.vectorTimes[o[j]]))
AtContent(v, n, a, s, d, m, o, r) ==
  /\ TextC(s.out, m, o)
  /\ AtLeaf(v, n, a, s, d, ListOf(d, r)[5], BehindTimes(o), 2, "Content", Null,
            m.content)
AtFoot(v, n, s, m, o, r) ==
  /\ v = "exit" /\ n = r /\ TextD(s.out, m, o)
  /\ Ready(s, BehindContent(m, o), 1) /\ ~s.elementJustOpened
\* The text ends with a line break, behind the end tag of the message.
AllPrinted(t, m, o) ==
  /\ t \in Texts /\ MessageText(t, m, o) /\ Len(t) = BehindContent(m, o) + 5
  /\ \E s : TextD(s, m, o) /\ Len(s) = BehindContent(m, o) - 1 /\ Grown(s, t)

PrintsOn(v, n, a, s, d, m, o, r) ==
  \/ AtHead(v, n, a, s, m, r)
  \/ \E i \in 1..3 : AtField(v, n, a, s, d, m, r, i)
  \/ AtList(v, n, a, s, d, m, o, r)
  \/ \E j \in 1..Len(o) : AtTime(v, n, a, s, d, m, o, r, j)
  \/ AtContent(v, n, a, s, d, m, o, r)
  \/ AtFoot(v, n, s, m, o, r)
  \/ v = "done" /\ AllPrinted(s.out, m, o)
GoesInDocument(m, o) ==
  PrintsOn(visit', at', attribute', printer', doc, m, o, root)

LEMMA HeadIsPrinted ==
  ASSUME NEW m, NEW o, Prepared(doc, m, o, root),
         AtHead(visit, at, attribute, printer, m, root), Printing
  PROVE  GoesInDocument(m, o)
<1>1. /\ doc.kind[root] = "element" /\ doc.value[root] = <<m.form>>
      /\ doc.attributes[root] = <<NumberAttribute("Number", m.number)>>
      /\ doc.firstChild[root] = ListOf(doc, root)[1]
      /\ ListOf(doc, root)[1] # Null
  <2>1. 1 \in 1..5
    OBVIOUS
  <2> QED BY <2>1, RootLinks
<1>2. /\ IsMessage(m) /\ m.form \in Symbol \ {NUL} /\ m.number \in Numbers
      /\ "Number" \in Symbol \ {NUL}
  BY MessageIsSound, WordsInPrint DEF Prepared
<1>3. Len(doc.attributes[root]) = 1
      /\ doc.attributes[root][1] = NumberAttribute("Number", m.number)
  BY <1>1
<1>4. at = root
  BY DEF AtHead
<1>5. CASE visit = "enter" /\ attribute = 0 /\ printer = FirstPrinter
  <2>1. VisitEnter
    BY <1>1, <1>4, <1>5 DEF Printing, VisitEnter, VisitAttribute, VisitChildren,
                            VisitExit, Visit
  <2>2. /\ printer' = OpenElement(FirstPrinter, <<m.form>>)
        /\ visit' = "attributes" /\ at' = root /\ attribute' = 0
    BY <1>1, <1>4, <1>5, <2>1 DEF VisitEnter
  <2>3. InTheTag(printer', 2, 1) /\ printer'.out = <<"<", m.form>>
    BY <1>2, <2>2, FirstTagOpens
  <2> QED BY <2>2, <2>3 DEF GoesInDocument, PrintsOn, AtHead
<1>6. CASE /\ visit = "attributes" /\ attribute = 0 /\ InTheTag(printer, 2, 1)
           /\ printer.out = <<"<", m.form>>
  <2>1. VisitAttribute
    BY <1>3, <1>4, <1>6 DEF Printing, VisitEnter, VisitAttribute, VisitChildren,
                            VisitExit, Visit
  <2>2. /\ printer' = PushAttribute(printer, NumberAttribute("Number", m.number))
        /\ visit' = "attributes" /\ at' = root /\ attribute' = 1
    BY <1>3, <1>4, <1>6, <2>1 DEF VisitAttribute
  <2>3. /\ InTheTag(printer', 2 + 6, 1) /\ Grown(printer.out, printer'.out)
        /\ printer'.out[2 + 1] = OneBlank
        /\ NumberedAt(printer'.out, 2 + 2, "Number", m.number)
    <3>1. 2 \in Nat
      OBVIOUS
    <3> QED BY <1>2, <1>6, <2>2, <3>1, AttributeIsPushed
  <2>4. printer'.out[1] = "<" /\ printer'.out[2] = m.form
    BY <1>6, <2>3 DEF Grown
  <2>5. 2 + 6 = 8 /\ 2 + 1 = 3 /\ 2 + 2 = 4
    OBVIOUS
  <2>6. InTheTag(printer', 8, 1) /\ HeadLine(printer'.out, m)
    BY <2>3, <2>4, <2>5 DEF HeadLine, InTheTag
  <2> QED BY <2>2, <2>6 DEF GoesInDocument, PrintsOn, AtHead
<1>7. CASE /\ visit = "attributes" /\ attribute = 1 /\ InTheTag(printer, 8, 1)
           /\ HeadLine(printer.out, m)
  <2>1. VisitChildren
    BY <1>3, <1>4, <1>7 DEF Printing, VisitEnter, VisitAttribute, VisitChildren,
                            VisitExit, Visit
  <2>2. /\ printer' = printer /\ visit' = "enter"
        /\ at' = ListOf(doc, root)[1] /\ attribute' = 0
    BY <1>1, <1>4, <2>1 DEF VisitChildren, Goes
  <2>3. Ready(printer, 10, 1)
    <3>1. 8 \in Nat /\ 8 + 2 = 10
      OBVIOUS
    <3> QED BY <1>7, <3>1, TagIsReady
  <2>4. TextA(printer.out, m, 1 - 1) /\ 1 - 1 = 0 /\ 10 * 1 = 10 /\ 2 - 1 = 1 /\ 1 \in 1..3
    <3>1. Len(printer.out) \in Nat
      BY <1>7 DEF InTheTag
    <3> QED BY <1>7, <3>1 DEF TextA
  <2>5. AtLeaf(visit', at', attribute', printer', doc, ListOf(doc, root)[1], 10 * 1,
               2, FieldNames[1], Null, Numeral(FieldNumbers(m)[1]))
    BY <2>2, <2>3, <2>4 DEF AtLeaf
  <2>6. AtField(visit', at', attribute', printer', doc, m, root, 1)
    BY <2>2, <2>4, <2>5 DEF AtField
  <2> QED BY <2>4, <2>6 DEF GoesInDocument, PrintsOn
<1> QED BY <1>5, <1>6, <1>7 DEF AtHead

LEMMA FieldIsPrinted ==
  ASSUME NEW m, NEW o, Prepared(doc, m, o, root), NEW i \in 1..3,
         AtField(visit, at, attribute, printer, doc, m, root, i), Printing
  PROVE  GoesInDocument(m, o)
<1> DEFINE y == ListOf(doc, root)
           x == y[i]
           w == Numeral(FieldNumbers(m)[i])
           name == FieldNames[i]
<1>1. HasText(doc, x, name, Null, w)
  BY FieldLinks
<1>2. GoesThrough(x, 10 * i, 2, name, Null, w)
  <2>1. 10 * i \in Nat /\ 10 * i >= 2
    OBVIOUS
  <2>2. AtLeaf(visit, at, attribute, printer, doc, x, 10 * i, 2, name, Null, w)
    BY DEF AtField
  <2> HIDE DEF x, w, name
  <2> QED BY <1>1, <2>1, <2>2, LineIsPrinted
<1>3. TextA(printer'.out, m, i - 1)
  <2>1. i - 1 \in 0..3
    OBVIOUS
  <2> QED BY <1>2, <2>1, TextAStays DEF AtField, GoesThrough
<1>4. CASE AtLeaf(visit', at', attribute', printer', doc, x, 10 * i, 2, name, Null, w)
  BY <1>3, <1>4 DEF GoesInDocument, PrintsOn, AtField
<1>5. CASE /\ LeafDone(printer', 10 * i, 2, name, Null, w)
           /\ Goes(doc.next[x], doc.parent[x])
  <2>1. PrintString(w, restrictedEntities) = w /\ Len(w) = 1
    BY NumeralIsPlain, OneLong, MessageIsSound DEF Prepared, restrictedEntities, entities
  <2>2. Behind(10 * i, 2, Null, w) = 10 * (i + 1)
    BY <2>1 DEF Behind, TagEnd
  <2>3. Ready(printer', 10 * (i + 1), 1)
    <3>1. Ready(printer', Behind(10 * i, 2, Null, w), 2 - 1)
      BY <1>5, <2>1 DEF LeafDone
    <3> QED BY <2>2, <3>1
  <2>4. TextA(printer'.out, m, i)
    <3>1. FieldLine(printer'.out, m, i)
      BY <1>5, <2>1 DEF LeafDone, FieldLine
    <3>2. \A k \in 1..i : k = i \/ k \in 1..i - 1
      OBVIOUS
    <3> QED BY <1>3, <3>1, <3>2 DEF TextA
  <2>5. /\ y[i + 1] # Null /\ doc.next[x] = y[i + 1] /\ i \in 1..5 /\ i + 1 \in 1..5
    <3>1. i \in 1..5 /\ i + 1 \in 1..5 /\ i # 5
      OBVIOUS
    <3> QED BY <3>1, RootLinks
  <2>6. visit' = "enter" /\ at' = y[i + 1] /\ attribute' = 0
    BY <1>5, <2>5 DEF Goes
  <2>7. CASE i = 3
    <3>1. 10 * (i + 1) = 40 /\ i + 1 = 4
      BY <2>7
    <3>2. AtList(visit', at', attribute', printer', doc, m, o, root)
      BY <2>3, <2>4, <2>6, <2>7, <3>1 DEF AtList
    <3> QED BY <3>2 DEF GoesInDocument, PrintsOn
  <2>8. CASE i # 3
    <3>1. i + 1 \in 1..3 /\ (i + 1) - 1 = i /\ 2 - 1 = 1
      BY <2>8
    <3>2. AtField(visit', at', attribute', printer', doc, m, root, i + 1)
      BY <2>3, <2>4, <2>6, <3>1 DEF AtField, AtLeaf
    <3> QED BY <3>1, <3>2 DEF GoesInDocument, PrintsOn
  <2> QED BY <2>7, <2>8
<1> QED BY <1>2, <1>4, <1>5 DEF GoesThrough

LEMMA TimeIsPrinted ==
  ASSUME NEW m, NEW o, Prepared(doc, m, o, root), NEW j \in 1..Len(o),
         AtTime(visit, at, attribute, printer, doc, m, o, root, j), Printing
  PROVE  GoesInDocument(m, o)
<1> DEFINE x == ListOf(doc, root)[4]
           z == ListOf(doc, x)
           w == Numeral(m.vectorTimes[o[j]])
           p == 28 + 17 * j
<1>1. /\ HasText(doc, z[j], "Time", o[j], w) /\ Len(o) \in Nat
      /\ o[j] # Null /\ m.vectorTimes[o[j]] \in Numbers
      /\ doc.parent[z[j]] = x
      /\ doc.next[z[j]] = IF j = Len(o) THEN Null ELSE z[j + 1]
  BY TimeLinks
<1>2. x # Document /\ x # Null
  <2>1. 4 \in 1..5
    OBVIOUS
  <2> QED BY <2>1, RootLinks
<1>3. j \in Nat /\ j >= 1 /\ j <= Len(o) /\ p \in Nat /\ p >= 2
  BY <1>1
<1>4. AtLeaf(visit, at, attribute, printer, doc, z[j], p, 3, "Time", o[j], w)
      /\ TextB(printer.out, m, o, j - 1)
  BY DEF AtTime
<1>5. GoesThrough(z[j], p, 3, "Time", o[j], w)
  <2> HIDE DEF z, p, w
  <2> QED BY <1>1, <1>3, <1>4, LineIsPrinted
<1>6. TextB(printer'.out, m, o, j - 1)
  <2>1. j - 1 \in Nat
    BY <1>3
  <2> QED BY <1>4, <1>5, <2>1, TextBStays DEF GoesThrough
<1>7. CASE AtLeaf(visit', at', attribute', printer', doc, z[j], p, 3, "Time", o[j], w)
  <2>1. AtTime(visit', at', attribute', printer', doc, m, o, root, j)
    BY <1>6, <1>7 DEF AtTime
  <2> QED BY <2>1 DEF GoesInDocument, PrintsOn
<1>8. CASE /\ LeafDone(printer', p, 3, "Time", o[j], w)
           /\ Goes(doc.next[z[j]], doc.parent[z[j]])
  <2>1. PrintString(w, restrictedEntities) = w /\ Len(w) = 1
    BY <1>1, NumeralIsPlain, OneLong DEF restrictedEntities, entities
  <2>2. Behind(p, 3, o[j], w) = 28 + 17 * (j + 1)
    <3>1. Behind(p, 3, o[j], w) = (p + 3 + 8) + 1 + 5
      <4>1. p \in Nat /\ o[j] # Null
        BY <1>1, <1>3
      <4> QED BY ONLY <2>1, <4>1 DEF Behind, TagEnd
    <3> QED BY <1>3, <3>1
  <2>3. Ready(printer', 28 + 17 * (j + 1), 2) /\ ~printer'.elementJustOpened
    <3>1. Ready(printer', Behind(p, 3, o[j], w), 3 - 1) /\ ~printer'.elementJustOpened
      BY <1>8, <2>1 DEF LeafDone
    <3>2. 3 - 1 = 2
      OBVIOUS
    <3> HIDE DEF p
    <3> QED BY <2>2, <3>1, <3>2
  <2>4. TextB(printer'.out, m, o, j)
    <3>1. TimeLine(printer'.out, m, o, j)
      BY <1>8, <2>1 DEF LeafDone, TimeLine
    <3>2. \A k \in 1..j : k = j \/ k \in 1..j - 1
      BY <1>3
    <3> QED BY <1>6, <3>1, <3>2 DEF TextB
  <2>5. CASE j = Len(o)
    <3>1. visit' = "exit" /\ at' = x
      BY <1>1, <1>2, <1>8, <2>5 DEF Goes
    <3>2. 28 + 17 * (j + 1) = EndOfTimes(o) /\ Len(o) # 0
      BY <1>3, <2>5 DEF EndOfTimes
    <3>3. Ready(printer', EndOfTimes(o), 2)
      BY <2>3, <3>2
    <3>4. AtList(visit', at', attribute', printer', doc, m, o, root)
      BY <2>3, <2>4, <2>5, <3>1, <3>2, <3>3 DEF AtList
    <3> QED BY <3>4 DEF GoesInDocument, PrintsOn
  <2>6. CASE j # Len(o)
    <3>1. j + 1 \in 1..Len(o) /\ (j + 1) - 1 = j /\ 3 - 1 = 2
      BY <1>1, <1>3, <2>6
    <3>2. z[j + 1] # Null
      BY <3>1, TimeLinks
    <3>3. visit' = "enter" /\ at' = z[j + 1] /\ attribute' = 0
      BY <1>1, <1>8, <2>6, <3>2 DEF Goes
    <3>4. AtTime(visit', at', attribute', printer', doc, m, o, root, j + 1)
      BY <2>3, <2>4, <3>1, <3>3 DEF AtTime, AtLeaf
    <3> QED BY <3>1, <3>4 DEF GoesInDocument, PrintsOn
  <2> QED BY <2>5, <2>6
<1> QED BY <1>5, <1>7, <1>8 DEF GoesThrough

LEMMA ListIsPrinted ==
  ASSUME NEW m, NEW o, Prepared(doc, m, o, root),
         AtList(visit, at, attribute, printer, doc, m, o, root), Printing
  PROVE  GoesInDocument(m, o)
<1> DEFINE y == ListOf(doc, root)
           x == y[4]
           z == ListOf(doc, x)
<1>1. /\ doc.kind[x] = "element" /\ doc.value[x] = <<"VectorTimes">>
      /\ doc.attributes[x] = <<>> /\ Len(o) \in Nat
      /\ doc.firstChild[x] = IF Len(o) = 0 THEN Null ELSE z[1]
      /\ \A j \in 1..Len(o) : z[j] # Null
  BY TimeLinks
<1>2. /\ x # Document /\ x # Null /\ y[5] # Null /\ doc.next[x] = y[5]
  <2>1. 4 \in 1..5 /\ 5 \in 1..5 /\ 4 + 1 = 5 /\ 4 # 5
    OBVIOUS
  <2> QED BY <2>1, RootLinks
<1>3. at = x /\ "VectorTimes" \in Symbol \ {NUL} /\ Len(<<>>) = 0
  BY WordsInPrint DEF AtList
<1> HIDE DEF x, z
<1>4. CASE /\ visit = "enter" /\ attribute = 0 /\ TextA(printer.out, m, 3)
           /\ Ready(printer, 40, 1)
  <2>1. VisitEnter
    BY <1>1, <1>3, <1>4 DEF Printing, VisitEnter, VisitAttribute, VisitChildren,
                            VisitExit, Visit
  <2>2. /\ printer' = OpenElement(printer, <<"VectorTimes">>)
        /\ visit' = "attributes" /\ at' = x /\ attribute' = 0
    BY <1>1, <1>3, <1>4, <2>1 DEF VisitEnter
  <2>3. /\ InTheTag(printer', 40 + 1 + 2, 1 + 1) /\ Grown(printer.out, printer'.out)
        /\ Opening(printer'.out, 40, 1 + 1, "VectorTimes")
    <3>1. 40 \in Nat /\ 40 >= 2 /\ 1 \in Nat
      OBVIOUS
    <3> QED BY <1>3, <1>4, <2>2, <3>1, ElementOpens
  <2>4. 40 + 1 + 2 = 43 /\ 1 + 1 = 2 /\ 3 \in 0..3
    OBVIOUS
  <2>5. TextA(printer'.out, m, 3)
    BY <1>4, <2>3, <2>4, TextAStays
  <2>6. InTheTag(printer', 43, 2) /\ ListTag(printer'.out)
    BY <2>3, <2>4 DEF ListTag, InTheTag
  <2>7. TextB(printer'.out, m, o, 0)
    BY <2>5, <2>6 DEF TextB
  <2> QED BY <2>2, <2>6, <2>7 DEF GoesInDocument, PrintsOn, AtList, x
<1>5. CASE /\ visit = "attributes" /\ attribute = 0
           /\ TextB(printer.out, m, o, 0) /\ InTheTag(printer, 43, 2)
  <2>1. VisitChildren
    BY <1>1, <1>3, <1>5 DEF Printing, VisitEnter, VisitAttribute, VisitChildren,
                            VisitExit, Visit
  <2>2. CASE Len(o) = 0
    <3>1. printer' = printer /\ visit' = "exit" /\ at' = x
      BY <1>1, <1>2, <1>3, <2>1, <2>2 DEF VisitChildren, Goes
    <3>2. AtList(visit', at', attribute', printer', doc, m, o, root)
      BY <1>5, <2>2, <3>1 DEF AtList, x
    <3> QED BY <3>2 DEF GoesInDocument, PrintsOn
  <2>3. CASE Len(o) # 0
    <3>1. 1 \in 1..Len(o) /\ 1 - 1 = 0 /\ 28 + 17 * 1 = 45 /\ 43 + 2 = 45 /\ 3 - 1 = 2
          /\ 43 \in Nat
      BY <1>1, <2>3
    <3>2. printer' = printer /\ visit' = "enter" /\ at' = z[1] /\ attribute' = 0
      BY <1>1, <1>3, <2>1, <2>3, <3>1 DEF VisitChildren, Goes
    <3>3. Ready(printer, 45, 2)
      BY <1>5, <3>1, TagIsReady
    <3>4. AtTime(visit', at', attribute', printer', doc, m, o, root, 1)
      BY <1>5, <3>1, <3>2, <3>3 DEF AtTime, AtLeaf, z, x
    <3> QED BY <3>1, <3>4 DEF GoesInDocument, PrintsOn
  <2> QED BY <2>2, <2>3
<1>6. CASE /\ visit = "exit" /\ TextB(printer.out, m, o, Len(o))
           /\ IF Len(o) = 0 THEN InTheTag(printer, 43, 2)
              ELSE Ready(printer, EndOfTimes(o), 2) /\ ~printer.elementJustOpened
  <2>1. VisitExit
    BY <1>3, <1>6 DEF Printing, VisitEnter, VisitAttribute, VisitChildren,
                      VisitExit, Visit
  <2>2. /\ printer' = CloseElement(printer, <<"VectorTimes">>)
        /\ visit' = "enter" /\ at' = y[5] /\ attribute' = 0
    BY <1>1, <1>2, <1>3, <2>1 DEF VisitExit, GoesOn, Goes
  <2>3. /\ Ready(printer', BehindTimes(o), 1) /\ Grown(printer.out, printer'.out)
        /\ ListEnd(printer'.out, o)
    <3>1. CASE Len(o) = 0
      <4>1. 43 \in Nat /\ 43 + 3 = 46 /\ 43 + 1 = 44 /\ 43 + 2 = 45
        OBVIOUS
      <4>2. /\ Ready(printer', 46, 1) /\ ~printer'.elementJustOpened
            /\ Grown(printer.out, printer'.out)
            /\ printer'.out[44] = "/" /\ printer'.out[45] = ">"
        BY <1>6, <2>2, <3>1, <4>1, EmptyCloses
      <4>3. Len(printer'.out) = 45
        BY <4>2 DEF Ready
      <4> QED BY <3>1, <4>2, <4>3 DEF BehindTimes, ListEnd
    <3>2. CASE Len(o) # 0
      <4> DEFINE p == EndOfTimes(o)
      <4>1. p \in Nat /\ p >= 2
        BY <1>1 DEF EndOfTimes
      <4> HIDE DEF p
      <4>2. /\ Ready(printer', p + 6, 1) /\ ~printer'.elementJustOpened
            /\ Grown(printer.out, printer'.out) /\ Closing(printer'.out, p + 2, "VectorTimes")
            /\ printer'.out[p] \in Blank /\ printer'.out[p + 1] \in Blank
        BY <1>3, <1>6, <2>2, <3>2, <4>1, ListCloses DEF p
      <4>3. Len(printer'.out) >= p + 5
        BY <4>1, <4>2 DEF Ready
      <4> QED BY <3>2, <4>2, <4>3 DEF BehindTimes, ListEnd, p
    <3> QED BY <3>1, <3>2
  <2>4. TextC(printer'.out, m, o)
    BY <1>1, <1>6, <2>3, TextBStays DEF TextC
  <2>5. 2 - 1 = 1
    OBVIOUS
  <2>6. AtContent(visit', at', attribute', printer', doc, m, o, root)
    BY <2>2, <2>3, <2>4, <2>5 DEF AtContent, AtLeaf
  <2> QED BY <2>6 DEF GoesInDocument, PrintsOn
<1> QED BY <1>4, <1>5, <1>6 DEF AtList, x

LEMMA PlaceOfContent ==
  ASSUME NEW o, Len(o) \in Nat
  PROVE  BehindTimes(o) \in Nat /\ BehindTimes(o) >= 46
BY DEF BehindTimes, EndOfTimes

LEMMA ContentIsPrinted ==
  ASSUME NEW m, NEW o, Prepared(doc, m, o, root),
         AtContent(visit, at, attribute, printer, doc, m, o, root), Printing
  PROVE  GoesInDocument(m, o)
<1> DEFINE x == ListOf(doc, root)[5]
           p == BehindTimes(o)
<1>1. HasText(doc, x, "Content", Null, m.content)
  BY FieldLinks
<1>2. Len(o) \in Nat /\ p \in Nat /\ p >= 2
  BY PlaceOfContent, TimeLinks
<1>3. AtLeaf(visit, at, attribute, printer, doc, x, p, 2, "Content", Null, m.content)
      /\ TextC(printer.out, m, o)
  BY DEF AtContent
<1>4. /\ doc.next[x] = Null /\ doc.parent[x] = root
      /\ root # Document
  <2>1. 5 \in 1..5
    OBVIOUS
  <2> QED BY <2>1, RootLinks
<1>5. GoesThrough(x, p, 2, "Content", Null, m.content)
  <2> HIDE DEF x, p
  <2> QED BY <1>1, <1>2, <1>3, LineIsPrinted
<1>6. TextC(printer'.out, m, o)
  BY <1>2, <1>3, <1>5, TextCStays DEF GoesThrough
<1>7. CASE AtLeaf(visit', at', attribute', printer', doc, x, p, 2, "Content", Null,
                  m.content)
  <2>1. AtContent(visit', at', attribute', printer', doc, m, o, root)
    BY <1>6, <1>7 DEF AtContent
  <2> QED BY <2>1 DEF GoesInDocument, PrintsOn
<1>8. CASE /\ LeafDone(printer', p, 2, "Content", Null, m.content)
           /\ Goes(doc.next[x], doc.parent[x])
  <2>1. visit' = "exit" /\ at' = root
    BY <1>4, <1>8 DEF Goes
  <2>2. ContentLine(printer'.out, m, o)
    BY <1>8 DEF LeafDone, ContentLine, Encoded
  <2>3. /\ Ready(printer', BehindContent(m, o), 2 - 1) /\ 2 - 1 = 1
        /\ ~printer'.elementJustOpened
    BY <1>8 DEF LeafDone, BehindContent, Encoded
  <2>4. AtFoot(visit', at', printer', m, o, root)
    BY <1>6, <2>1, <2>2, <2>3 DEF AtFoot, TextD
  <2> QED BY <2>4 DEF GoesInDocument, PrintsOn
<1> QED BY <1>5, <1>7, <1>8 DEF GoesThrough

LEMMA FootIsPrinted ==
  ASSUME NEW m, NEW o, Prepared(doc, m, o, root),
         AtFoot(visit, at, printer, m, o, root), Printing
  PROVE  GoesInDocument(m, o)
<1> DEFINE p == BehindContent(m, o)
<1>1. /\ doc.value[root] = <<m.form>> /\ doc.next[root] = Null
      /\ doc.parent[root] = Document
  BY RootLinks
<1>2. at = root /\ visit = "exit"
  BY DEF AtFoot
<1>3. VisitExit
  BY <1>2 DEF Printing, VisitEnter, VisitAttribute, VisitChildren, VisitExit, Visit
<1>4. printer' = CloseElement(printer, <<m.form>>) /\ visit' = "done"
  BY <1>1, <1>2, <1>3 DEF VisitExit, GoesOn, Goes
<1>5. m.form \in Symbol \ {NUL} /\ Len(o) \in Nat /\ Len(Encoded(m)) \in Nat
  <2>1. m.content \in Texts /\ m.form \in Forms
    BY MessageIsSound DEF Prepared
  <2> QED BY <2>1, TextIsEncoded, WordsInPrint, TimeLinks DEF Encoded
<1>6. p \in Nat /\ p >= 2
  <2>1. p = BehindTimes(o) + 4 + Len(Encoded(m)) + 5
    BY <1>5, PlaceOfContent DEF BehindContent, Behind, TagEnd
  <2> QED BY <1>5, <2>1, PlaceOfContent
<1>7. /\ Len(printer'.out) = p + 5 /\ Grown(printer.out, printer'.out)
      /\ printer'.out[p] \in Blank /\ Closing(printer'.out, p + 1, m.form)
      /\ printer'.out[p + 5] \in Blank /\ printer'.out \in Texts
  <2>1. Ready(printer, p, 1) /\ ~printer.elementJustOpened
    BY DEF AtFoot
  <2> HIDE DEF p
  <2> QED BY <1>4, <1>5, <1>6, <2>1, RootCloses
<1>8. TextD(printer'.out, m, o)
  BY <1>5, <1>7, TextDStays DEF AtFoot
<1>9. AllPrinted(printer'.out, m, o)
  <2>1. TextD(printer.out, m, o) /\ Len(printer.out) = p - 1
    BY DEF AtFoot, Ready
  <2> QED BY <1>7, <1>8, <2>1 DEF AllPrinted, MessageText
<1> QED BY <1>4, <1>9 DEF GoesInDocument, PrintsOn

LEMMA MessagePrints ==
  ASSUME NEW m, NEW o, Prepared(doc, m, o, root),
         PrintsOn(visit, at, attribute, printer, doc, m, o, root), Printing
  PROVE  GoesInDocument(m, o)
<1>1. visit # "done"
  BY DEF Printing, VisitEnter, VisitAttribute, VisitChildren, VisitExit, Visit
<1>2. CASE AtHead(visit, at, attribute, printer, m, root)
  BY <1>2, HeadIsPrinted
<1>3. ASSUME NEW i \in 1..3, AtField(visit, at, attribute, printer, doc, m, root, i)
      PROVE  GoesInDocument(m, o)
  BY <1>3, FieldIsPrinted
<1>4. CASE AtList(visit, at, attribute, printer, doc, m, o, root)
  BY <1>4, ListIsPrinted
<1>5. ASSUME NEW j \in 1..Len(o),
             AtTime(visit, at, attribute, printer, doc, m, o, root, j)
      PROVE  GoesInDocument(m, o)
  BY <1>5, TimeIsPrinted
<1>6. CASE AtContent(visit, at, attribute, printer, doc, m, o, root)
  BY <1>6, ContentIsPrinted
<1>7. CASE AtFoot(visit, at, printer, m, o, root)
  BY <1>7, FootIsPrinted
<1> QED BY <1>1, <1>2, <1>3, <1>4, <1>5, <1>6, <1>7 DEF PrintsOn

\* What has been printed of the message, and what is sent of it
PlaceInv ==
  writing \in {"printing", "sent"} /\ visit # "idle" =>
    \E o : /\ Prepared(doc, message, o, root)
           /\ PrintsOn(visit, at, attribute, printer, doc, message, o, root)
SentInv ==
  text # <<>> =>
    \E o, w : /\ IsMessage(message) /\ IsOrder(message, o)
              /\ AllPrinted(w, message, o) /\ text = Append(w, NUL)

LEMMA TreeIsPrepared ==
  ASSUME WriterInv, TreeInv, writing \in {"printing", "sent"}
  PROVE  \E o : Prepared(doc, message, o, root)
<1>1. IsMessage(message)
  BY DEF WriterInv
<1> QED BY <1>1 DEF TreeInv, Prepared, Tidy

LEMMA PrintGoesOn ==
  ASSUME WriterInv, PrinterInv, TreeInv, PlaceInv, write PROVE PlaceInv' /\ TreeInv'
<1>1. /\ writing = "printing" /\ (Accept \/ Printing)
      /\ UNCHANGED <<doc, message, root, writing>> /\ UNCHANGED xvectorTimes
      /\ UNCHANGED left
  BY DEF write, writerVars, transferVars
<1>2. TreeInv'
  BY <1>1 DEF TreeInv
<1>3. CASE Accept
  <2>1. PICK o : Prepared(doc, message, o, root)
    BY <1>1, TreeIsPrepared
  <2>2. /\ visit' = "enter" /\ at' = root /\ attribute' = 0 /\ printer' = printer
    BY <1>3, <2>1, RootLinks DEF Accept, Goes
  <2>3. printer = FirstPrinter
    BY <1>3 DEF PrinterInv, Prints, Accept
  <2>4. PrintsOn(visit', at', attribute', printer', doc, message, o, root)
    BY <2>2, <2>3 DEF PrintsOn, AtHead
  <2> QED BY <1>1, <1>2, <2>1, <2>4 DEF PlaceInv
<1>4. CASE Printing
  <2>1. visit # "idle"
    BY <1>4 DEF Printing, VisitEnter, VisitAttribute, VisitChildren, VisitExit, Visit
  <2>2. PICK o : /\ Prepared(doc, message, o, root)
                 /\ PrintsOn(visit, at, attribute, printer, doc, message, o, root)
    BY <1>1, <2>1 DEF PlaceInv
  <2>3. PrintsOn(visit', at', attribute', printer', doc, message, o, root)
    BY <1>4, <2>2, MessagePrints DEF GoesInDocument
  <2> QED BY <1>1, <1>2, <2>2, <2>3 DEF PlaceInv
<1> QED BY <1>1, <1>3, <1>4

LEMMA TextIsSent ==
  ASSUME PlaceInv, convertToString PROVE SentInv' /\ PlaceInv'
<1>1. /\ writing = "printing" /\ visit = "done" /\ text' = Append(printer.out, NUL)
      /\ UNCHANGED <<doc, message, root>> /\ UNCHANGED printerVars
  BY DEF convertToString, Sends
<1>2. PICK o : /\ Prepared(doc, message, o, root)
               /\ PrintsOn(visit, at, attribute, printer, doc, message, o, root)
  BY <1>1 DEF PlaceInv
<1>3. AllPrinted(printer.out, message, o)
  BY <1>1, <1>2 DEF PrintsOn, AtHead, AtField, AtLeaf, AtList, AtTime, AtContent,
                    AtFoot
<1>4. SentInv'
  BY <1>1, <1>2, <1>3 DEF SentInv, Prepared
<1>5. PlaceInv'
  BY <1>1, <1>2 DEF PlaceInv, printerVars
<1> QED BY <1>4, <1>5

-----------------------------------------------------------------------------
(* What the parser reads of that text                                       *)

LEMMA EntitiesDiffer ==
  /\ \A c, e \in DOMAIN entities : entities[c] = entities[e] => c = e
  /\ \A c \in DOMAIN entities : entities[c] \notin Blank \cup {"<"}
  /\ "<" \in restrictedEntities /\ restrictedEntities \subseteq DOMAIN entities
BY DEF entities, Blank, LineEnd, restrictedEntities

\* What is printed of a content is read as that content, but for line ends.
LEMMA ContentIsRead ==
  ASSUME NEW w \in Contents
  PROVE  LET u == PrintString(w, restrictedEntities)
         IN /\ u \in Value /\ Len(u) = Len(w) /\ Len(w) \in Nat
            /\ GetStr(u) = Normalized(w)
            /\ \A i \in 1..Len(w) : /\ u[i] # "<"
                                    /\ u[i] \in Blank <=> w[i] \in Blank
<1> DEFINE u == PrintString(w, restrictedEntities)
<1>1. w \in Texts /\ w \in Value
  BY ContentIsText
<1>2. /\ u \in Texts /\ Len(u) = Len(w) /\ Len(w) \in Nat /\ DOMAIN u = 1..Len(w)
  BY <1>1, TextIsEncoded
<1>3. u \in Value
  BY <1>2, SeqMonotonic DEF Texts, Value
<1>4. \A i \in 1..Len(w) :
        u[i] = IF w[i] \in restrictedEntities THEN entities[w[i]] ELSE w[i]
  BY <1>1 DEF PrintString, Texts
<1>5. \A i \in 1..Len(w) : /\ w[i] \in Symbol
                           /\ \A c \in DOMAIN entities : entities[c] # w[i]
  BY ContentIsText
<1>6. \A i \in 1..Len(w) : u[i] \in Symbol
  BY <1>2, <1>3 DEF Value
<1>7. /\ GetStr(u) \in Value /\ Len(GetStr(u)) = Len(w)
      /\ \A i \in 1..Len(w) : GetStr(u)[i] = Unescaped(u[i])
  BY <1>2, <1>3, DecodedIsText
<1> HIDE DEF u
<1>8. ASSUME NEW i \in 1..Len(w)
      PROVE  /\ Unescaped(u[i]) = AsNewline(w[i]) /\ u[i] # "<"
             /\ u[i] \in Blank <=> w[i] \in Blank
  <2>1. CASE w[i] \in restrictedEntities
    <3>1. u[i] = entities[w[i]] /\ w[i] \in DOMAIN entities
      BY <1>4, <2>1, EntitiesDiffer
    <3>2. Unescaped(u[i]) = w[i]
      BY <1>6, <3>1, UnescapedIsSymbol, EntitiesDiffer
    <3>3. w[i] \notin Blank
      BY <2>1 DEF restrictedEntities, Blank, LineEnd
    <3>4. AsNewline(w[i]) = w[i]
      BY <3>3 DEF AsNewline, Blank
    <3> QED BY <3>1, <3>2, <3>3, <3>4, EntitiesDiffer
  <2>2. CASE w[i] \notin restrictedEntities
    <3>1. u[i] = w[i]
      BY <1>4, <2>2
    <3>2. Unescaped(u[i]) = AsNewline(w[i])
      BY <1>5, <1>6, <3>1, UnescapedIsSymbol
    <3> QED BY <2>2, <3>1, <3>2, EntitiesDiffer
  <2> QED BY <2>1, <2>2
<1>9. GetStr(u) = Normalized(w)
  <2>1. /\ Normalized(w) \in Value /\ Len(Normalized(w)) = Len(w)
        /\ \A i \in 1..Len(w) : Normalized(w)[i] = AsNewline(w[i])
    BY <1>1, NormalizedIsText
  <2>2. \A i \in 1..Len(w) : GetStr(u)[i] = Normalized(w)[i]
    BY <1>7, <1>8, <2>1
  <2>3. /\ GetStr(u) = [i \in 1..Len(w) |-> GetStr(u)[i]]
        /\ Normalized(w) = [i \in 1..Len(w) |-> Normalized(w)[i]]
    BY <1>7, <2>1 DEF Value
  <2> QED BY <2>2, <2>3
<1> QED BY <1>2, <1>3, <1>8, <1>9 DEF u

LEMMA NumeralIsContent ==
  ASSUME NEW k \in Numbers
  PROVE  /\ Numeral(k) \in Contents /\ ~isBlank(Numeral(k))
         /\ Normalized(Numeral(k)) = Numeral(k)
<1>1. ToString(k) \in Symbol \ Markup /\ Numeral(k) = <<ToString(k)>>
  BY NumeralFacts
<1>2. /\ NUL \in Markup /\ \A c \in DOMAIN entities : entities[c] \in Markup
      /\ Blank \subseteq Markup
  BY DEF Markup
<1>3. Numeral(k) \in Contents /\ Normalized(Numeral(k)) = Numeral(k)
  <2>1. ToString(k) \in Inside \ LineEnd
    <3>1. LineEnd \subseteq Markup
      BY <1>2 DEF Blank
    <3>2. ToString(k) # NUL /\ \A c \in DOMAIN entities : entities[c] # ToString(k)
      BY <1>1, <1>2
    <3> QED BY <1>1, <3>1, <3>2 DEF Inside
  <2>2. Numeral(k) \in Seq(Inside \ LineEnd)
    BY <1>1, <2>1
  <2> QED BY <2>2, LineIsContent
<1>4. ToString(k) \in ToSet(Numeral(k))
  BY <1>1 DEF ToSet
<1> QED BY <1>1, <1>2, <1>3, <1>4 DEF isBlank

\* A part of the text that is known
LEMMA PartIs ==
  ASSUME NEW t \in Value, NEW u \in Value, NEW a \in Nat, a + Len(u) <= Len(t),
         \A i \in 1..Len(u) : t[a + i] = u[i]
  PROVE  SubSeq(t, a + 1, a + Len(u)) = u
<1>1. Len(u) \in Nat /\ Len(t) \in Nat
  BY DEF Value
<1>2. /\ SubSeq(t, a + 1, a + Len(u)) \in Seq(Symbol)
      /\ Len(SubSeq(t, a + 1, a + Len(u))) = Len(u)
      /\ \A i \in 1..Len(u) : SubSeq(t, a + 1, a + Len(u))[i] = t[a + i]
  BY <1>1 DEF Value
<1>3. u \in Seq(Symbol)
  BY DEF Value
<1> HIDE DEF Value
<1> DEFINE v == SubSeq(t, a + 1, a + Len(u))
<1>4. \A i \in 1..Len(u) : v[i] = u[i]
  BY <1>2
<1>5. v \in Seq(Symbol) /\ Len(v) = Len(u)
  BY <1>2
<1> HIDE DEF v
<1>6. v = u
  BY <1>3, <1>4, <1>5, SeqEqual
<1> QED BY <1>6 DEF v

LEMMA StackTop ==
  ASSUME NEW h \in Seq(Node), NEW x \in Node
  PROVE  LET s == Append(h, x)
         IN /\ s # <<>> /\ Innermost(s) = x /\ SubSeq(s, 1, Len(s) - 1) = h
            /\ ToSet(s) = ToSet(h) \cup {x}
<1> DEFINE s == Append(h, x)
<1>1. s \in Seq(Node) /\ Len(s) = Len(h) + 1 /\ s[Len(s)] = x /\ s # <<>>
  OBVIOUS
<1>2. SubSeq(s, 1, Len(s) - 1) = h
  BY <1>1
<1>3. ToSet(s) = ToSet(h) \cup {x}
  <2>1. Len(h) \in Nat /\ s[Len(h) + 1] = x /\ \A i \in 1..Len(h) : s[i] = h[i]
    OBVIOUS
  <2>2. ToSet(s) = {s[i] : i \in 1..Len(h) + 1} /\ ToSet(h) = {h[i] : i \in 1..Len(h)}
    BY <1>1 DEF ToSet
  <2>3. 1..Len(h) + 1 = 1..Len(h) \cup {Len(h) + 1}
    BY <2>1
  <2> HIDE DEF s
  <2> QED BY <2>1, <2>2, <2>3
<1> QED BY <1>1, <1>2, <1>3 DEF Innermost

-----------------------------------------------------------------------------
(* The steps of the parser, where it is known what the text is              *)

LEMMA OpeningIsParsed ==
  ASSUME charBuffer \in Value, NEW p \in Nat \ {0}, place = p, parsing = "children",
         NEW q \in Nat, p <= q, q + 2 <= Len(charBuffer),
         \A i \in p..q - 1 : charBuffer[i] \in Blank, charBuffer[q] = "<",
         NEW name \in Words, charBuffer[q + 1] = name, charBuffer[q + 2] \in Markup,
         NEW P, Tidy(parsed, P), Parsing
  PROVE  /\ parsing' = "attributes" /\ open' = open /\ ~closing'
         /\ place' = q + 2 /\ charBuffer' = charBuffer
         /\ MadeNode(parsed, parsed', P, tag', "element", <<name>>)
         /\ Elem(parsed', tag', name, <<>>, <<>>)
<1> DEFINE t == charBuffer
<1>1. name \notin {"!", "?"} /\ name \notin Blank /\ name # "/" /\ name \in Symbol
  BY WordsAreNames
<1>2. Next = [kind |-> "element", p |-> q + 1] /\ ~AtEnd(t, place)
  BY <1>1, ElementIsThere DEF Next
<1>3. ParseElement
  BY <1>2 DEF Parsing, ParseEnd, ParseMarked, ParseElement, ParseAttribute, BadTag,
              ClosedElement, OpenTag, ClosingTag, StrayTag, InTag, InLoop
<1>4. q + 1 \in Nat \ {0} /\ q + 1 <= Len(t) /\ (q + 1) + 1 = q + 2 /\ (q + 2) - 1 = q + 1
      /\ Len(t) \in Nat /\ q + 1 \in 1..Len(t)
  BY DEF Value
<1>5. SkipWhiteSpace(t, Next.p) = q + 1
  BY <1>1, <1>2, <1>4, NoBlankAt
<1>6. ~Starts(t, q + 1, <<"/">>)
  <2>1. Len(<<"/">>) = 1 /\ <<"/">>[1] = "/" /\ 1 \in DOMAIN <<"/">> /\ (q + 1) + 1 - 1 = q + 1
    BY <1>4
  <2> QED BY <1>1, <2>1 DEF Starts
<1>7. ParseName(t, q + 1) = q + 2
  BY <1>4, NameAt
<1>8. SubSeq(t, q + 1, q + 1) = <<name>>
  BY <1>4, OneSymbol
<1>9. q + 2 # q + 1
  OBVIOUS
<1>10. /\ parsed' = NewElement(parsed, name) /\ tag' = Fresh(parsed)
       /\ closing' = FALSE /\ place' = q + 2 /\ parsing' = "attributes"
       /\ charBuffer' = charBuffer /\ open' = open /\ Allocated(parsed) # Node
  <2> DEFINE s == SkipWhiteSpace(t, Next.p)
             slash == Starts(t, s, <<"/">>)
             start == IF slash THEN s + 1 ELSE s
             end == ParseName(t, start)
  <2>1. start = q + 1 /\ slash = FALSE
    BY <1>5, <1>6
  <2>2. end = q + 2
    BY <1>7, <2>1
  <2>3. end # start /\ SubSeq(t, start, end - 1) = <<name>>
    BY <1>4, <1>8, <1>9, <2>1, <2>2
  <2>4. /\ HasCell
        /\ IF end = start THEN Fail
           ELSE /\ parsed' = New(parsed, "element", SubSeq(t, start, end - 1))
                /\ tag' = Fresh(parsed) /\ closing' = slash /\ place' = end
                /\ parsing' = "attributes" /\ UNCHANGED <<charBuffer, open>>
    BY <1>3 DEF ParseElement
  <2> HIDE DEF s, slash, start, end
  <2> QED BY <2>1, <2>2, <2>3, <2>4 DEF NewElement, HasCell
<1>11. /\ MadeNode(parsed, parsed', P, tag', "element", <<name>>)
       /\ Elem(parsed', tag', name, <<>>, <<>>)
  BY <1>1, <1>10, ElementIsMade
<1> QED BY <1>10, <1>11

LEMMA ClosingIsParsed ==
  ASSUME charBuffer \in Value, NEW p \in Nat \ {0}, place = p, parsing = "children",
         NEW q \in Nat, p <= q, q + 3 <= Len(charBuffer),
         \A i \in p..q - 1 : charBuffer[i] \in Blank,
         NEW name \in Words, Closing(charBuffer, q, name),
         NEW P, Tidy(parsed, P), Parsing
  PROVE  /\ parsing' = "attributes" /\ open' = open /\ closing'
         /\ place' = q + 3 /\ charBuffer' = charBuffer
         /\ MadeNode(parsed, parsed', P, tag', "element", <<name>>)
         /\ Elem(parsed', tag', name, <<>>, <<>>)
<1> DEFINE t == charBuffer
<1>1. /\ name \in Symbol /\ t[q] = "<" /\ t[q + 1] = "/" /\ t[q + 2] = name
      /\ t[q + 3] = ">" /\ "/" \notin {"!", "?"} /\ "/" \notin Blank /\ ">" \in Markup
  BY WordsAreNames, Marks DEF Closing
<1>2. q + 1 \in Nat \ {0} /\ q + 1 <= Len(t) /\ (q + 1) + 1 = q + 2 /\ (q + 3) - 1 = q + 2
      /\ Len(t) \in Nat /\ q + 2 \in 1..Len(t) /\ q + 2 \in Nat \ {0} /\ (q + 2) + 1 = q + 3
      /\ q + 3 # q + 2
  BY DEF Value
<1>3. Next = [kind |-> "element", p |-> q + 1] /\ ~AtEnd(t, place)
  BY <1>1, <1>2, ElementIsThere DEF Next
<1>4. ParseElement
  BY <1>3 DEF Parsing, ParseEnd, ParseMarked, ParseElement, ParseAttribute, BadTag,
              ClosedElement, OpenTag, ClosingTag, StrayTag, InTag, InLoop
<1>5. SkipWhiteSpace(t, Next.p) = q + 1
  BY <1>1, <1>2, <1>3, NoBlankAt
<1>6. Starts(t, q + 1, <<"/">>)
  <2>1. Len(<<"/">>) = 1 /\ <<"/">>[1] = "/" /\ DOMAIN <<"/">> = 1..1 /\ (q + 1) + 1 - 1 = q + 1
    BY <1>2
  <2> QED BY <1>1, <1>2, <2>1 DEF Starts
<1>7. ParseName(t, q + 2) = q + 3
  BY <1>1, <1>2, NameAt
<1>8. SubSeq(t, q + 2, q + 2) = <<name>>
  BY <1>1, <1>2, OneSymbol
<1>9. /\ parsed' = NewElement(parsed, name) /\ tag' = Fresh(parsed)
      /\ closing' = TRUE /\ place' = q + 3 /\ parsing' = "attributes"
      /\ charBuffer' = charBuffer /\ open' = open /\ Allocated(parsed) # Node
  <2> HIDE DEF Next
  <2> QED BY <1>2, <1>4, <1>5, <1>6, <1>7, <1>8
          DEF ParseElement, NewElement, HasCell
<1>10. /\ MadeNode(parsed, parsed', P, tag', "element", <<name>>)
       /\ Elem(parsed', tag', name, <<>>, <<>>)
  BY <1>1, <1>9, ElementIsMade
<1> QED BY <1>9, <1>10

LEMMA OneStarts ==
  ASSUME NEW t, NEW p \in Nat, p <= Len(t), NEW c
  PROVE  Starts(t, p, <<c>>) <=> t[p] = c
<1>1. Len(<<c>>) = 1 /\ <<c>>[1] = c /\ DOMAIN <<c>> = 1..1 /\ p + 1 - 1 = p
  OBVIOUS
<1> QED BY <1>1 DEF Starts

\* The place of the parser in a tag, where there is no blank
LEMMA HereItIs ==
  ASSUME charBuffer \in Value, NEW p \in Nat \ {0}, place = p, p <= Len(charBuffer),
         charBuffer[p] \notin Blank
  PROVE  Here = p /\ ~AtEnd(charBuffer, Here)
BY NoBlankAt DEF Here, AtEnd, Value

LEMMA TagIsOpened ==
  ASSUME charBuffer \in Value, NEW p \in Nat \ {0}, place = p, parsing = "attributes",
         ~closing, charBuffer[p] = ">", p + 1 <= Len(charBuffer), Parsing
  PROVE  /\ parsing' = "children" /\ open' = Append(open, tag) /\ place' = p + 1
         /\ charBuffer' = charBuffer /\ parsed' = parsed
<1> DEFINE t == charBuffer
<1>1. p <= Len(t) /\ Len(t) \in Nat /\ ">" \notin Blank /\ ">" \in Markup /\ ">" # "/"
  BY Marks DEF Value
<1>2. Here = p /\ ~AtEnd(t, Here)
  BY <1>1, HereItIs
<1>3. Starts(t, Here, <<">">>) /\ ~Starts(t, Here, <<"/", ">">>)
  <2>1. Len(<<"/", ">">>) = 2 /\ <<"/", ">">>[1] = "/" /\ 1 \in DOMAIN <<"/", ">">>
        /\ p + 1 - 1 = p
    OBVIOUS
  <2> QED BY <1>1, <1>2, <2>1, OneStarts DEF Starts
<1>4. ~IsNameStartChar(t[Here]) /\ ~AtEnd(t, Here + 1)
  BY <1>1, <1>2 DEF IsNameStartChar, AtEnd
<1>5. OpenTag
  BY <1>2, <1>3, <1>4 DEF Parsing, ParseEnd, ParseMarked, ParseElement,
     ParseAttribute, BadTag, ClosedElement, OpenTag, ClosingTag, StrayTag, InTag, InLoop
<1> QED BY <1>2, <1>5 DEF OpenTag, TagEnds

LEMMA TagIsClosed ==
  ASSUME charBuffer \in Value, NEW p \in Nat \ {0}, place = p, parsing = "attributes",
         ~closing, charBuffer[p] = "/", charBuffer[p + 1] = ">",
         p + 1 <= Len(charBuffer), Parsing
  PROVE  /\ parsing' = "children" /\ open' = open /\ place' = p + 2
         /\ charBuffer' = charBuffer
         /\ parsed' = InsertEndChild(parsed, Innermost(open), tag)
<1> DEFINE t == charBuffer
<1>1. p <= Len(t) /\ Len(t) \in Nat /\ "/" \notin Blank /\ "/" \in Markup /\ ">" # "/"
  BY Marks DEF Value
<1>2. Here = p /\ ~AtEnd(t, Here)
  BY <1>1, HereItIs
<1>3. ~Starts(t, Here, <<">">>) /\ Starts(t, Here, <<"/", ">">>)
  <2>1. Len(<<"/", ">">>) = 2 /\ <<"/", ">">>[1] = "/" /\ <<"/", ">">>[2] = ">"
        /\ DOMAIN <<"/", ">">> = {1, 2}
        /\ p + 1 - 1 = p /\ p + 2 - 1 = p + 1
    OBVIOUS
  <2> QED BY <1>1, <1>2, <2>1, OneStarts DEF Starts
<1>4. ~IsNameStartChar(t[Here])
  BY <1>1, <1>2 DEF IsNameStartChar
<1>5. ClosedElement
  BY <1>2, <1>3, <1>4 DEF Parsing, ParseEnd, ParseMarked, ParseElement,
     ParseAttribute, BadTag, ClosedElement, OpenTag, ClosingTag, StrayTag, InTag, InLoop
<1> QED BY <1>2, <1>5 DEF ClosedElement, TagEnds, holder

LEMMA ClosingIsEnded ==
  ASSUME charBuffer \in Value, NEW p \in Nat \ {0}, place = p, parsing = "attributes",
         closing, charBuffer[p] = ">", p <= Len(charBuffer), open # <<>>,
         parsed.value[tag] = parsed.value[Innermost(open)], Parsing
  PROVE  /\ parsing' = "children" /\ open' = outer /\ place' = p + 1
         /\ charBuffer' = charBuffer
         /\ parsed' = InsertEndChild(Dropped(parsed, tag), Innermost(outer),
                                     Innermost(open))
<1> DEFINE t == charBuffer
<1>1. ">" \notin Blank /\ ">" \in Markup /\ ">" # "/"
  BY Marks
<1>2. Here = p /\ ~AtEnd(t, Here)
  BY <1>1, HereItIs
<1>3. Starts(t, Here, <<">">>) /\ ~Starts(t, Here, <<"/", ">">>)
  <2>1. Len(<<"/", ">">>) = 2 /\ <<"/", ">">>[1] = "/" /\ 1 \in DOMAIN <<"/", ">">>
        /\ p + 1 - 1 = p
    OBVIOUS
  <2> QED BY <1>1, <1>2, <2>1, OneStarts DEF Starts
<1>4. ~IsNameStartChar(t[Here])
  BY <1>1, <1>2 DEF IsNameStartChar
<1>5. ClosingTag
  BY <1>2, <1>3, <1>4 DEF Parsing, ParseEnd, ParseMarked, ParseElement,
     ParseAttribute, BadTag, ClosedElement, OpenTag, ClosingTag, StrayTag, InTag, InLoop
<1> QED BY <1>2, <1>5 DEF ClosingTag, TagEnds, holder

LEMMA AttributeIsParsed ==
  ASSUME charBuffer \in Value, NEW p \in Nat \ {0}, place = p, parsing = "attributes",
         charBuffer[p] = OneBlank, p + 5 <= Len(charBuffer),
         NEW name \in Words, NEW k \in Numbers,
         NumberedAt(charBuffer, p + 1, name, k),
         NEW P, Tidy(parsed, P), tag \in Allocated(parsed),
         parsed.attributes[tag] = <<>>, Parsing
  PROVE  /\ parsing' = "attributes" /\ open' = open /\ tag' = tag /\ closing' = closing
         /\ place' = p + 6 /\ charBuffer' = charBuffer
         /\ GotAttribute(parsed, parsed', P, tag, NumberAttribute(name, k))
<1> DEFINE t == charBuffer
           a == NumberAttribute(name, k)
<1>1. /\ p + 1 \in Nat \ {0} /\ p + 1 \in Nat /\ (p + 1) + 4 <= Len(t)
      /\ p + 1 <= Len(t) /\ Len(t) \in Nat /\ (p + 1) + 5 = p + 6
      /\ p <= p + 1
  BY DEF Value
<1>2. t[p + 1] = name /\ name \notin Markup /\ name \notin Digits /\ name \notin Blank
      /\ name # ">" /\ name # "/"
  BY WordsAreNames DEF NumberedAt
<1>3. Here = p + 1
  <2>1. OneBlank \in Blank
    BY BlankSymbols DEF OneBlank
  <2>2. \A i \in p..(p + 1) - 1 : t[i] \in Blank
    BY <2>1
  <2> QED BY <1>1, <1>2, <2>2, SkipTo DEF Here, SkipWhiteSpace
<1>4. ~AtEnd(t, Here) /\ IsNameStartChar(t[Here])
  BY <1>1, <1>2, <1>3 DEF AtEnd, IsNameStartChar
<1>5. ~Starts(t, Here, <<">">>) /\ ~Starts(t, Here, <<"/", ">">>)
  <2>1. Len(<<"/", ">">>) = 2 /\ <<"/", ">">>[1] = "/" /\ 1 \in DOMAIN <<"/", ">">>
        /\ (p + 1) + 1 - 1 = p + 1
    BY <1>1
  <2> QED BY <1>1, <1>2, <1>3, <2>1, OneStarts DEF Starts
<1>6. ParseAttribute
  BY <1>4, <1>5 DEF Parsing, ParseEnd, ParseMarked, ParseElement,
     ParseAttribute, BadTag, ClosedElement, OpenTag, ClosingTag, StrayTag, InTag, InLoop
<1>7. AttributeAt(t, Here) = [p |-> p + 6, a |-> a]
  BY <1>1, <1>3, AttributeIsThere
<1>8. a \in Attribute
  <2>1. name \in Symbol /\ ToString(k) \in Symbol
    BY WordsAreNames, NumeralFacts
  <2> QED BY <2>1 DEF NumberAttribute, Attribute, Value, Numeral
<1>9. GotAttribute(parsed, SetAttribute(parsed, tag, a), P, tag, a)
  BY <1>8, AttributeIsSet
<1>10. FindAttribute(parsed, tag, a.name) = 0
  BY <1>9 DEF GotAttribute
<1> HIDE DEF a
<1>11. /\ parsed' = SetAttribute(parsed, tag, a) /\ place' = p + 6
       /\ UNCHANGED <<charBuffer, open, tag, closing, parsing>>
  <2> DEFINE r == AttributeAt(t, Here)
  <2>1. r.p = p + 6 /\ r.a = a /\ p + 6 # 0
    BY <1>7
  <2>2. IF r.p = 0 \/ FindAttribute(parsed, tag, r.a.name) # 0 THEN Fail
        ELSE /\ parsed' = SetAttribute(parsed, tag, r.a)
             /\ place' = r.p
             /\ UNCHANGED <<charBuffer, open, tag, closing, parsing>>
    BY <1>6 DEF ParseAttribute
  <2> HIDE DEF r
  <2> QED BY <1>10, <2>1, <2>2
<1> QED BY <1>9, <1>11 DEF a

LEMMA TextIsParsed ==
  ASSUME charBuffer \in Value, NEW p \in Nat \ {0}, place = p, parsing = "children",
         NEW q \in Nat, p <= q, q < Len(charBuffer), charBuffer[q] = "<",
         \A i \in p..q - 1 : charBuffer[i] # "<",
         \E i \in p..q - 1 : charBuffer[i] \notin Blank, Parsing
  PROVE  /\ parsing' = "children" /\ open' = open /\ place' = q
         /\ charBuffer' = charBuffer /\ Allocated(parsed) # Node
         /\ parsed' = InsertEndChild(New(parsed, "text",
                                         GetStr(SubSeq(charBuffer, p, q - 1))),
                                     Innermost(open), Fresh(parsed))
<1> DEFINE t == charBuffer
           T == {i \in p..q - 1 : t[i] \notin Blank}
           i == Min(T)
<1>1. T \in SUBSET Nat /\ T # {} /\ Len(t) \in Nat
  BY DEF Value
<1>2. i \in T /\ \A j \in T : i <= j
  BY <1>1, LeastOf
<1>3. /\ i \in Nat /\ p <= i /\ i <= Len(t) /\ t[i] \notin Blank \cup {"<"}
      /\ \A j \in p..i - 1 : t[j] \in Blank
  <2>1. i \in p..q - 1 /\ t[i] \notin Blank /\ t[i] # "<" /\ i \in Nat
    BY <1>2
  <2>2. ASSUME NEW j \in p..i - 1 PROVE t[j] \in Blank
    <3>1. j \notin T
      BY <1>2, <2>1
    <3>2. j \in p..q - 1
      BY <2>1
    <3> QED BY <3>1, <3>2
  <2> QED BY <1>1, <2>1, <2>2
<1> HIDE DEF i
<1>4. Next = [kind |-> "text", p |-> p] /\ ~AtEnd(t, place)
  BY <1>3, TextIsThere DEF Next
<1>5. ParseMarked
  BY <1>4 DEF Parsing, ParseEnd, ParseMarked, ParseElement, ParseAttribute, BadTag,
              ClosedElement, OpenTag, ClosingTag, StrayTag, InTag, InLoop
<1>6. /\ ContentAt(t, "text", p).p = q
      /\ ContentAt(t, "text", p).value = GetStr(SubSeq(t, p, q - 1))
  BY ContentIsThere
<1>7. Next.kind = "text" /\ Next.p = p /\ q # 0 /\ "text" # "declaration"
  BY <1>4
<1> DEFINE content == ContentAt(charBuffer, Next.kind, Next.p)
           made == New(parsed, Next.kind, content.value)
<1>8. /\ HasCell /\ parsing = "children"
      /\ IF \/ content.p = 0
            \/ Next.kind = "declaration" /\ ~WellLocated(parsed, holder)
         THEN Fail
         ELSE /\ parsed' = InsertEndChild(made, holder, Fresh(parsed))
              /\ place' = content.p
              /\ UNCHANGED <<charBuffer, open, tag, closing, parsing>>
  BY <1>5 DEF ParseMarked
<1>9. content.p = q /\ content.value = GetStr(SubSeq(t, p, q - 1))
  BY <1>6, <1>7
<1>10. made = New(parsed, "text", GetStr(SubSeq(t, p, q - 1)))
  BY <1>7, <1>9
<1> HIDE DEF content, made
<1> QED BY <1>7, <1>8, <1>9, <1>10 DEF holder, HasCell

LEMMA EndIsParsed ==
  ASSUME charBuffer \in Value, NEW p \in Nat \ {0}, place = p, parsing = "children",
         p <= Len(charBuffer) + 1,
         \A i \in p..Len(charBuffer) : charBuffer[i] \in Blank,
         open = <<>>, Parsing
  PROVE  parsing' = "done" /\ UNCHANGED <<charBuffer, place, parsed, open>>
<1> DEFINE t == charBuffer
<1>1. Len(t) \in Nat
  BY DEF Value
<1>2. AtEnd(t, place) \/ Next.kind = "none"
  <2>1. CASE AtEnd(t, p)
    BY <2>1
  <2>2. CASE ~AtEnd(t, p)
    <3> DEFINE q == SkipWhiteSpace(t, p)
    <3>1. q \in Nat /\ q >= p /\ (q <= Len(t) => t[q] \notin Blank)
      BY SkipGoesOn DEF SkipWhiteSpace
    <3> HIDE DEF q
    <3>2. AtEnd(t, q)
      <4>1. CASE q <= Len(t)
        <5>1. q \in p..Len(t)
          BY <1>1, <3>1, <4>1
        <5> QED BY <3>1, <4>1, <5>1
      <4>2. CASE ~(q <= Len(t))
        BY <1>1, <3>1, <4>2 DEF AtEnd
      <4> QED BY <4>1, <4>2
    <3>3. AtEnd(t, SkipWhiteSpace(t, p))
      BY <3>2 DEF q
    <3> QED BY <3>3 DEF Next, Identify
  <2> QED BY <2>1, <2>2
<1>3. ParseEnd
  <2>1. "none" \notin Kind
    BY DEF Kind
  <2> QED BY <1>2, <2>1 DEF Parsing, ParseEnd, ParseMarked, ParseElement,
        ParseAttribute, BadTag, ClosedElement, OpenTag, ClosingTag, StrayTag, InTag, InLoop
<1> QED BY <1>3 DEF ParseEnd

-----------------------------------------------------------------------------
(* How the parser goes through a line                                       *)

\* The text at p is the line of an element that comes last below the innermost
\* of the stack h.
OnLine(h, p, k, name, id, w) ==
  /\ charBuffer \in Value
  /\ Line(charBuffer, p, k, name, id, PrintString(w, restrictedEntities))
  /\ p \in Nat /\ p >= 2 /\ k \in {2, 3} /\ name \in Words
  /\ id \in Numbers \cup {Null} /\ w \in Contents
  /\ h \in Seq(Node) /\ Innermost(h) \in ToSet(h)
  /\ parsed.kind[Innermost(h)] = "element"

\* What is read of the text w
TextRead(w) == IF isBlank(w) THEN Null ELSE Normalized(w)

\* Where the parser may be in that line: in its tag, behind its tag or its text,
\* in its end tag
InOpening(h, p, k, name, id) ==
  /\ parsing = "attributes" /\ ~closing /\ open = h
  /\ tag \notin ToSet(h) /\ Tidy(parsed, ToSet(h) \cup {tag})
  /\ \/ id # Null /\ place = p + k + 2 /\ Elem(parsed, tag, name, <<>>, <<>>)
     \/ place = TagEnd(p, k, id) /\ Elem(parsed, tag, name, AttributesFor(id), <<>>)
InElement(h, p, k, name, id, w, x) ==
  /\ parsing = "children" /\ open = Append(h, x)
  /\ x \in Node \ ToSet(h) /\ Tidy(parsed, ToSet(h) \cup {x})
  /\ \/ place = TagEnd(p, k, id) + 1 /\ Full(parsed, x, name, AttributesFor(id), Null)
     \/ /\ place = TagEnd(p, k, id) + 1 + Len(w) /\ ~isBlank(w)
        /\ Full(parsed, x, name, AttributesFor(id), Normalized(w))
InClosing(h, p, k, name, id, w, x) ==
  /\ parsing = "attributes" /\ closing /\ open = Append(h, x)
  /\ x \in Node \ ToSet(h) /\ tag \notin ToSet(h) \cup {x}
  /\ Tidy(parsed, ToSet(h) \cup {x, tag})
  /\ place = TagEnd(p, k, id) + Len(w) + 4
  /\ Elem(parsed, tag, name, <<>>, <<>>)
  /\ Full(parsed, x, name, AttributesFor(id), TextRead(w))
ReadingLine(h, p, k, name, id, w) ==
  \/ InOpening(h, p, k, name, id)
  \/ \E x : InElement(h, p, k, name, id, w, x) \/ InClosing(h, p, k, name, id, w, x)

\* What is in a list, or open, or the document stays as it is.
LeavesBe(d, e, P) ==
  \E C : /\ SameBut(d, e, C) /\ C \cap Linked(d) = {}
         /\ C \cap P = {} /\ Document \notin C
\* The element of a line is the last below y.
GotLast(d, e, P, y, name, attributes, v) ==
  /\ Tidy(e, P)
  /\ \E C : /\ SameBut(d, e, C) /\ C \cap Linked(d) = {}
            /\ C \cap P = {y} /\ Document \notin C
  /\ Keeps(d, e, y) /\ Len(ListOf(e, y)) = Len(ListOf(d, y)) + 1
  /\ Leaf(e, ListOf(e, y)[Len(ListOf(d, y)) + 1], name, attributes, v)

ReadsOn(h, p, k, name, id, w) ==
  /\ charBuffer' = charBuffer
  /\ \/ /\ ReadingLine(h, p, k, name, id, w)'
        /\ LeavesBe(parsed, parsed', ToSet(h))
     \/ /\ parsing' = "children" /\ open' = h
        /\ place' = Behind(p, k, id, PrintString(w, restrictedEntities))
        /\ GotLast(parsed, parsed', ToSet(h), Innermost(h), name, AttributesFor(id),
                  TextRead(w))

\* Where the symbols of a line are, with the end of its tag at a and l symbols of
\* text
HasLine(t, p, k, name, a, l) ==
  /\ p \in Nat /\ p >= 2 /\ k \in {2, 3}
  /\ a \in Nat /\ a >= p + k + 2 /\ l \in Nat /\ Len(t) \in Nat
  /\ a + l + 4 <= Len(t)
  /\ t[p + k] = "<" /\ t[p + k + 1] = name
  /\ \A i \in p..p + k - 1 : t[i] \in Blank
  /\ t[a] = ">" /\ Closing(t, a + l + 1, name)

LEMMA LinePlaces ==
  ASSUME NEW h, NEW p, NEW k, NEW name, NEW id, NEW w,
         OnLine(h, p, k, name, id, w)
  PROVE  LET a == TagEnd(p, k, id)
         IN /\ HasLine(charBuffer, p, k, name, a, Len(w))
            /\ Len(PrintString(w, restrictedEntities)) = Len(w)
            /\ Behind(p, k, id, PrintString(w, restrictedEntities)) = a + Len(w) + 5
<1>1. Len(PrintString(w, restrictedEntities)) = Len(w) /\ Len(w) \in Nat
  BY ContentIsRead DEF OnLine
<1>2. p \in Nat /\ p >= 2 /\ k \in {2, 3}
  BY DEF OnLine
<1>3. TagEnd(p, k, id) \in Nat /\ TagEnd(p, k, id) >= p + k + 2
  BY <1>2 DEF TagEnd
<1>4. Len(charBuffer) \in Nat
  BY DEF OnLine, Value
<1>5. Behind(p, k, id, PrintString(w, restrictedEntities)) = TagEnd(p, k, id) + Len(w) + 5
  BY <1>1 DEF Behind
<1>6. HasLine(charBuffer, p, k, name, TagEnd(p, k, id), Len(w))
  BY <1>1, <1>2, <1>3, <1>4 DEF OnLine, Line, Opening, HasLine
<1> QED BY <1>1, <1>5, <1>6

LEMMA LineStarts ==
  ASSUME NEW h, NEW p, NEW k, NEW name, NEW id, NEW w, OnLine(h, p, k, name, id, w),
         parsing = "children", open = h, place = p, Tidy(parsed, ToSet(h)), Parsing
  PROVE  ReadsOn(h, p, k, name, id, w)
<1> DEFINE t == charBuffer
           P == ToSet(h)
<1>0. HasLine(t, p, k, name, TagEnd(p, k, id), Len(w))
  BY LinePlaces
<1>1. /\ p \in Nat \ {0} /\ p + k \in Nat /\ p <= p + k /\ t \in Value
      /\ name \in Words
  BY DEF OnLine
<1>2. t[(p + k) + 2] \in Markup /\ (p + k) + 2 <= Len(t)
  <2>1. CASE id = Null
    <3>1. TagEnd(p, k, id) = (p + k) + 2
      BY <2>1 DEF TagEnd
    <3> QED BY <1>0, <3>1, Marks DEF HasLine
  <2>2. CASE id # Null
    <3>1. TagEnd(p, k, id) = p + k + 8
      BY <2>2 DEF TagEnd
    <3>2. t[p + k + 2] = OneBlank
      BY <2>2 DEF OnLine, Line, Identified
    <3>3. OneBlank \in Markup
      BY Marks, BlankSymbols DEF OneBlank
    <3>4. (p + k) + 2 <= Len(t)
      BY <1>0, <1>1, <3>1 DEF HasLine
    <3> QED BY <3>2, <3>3, <3>4
  <2> QED BY <2>1, <2>2
<1>3. /\ t[p + k] = "<" /\ t[(p + k) + 1] = name
      /\ \A i \in p..(p + k) - 1 : t[i] \in Blank
  BY <1>0 DEF HasLine
<1>4. /\ parsing' = "attributes" /\ open' = open /\ ~closing'
      /\ place' = (p + k) + 2 /\ charBuffer' = charBuffer
      /\ MadeNode(parsed, parsed', P, tag', "element", <<name>>)
      /\ Elem(parsed', tag', name, <<>>, <<>>)
  <2> HIDE DEF P
  <2> QED BY <1>1, <1>2, <1>3, OpeningIsParsed DEF P
<1>5. LeavesBe(parsed, parsed', P)
  <2>1. /\ SameBut(parsed, parsed', {tag'}) /\ tag' \in Node \ Allocated(parsed)
        /\ tag' \notin P /\ Linked(parsed) \subseteq Allocated(parsed)
    BY <1>4, TidyFacts DEF MadeNode
  <2> QED BY <2>1, NullIsNoNode DEF LeavesBe
<1>6. InOpening(h, p, k, name, id)'
  <2>1. /\ parsing' = "attributes" /\ ~closing' /\ open' = h
        /\ tag' \notin P /\ Tidy(parsed', P \cup {tag'})
    BY <1>4 DEF MadeNode
  <2>2. CASE id = Null
    <3>1. TagEnd(p, k, id) = p + k + 2 /\ AttributesFor(id) = <<>>
      BY <2>2 DEF TagEnd, AttributesFor
    <3> QED BY <1>4, <2>1, <3>1 DEF InOpening
  <2>3. CASE id # Null
    BY <1>4, <2>1, <2>3 DEF InOpening
  <2> QED BY <2>2, <2>3
<1> QED BY <1>4, <1>5, <1>6 DEF ReadsOn, ReadingLine

LEMMA SameAsItWas ==
  ASSUME NEW d, NEW P PROVE LeavesBe(d, d, P)
<1>1. SameBut(d, d, {})
  BY DEF SameBut, SameNode
<1> QED BY <1>1 DEF LeavesBe

LEMMA LineGetsAttribute ==
  ASSUME NEW h, NEW p, NEW k, NEW name, NEW id, NEW w, OnLine(h, p, k, name, id, w),
         parsing = "attributes", ~closing, open = h, tag \notin ToSet(h),
         Tidy(parsed, ToSet(h) \cup {tag}),
         id # Null, place = p + k + 2, Elem(parsed, tag, name, <<>>, <<>>), Parsing
  PROVE  ReadsOn(h, p, k, name, id, w)
<1> DEFINE t == charBuffer
           P == ToSet(h)
           q == p + k + 2
           a == NumberAttribute("NodeID", id)
<1>0. HasLine(t, p, k, name, TagEnd(p, k, id), Len(w))
  BY LinePlaces
<1>1. TagEnd(p, k, id) = q + 6 /\ q \in Nat \ {0} /\ q + 5 <= Len(t)
  BY <1>0 DEF TagEnd, HasLine
<1>2. /\ t \in Value /\ id \in Numbers /\ "NodeID" \in Words
      /\ Identified(t, q, id)
  BY DEF OnLine, Line, Words
<1>3. t[q] = OneBlank /\ NumberedAt(t, q + 1, "NodeID", id)
  BY <1>2 DEF Identified
<1>4. /\ tag \in Allocated(parsed) /\ parsed.attributes[tag] = <<>>
      /\ tag \in Node /\ tag \notin Linked(parsed)
  BY TidyFacts DEF Elem
<1> HIDE DEF q
<1>5. /\ parsing' = "attributes" /\ open' = open /\ tag' = tag /\ closing' = closing
      /\ place' = q + 6 /\ charBuffer' = charBuffer
      /\ GotAttribute(parsed, parsed', P \cup {tag}, tag, a)
  BY <1>1, <1>2, <1>3, <1>4, AttributeIsParsed DEF q
<1>6. LeavesBe(parsed, parsed', P)
  BY <1>4, <1>5, NullIsNoNode DEF LeavesBe, GotAttribute
<1>7. AttributesFor(id) = <<a>>
  BY DEF AttributesFor
<1>8. Elem(parsed', tag', name, AttributesFor(id), <<>>)
  BY <1>5, <1>7 DEF Elem, GotAttribute
<1>9. tag' \notin P /\ Tidy(parsed', P \cup {tag'})
  BY <1>5 DEF GotAttribute
<1>10. InOpening(h, p, k, name, id)'
  BY <1>1, <1>5, <1>8, <1>9 DEF InOpening
<1> QED BY <1>5, <1>6, <1>10 DEF ReadsOn, ReadingLine

LEMMA LineTagOpens ==
  ASSUME NEW h, NEW p, NEW k, NEW name, NEW id, NEW w, OnLine(h, p, k, name, id, w),
         parsing = "attributes", ~closing, open = h, tag \notin ToSet(h),
         Tidy(parsed, ToSet(h) \cup {tag}), place = TagEnd(p, k, id),
         Elem(parsed, tag, name, AttributesFor(id), <<>>), Parsing
  PROVE  ReadsOn(h, p, k, name, id, w)
<1> DEFINE t == charBuffer
           P == ToSet(h)
           a == TagEnd(p, k, id)
<1>0. HasLine(t, p, k, name, a, Len(w))
  BY LinePlaces
<1>1. a \in Nat \ {0} /\ t[a] = ">" /\ a + 1 <= Len(t)
  BY <1>0 DEF HasLine
<1>2. t \in Value
  BY DEF OnLine
<1> HIDE DEF a
<1>3. /\ parsing' = "children" /\ open' = Append(open, tag) /\ place' = a + 1
      /\ charBuffer' = charBuffer /\ parsed' = parsed
  BY <1>1, <1>2, TagIsOpened DEF a
<1>4. PICK x : x = tag
  OBVIOUS
<1>5. x \in Node \ P /\ Tidy(parsed', P \cup {x})
  BY <1>3, <1>4 DEF Elem
<1>6. Full(parsed', x, name, AttributesFor(id), Null)
  BY <1>3, <1>4 DEF Full, Holds, Elem
<1>7. InElement(h, p, k, name, id, w, x)'
  BY <1>3, <1>4, <1>5, <1>6 DEF InElement, a
<1>8. LeavesBe(parsed, parsed', P)
  BY <1>3, SameAsItWas
<1> QED BY <1>3, <1>7, <1>8 DEF ReadsOn, ReadingLine

\* The symbols of the text
LEMMA LineText ==
  ASSUME NEW h, NEW p, NEW k, NEW name, NEW id, NEW w, OnLine(h, p, k, name, id, w)
  PROVE  LET a == TagEnd(p, k, id)
             u == PrintString(w, restrictedEntities)
         IN /\ Len(u) = Len(w) /\ u \in Value /\ w \in Value
            /\ GetStr(u) = Normalized(w)
            /\ \A i \in 1..Len(w) : charBuffer[a + i] = u[i] /\ u[i] # "<"
            /\ IF isBlank(w) THEN \A i \in 1..Len(w) : u[i] \in Blank
               ELSE \E i \in 1..Len(w) : u[i] \notin Blank
<1> DEFINE u == PrintString(w, restrictedEntities)
<1>1. w \in Contents /\ \A i \in 1..Len(u) : charBuffer[TagEnd(p, k, id) + i] = u[i]
  BY DEF OnLine, Line
<1>2. /\ u \in Value /\ Len(u) = Len(w) /\ Len(w) \in Nat
      /\ GetStr(u) = Normalized(w)
      /\ \A i \in 1..Len(w) : u[i] # "<" /\ (u[i] \in Blank <=> w[i] \in Blank)
  BY <1>1, ContentIsRead
<1>3. w \in Value
  BY <1>1, ContentIsText
<1>4. isBlank(w) <=> \A i \in 1..Len(w) : w[i] \in Blank
  <2>1. ToSet(w) = {w[i] : i \in 1..Len(w)}
    BY <1>3 DEF ToSet, Value
  <2> QED BY <2>1 DEF isBlank
<1> HIDE DEF u
<1> QED BY <1>1, <1>2, <1>3, <1>4 DEF u

LEMMA LineGetsText ==
  ASSUME NEW h, NEW p, NEW k, NEW name, NEW id, NEW w, OnLine(h, p, k, name, id, w),
         NEW x \in Node \ ToSet(h), parsing = "children", open = Append(h, x),
         Tidy(parsed, ToSet(h) \cup {x}), place = TagEnd(p, k, id) + 1,
         Full(parsed, x, name, AttributesFor(id), Null), ~isBlank(w), Parsing
  PROVE  ReadsOn(h, p, k, name, id, w)
<1> DEFINE t == charBuffer
           P == ToSet(h)
           a == TagEnd(p, k, id)
           l == Len(w)
           u == PrintString(w, restrictedEntities)
           v == Normalized(w)
<1>0. HasLine(t, p, k, name, a, l)
  BY LinePlaces
<1>1. /\ t \in Value /\ w \in Value /\ Len(u) = l /\ u \in Value
      /\ GetStr(u) = v /\ v \in Value
      /\ \A i \in 1..l : t[a + i] = u[i] /\ u[i] # "<"
      /\ \E i \in 1..l : u[i] \notin Blank
  BY LineText, NormalizedIsText DEF OnLine
<1>2. h \in Seq(Node) /\ Innermost(open) = x
  BY StackTop DEF OnLine
<1> HIDE DEF a, u, l, v
<1>3. /\ a \in Nat /\ l \in Nat /\ a + 1 \in Nat \ {0} /\ a + 1 + l \in Nat
      /\ a + 1 <= a + 1 + l /\ a + 1 + l < Len(t) /\ (a + 1 + l) - 1 = a + l
      /\ t[a + 1 + l] = "<" /\ a + l <= Len(t)
  <2>1. /\ a \in Nat /\ l \in Nat /\ Len(t) \in Nat /\ a + l + 4 <= Len(t)
        /\ t[a + l + 1] = "<"
    BY <1>0 DEF HasLine, Closing
  <2>2. a + l + 1 = a + 1 + l
    BY <2>1
  <2> QED BY <2>1, <2>2
<1>4. /\ \A i \in a + 1..(a + 1 + l) - 1 : t[i] # "<"
      /\ \E i \in a + 1..(a + 1 + l) - 1 : t[i] \notin Blank
  <2>1. ASSUME NEW i \in a + 1..(a + 1 + l) - 1 PROVE t[i] # "<"
    <3>1. i - a \in 1..l /\ a + (i - a) = i
      BY <1>3
    <3> QED BY <1>1, <3>1
  <2>2. PICK i \in 1..l : u[i] \notin Blank
    BY <1>1
  <2>3. a + i \in a + 1..(a + 1 + l) - 1 /\ t[a + i] \notin Blank
    BY <1>1, <1>3, <2>2
  <2> QED BY <2>1, <2>3
<1>5. GetStr(SubSeq(t, a + 1, (a + 1 + l) - 1)) = v
  <2>1. SubSeq(t, a + 1, a + Len(u)) = u
    BY <1>1, <1>3, PartIs
  <2> QED BY <1>1, <1>3, <2>1
<1>6. place = a + 1
  BY DEF a
<1>7. /\ parsing' = "children" /\ open' = open /\ place' = a + 1 + l
      /\ charBuffer' = charBuffer /\ Allocated(parsed) # Node
      /\ parsed' = InsertEndChild(New(parsed, "text", v), x, Fresh(parsed))
  BY <1>1, <1>2, <1>3, <1>4, <1>5, <1>6, TextIsParsed
<1>8. parsed.kind[x] = "element" /\ ListOf(parsed, x) = <<>>
  BY DEF Full, Elem, Holds
<1>9. GotText(parsed, parsed', P \cup {x}, x, v)
  BY <1>1, <1>7, <1>8, TextIsPut
<1>10. Full(parsed', x, name, AttributesFor(id), v)
  BY <1>9 DEF GotText, Full, Elem, SameNode
<1>11. InElement(h, p, k, name, id, w, x)'
  BY <1>7, <1>9, <1>10 DEF InElement, a, l, v, GotText
<1>12. LeavesBe(parsed, parsed', P)
  <2>1. /\ SameBut(parsed, parsed', {x, Fresh(parsed)})
        /\ Fresh(parsed) \notin Allocated(parsed) /\ Fresh(parsed) \in Node
    BY <1>9 DEF GotText
  <2>2. /\ P \subseteq Allocated(parsed) /\ Linked(parsed) \subseteq Allocated(parsed)
        /\ x \notin Linked(parsed)
    BY TidyFacts
  <2> QED BY <2>1, <2>2, NullIsNoNode DEF LeavesBe
<1> QED BY <1>7, <1>11, <1>12 DEF ReadsOn, ReadingLine

LEMMA LineCloses ==
  ASSUME NEW h, NEW p, NEW k, NEW name, NEW id, NEW w, OnLine(h, p, k, name, id, w),
         NEW x \in Node \ ToSet(h), parsing = "children", open = Append(h, x),
         Tidy(parsed, ToSet(h) \cup {x}),
         IF isBlank(w) THEN place = TagEnd(p, k, id) + 1
         ELSE place = TagEnd(p, k, id) + 1 + Len(w),
         Full(parsed, x, name, AttributesFor(id), TextRead(w)), Parsing
  PROVE  ReadsOn(h, p, k, name, id, w)
<1> DEFINE t == charBuffer
           P == ToSet(h)
           a == TagEnd(p, k, id)
           l == Len(w)
           v == TextRead(w)
           q == a + l + 1
<1>0. HasLine(t, p, k, name, a, l)
  BY LinePlaces
<1>1. /\ a \in Nat /\ a >= 4 /\ l \in Nat /\ Len(t) \in Nat
      /\ a + l + 4 <= Len(t) /\ Closing(t, q, name)
  BY <1>0 DEF HasLine
<1>2. t \in Value /\ name \in Words
  BY DEF OnLine
<1>3. PICK s \in Nat \ {0} :
        place = s /\ s <= q /\ \A i \in s..q - 1 : t[i] \in Blank
  <2>1. CASE isBlank(w)
    <3>1. \A i \in 1..l : t[a + i] \in Blank
      BY <2>1, LineText
    <3> HIDE DEF a, l
    <3>2. a + 1 \in Nat \ {0} /\ a + 1 <= q
      BY <1>1
    <3>3. ASSUME NEW i \in a + 1..q - 1 PROVE t[i] \in Blank
      <4>1. i - a \in 1..l /\ a + (i - a) = i
        BY <1>1
      <4> QED BY <3>1, <4>1
    <3>4. place = a + 1
      BY <2>1 DEF a
    <3> QED BY <3>2, <3>3, <3>4
  <2>2. CASE ~isBlank(w)
    <3>1. place = a + 1 + l
      BY <2>2
    <3> HIDE DEF a, l
    <3>2. place = q /\ q \in Nat \ {0} /\ \A i \in q..q - 1 : FALSE
      BY <1>1, <3>1
    <3> QED BY <3>2
  <2> QED BY <2>1, <2>2
<1> HIDE DEF a, l
<1>4. q \in Nat /\ q + 3 <= Len(t) /\ q + 3 = a + l + 4
  BY <1>1
<1> HIDE DEF q, v
<1>5. /\ parsing' = "attributes" /\ open' = open /\ closing' /\ place' = q + 3
      /\ charBuffer' = charBuffer
      /\ MadeNode(parsed, parsed', P \cup {x}, tag', "element", <<name>>)
      /\ Elem(parsed', tag', name, <<>>, <<>>)
  BY <1>1, <1>2, <1>3, <1>4, ClosingIsParsed
<1>6. /\ SameBut(parsed, parsed', {tag'}) /\ tag' \in Node \ Allocated(parsed)
      /\ tag' \notin P \cup {x} /\ Tidy(parsed', (P \cup {x}) \cup {tag'})
  BY <1>5 DEF MadeNode
<1>7. tag' \notin Linked(parsed) /\ tag' # Document /\ (P \cup {x}) \cup {tag'} = P \cup {x, tag'}
  BY <1>6, TidyFacts, NullIsNoNode
<1>8. Full(parsed', x, name, AttributesFor(id), v)
  <2>1. {tag'} \cap Linked(parsed) = {} /\ x \notin {tag'}
    BY <1>6, <1>7
  <2>2. Full(parsed, x, name, AttributesFor(id), v)
    BY DEF v
  <2> QED BY <1>6, <2>1, <2>2, LeafStays
<1>9. InClosing(h, p, k, name, id, w, x)'
  BY <1>4, <1>5, <1>6, <1>7, <1>8 DEF InClosing, a, l, v
<1>10. LeavesBe(parsed, parsed', P)
  BY <1>6, <1>7 DEF LeavesBe
<1> QED BY <1>5, <1>9, <1>10 DEF ReadsOn, ReadingLine

\* What ends an element: its end tag's node c goes, and x joins the list of y.
EndsElement(d, c, y, x) == InsertEndChild(Dropped(d, c), y, x)
EndedBelow(d, e, P, c, y, x) ==
  /\ Tidy(e, P) /\ SameBut(d, e, {c, y}) /\ Linked(e) = Linked(d) \cup {x}
  /\ \A m \in Node \ {c} : SameNode(d, e, m)
  /\ ListOf(e, y) = Append(ListOf(d, y), x)
  /\ y # Document => ListOf(e, Document) = ListOf(d, Document)
LEMMA ElementEnds ==
  ASSUME NEW d, NEW P, NEW c, NEW y, NEW x \in Node \ P,
         Tidy(d, P \cup {x, c}), c \notin P \cup {x}, ListOf(d, c) = <<>>,
         y \in {Document} \cup P, y \in {Document} \cup Elements(d), c \in Node
  PROVE  EndedBelow(d, EndsElement(d, c, y, x), P, c, y, x)
<1> DEFINE f == Dropped(d, c)
           e == InsertEndChild(f, y, x)
<1>1. \A m \in Node : d.parent[m] # c
  BY NoneBelow, TidyFacts DEF Parent
<1>2. Cleared(d, f, P \cup {x, c}, c)
  BY <1>1, NodeIsDropped
<1> HIDE DEF f
<1>3. (P \cup {x, c}) \ {c} = P \cup {x} /\ y # c /\ y \in Parent /\ y # x
      /\ (P \cup {x}) \ {x} = P /\ Document \in Parent /\ Document # c
  BY TidyFacts, NullIsNoNode DEF Parent
<1>4. Tidy(f, P \cup {x}) /\ SameBut(d, f, {c}) /\ Linked(f) = Linked(d)
  BY <1>2, <1>3 DEF Cleared
<1>5. y \in {Document} \cup Elements(f)
  BY <1>3, <1>4 DEF SameBut, SameNode, Elements
<1>6. Inserted(f, e, P \cup {x}, y, x)
  BY <1>3, <1>4, <1>5, InsertIsDone
<1> HIDE DEF e
<1>7. /\ Tidy(e, P) /\ SameBut(f, e, {y}) /\ Linked(e) = Linked(f) \cup {x}
      /\ \A m \in Node : SameNode(f, e, m) /\ ListOf(e, y) = Append(ListOf(f, y), x)
  BY <1>3, <1>6 DEF Inserted
<1>8. SameBut(d, e, {c} \cup {y}) /\ {c} \cup {y} = {c, y}
  BY <1>4, <1>7, SameTwice
<1>9. ListOf(f, y) = ListOf(d, y) /\ ListOf(f, Document) = ListOf(d, Document)
  BY <1>3, <1>4 DEF SameBut
<1>10. \A m \in Node \ {c} : SameNode(d, e, m)
  BY <1>4, <1>7 DEF SameBut, SameNode
<1>11. y # Document => ListOf(e, Document) = ListOf(d, Document)
  BY <1>3, <1>7, <1>9 DEF SameBut
<1> QED BY <1>4, <1>7, <1>8, <1>9, <1>10, <1>11 DEF EndsElement, EndedBelow, e, f

LEMMA LineEnds ==
  ASSUME NEW h, NEW p, NEW k, NEW name, NEW id, NEW w, OnLine(h, p, k, name, id, w),
         NEW x, InClosing(h, p, k, name, id, w, x), Parsing
  PROVE  ReadsOn(h, p, k, name, id, w)
<1> DEFINE t == charBuffer
           P == ToSet(h)
           a == TagEnd(p, k, id)
           l == Len(w)
           v == TextRead(w)
           q == a + l + 4
           y == Innermost(h)
<1>0. HasLine(t, p, k, name, a, l)
  BY LinePlaces
<1>1. /\ a \in Nat /\ l \in Nat /\ Len(t) \in Nat /\ q <= Len(t) /\ t[q] = ">"
      /\ q \in Nat \ {0} /\ q + 1 = a + l + 5
  <2>1. /\ a \in Nat /\ l \in Nat /\ Len(t) \in Nat /\ q <= Len(t)
        /\ t[(a + l + 1) + 3] = ">"
    BY <1>0 DEF HasLine, Closing
  <2> HIDE DEF a, l
  <2> QED BY <2>1
<1>2. /\ t \in Value /\ h \in Seq(Node) /\ y \in P /\ parsed.kind[y] = "element"
      /\ x \in Node \ P /\ tag \notin P \cup {x} /\ Tidy(parsed, P \cup {x, tag})
      /\ open = Append(h, x) /\ parsing = "attributes" /\ closing /\ place = q
      /\ Elem(parsed, tag, name, <<>>, <<>>)
      /\ Full(parsed, x, name, AttributesFor(id), v)
  BY DEF OnLine, InClosing
<1>3. open # <<>> /\ Innermost(open) = x /\ outer = h
  BY <1>2, StackTop DEF outer
<1>4. parsed.value[tag] = parsed.value[Innermost(open)]
  BY <1>2, <1>3 DEF Elem, Full
<1> HIDE DEF a, l, q, v, y
<1>5. /\ parsing' = "children" /\ open' = h /\ place' = q + 1
      /\ charBuffer' = charBuffer /\ parsed' = EndsElement(parsed, tag, y, x)
  BY <1>1, <1>2, <1>3, <1>4, ClosingIsEnded DEF EndsElement, y
<1>6. /\ y \in Node /\ y # Document /\ y \in Elements(parsed) /\ y # tag
      /\ tag \in Node /\ ListOf(parsed, tag) = <<>>
      /\ Listed(parsed) /\ y \notin Linked(parsed) /\ tag \notin Linked(parsed)
      /\ tag # Document
  BY <1>2, TidyFacts, NullIsNoNode DEF Elem, Elements
<1>7. PICK c : c = tag
  OBVIOUS
<1>8. PICK d : d = parsed
  OBVIOUS
<1> DEFINE e == EndsElement(d, c, y, x)
<1>16. /\ x \in Node \ P /\ Tidy(d, P \cup {x, c}) /\ c \notin P \cup {x}
       /\ ListOf(d, c) = <<>> /\ y \in {Document} \cup P
       /\ y \in {Document} \cup Elements(d) /\ c \in Node
  BY <1>2, <1>6, <1>7, <1>8
<1>9. /\ Tidy(e, P) /\ SameBut(d, e, {c, y}) /\ Linked(e) = Linked(d) \cup {x}
      /\ \A m \in Node \ {c} : SameNode(d, e, m)
      /\ ListOf(e, y) = Append(ListOf(d, y), x)
  <2>1. EndedBelow(d, e, P, c, y, x)
    <3> HIDE DEF P
    <3> QED BY <1>16, ElementEnds
  <2> HIDE DEF P, e
  <2> QED BY <2>1 DEF EndedBelow
<1>10. parsed' = e
  BY <1>5, <1>7, <1>8
<1> HIDE DEF e
<1>11. SameNode(d, e, y)
  BY <1>6, <1>7, <1>9
<1>12. /\ Keeps(d, e, y) /\ Len(ListOf(e, y)) = Len(ListOf(d, y)) + 1
       /\ ListOf(e, y)[Len(ListOf(d, y)) + 1] = x
  BY <1>2, <1>6, <1>8, <1>9, <1>11, KeepsWithMore
<1>13. Leaf(e, x, name, AttributesFor(id), v)
  <2>1. {c, y} \cap Linked(d) = {} /\ x \notin {c, y}
    <3>1. x # y
      BY <1>2
    <3> QED BY <1>2, <1>6, <1>7, <1>8, <3>1
  <2>2. Full(e, x, name, AttributesFor(id), v)
    BY <1>2, <1>8, <1>9, <2>1, LeafStays
  <2> QED BY <1>9, <2>2 DEF Leaf
<1>14. GotLast(d, e, P, y, name, AttributesFor(id), v)
  <2>1. {c, y} \cap Linked(d) = {} /\ {c, y} \cap P = {y} /\ Document \notin {c, y}
    BY <1>2, <1>6, <1>7, <1>8
  <2> QED BY <1>9, <1>12, <1>13, <2>1 DEF GotLast
<1>15. place' = Behind(p, k, id, PrintString(w, restrictedEntities))
  BY <1>1, <1>5, LinePlaces DEF a, l
<1> QED BY <1>5, <1>8, <1>10, <1>14, <1>15 DEF ReadsOn, v, y

LEMMA LineIsRead ==
  ASSUME NEW h, NEW p, NEW k, NEW name, NEW id, NEW w, OnLine(h, p, k, name, id, w),
         ReadingLine(h, p, k, name, id, w), Parsing
  PROVE  ReadsOn(h, p, k, name, id, w)
<1>1. CASE InOpening(h, p, k, name, id)
  <2>1. /\ parsing = "attributes" /\ ~closing /\ open = h
        /\ tag \notin ToSet(h) /\ Tidy(parsed, ToSet(h) \cup {tag})
    BY <1>1 DEF InOpening
  <2>2. CASE id # Null /\ place = p + k + 2 /\ Elem(parsed, tag, name, <<>>, <<>>)
    BY <2>1, <2>2, LineGetsAttribute
  <2>3. CASE place = TagEnd(p, k, id) /\ Elem(parsed, tag, name, AttributesFor(id), <<>>)
    BY <2>1, <2>3, LineTagOpens
  <2> QED BY <1>1, <2>2, <2>3 DEF InOpening
<1>2. ASSUME NEW x, InElement(h, p, k, name, id, w, x)
      PROVE  ReadsOn(h, p, k, name, id, w)
  <2>1. /\ parsing = "children" /\ open = Append(h, x)
        /\ x \in Node \ ToSet(h) /\ Tidy(parsed, ToSet(h) \cup {x})
    BY <1>2 DEF InElement
  <2>2. CASE ~isBlank(w) /\ place = TagEnd(p, k, id) + 1
             /\ Full(parsed, x, name, AttributesFor(id), Null)
    BY <2>1, <2>2, LineGetsText
  <2>3. CASE isBlank(w) /\ place = TagEnd(p, k, id) + 1
             /\ Full(parsed, x, name, AttributesFor(id), Null)
    <3>1. TextRead(w) = Null
      BY <2>3 DEF TextRead
    <3>2. Full(parsed, x, name, AttributesFor(id), TextRead(w))
      BY <2>3, <3>1
    <3> QED BY <2>1, <2>3, <3>2, LineCloses
  <2>4. CASE ~isBlank(w) /\ place = TagEnd(p, k, id) + 1 + Len(w)
             /\ Full(parsed, x, name, AttributesFor(id), Normalized(w))
    <3>1. TextRead(w) = Normalized(w)
      BY <2>4 DEF TextRead
    <3>2. Full(parsed, x, name, AttributesFor(id), TextRead(w))
      BY <2>4, <3>1
    <3> QED BY <2>1, <2>4, <3>2, LineCloses
  <2> QED BY <1>2, <2>2, <2>3, <2>4 DEF InElement
<1>3. ASSUME NEW x, InClosing(h, p, k, name, id, w, x)
      PROVE  ReadsOn(h, p, k, name, id, w)
  BY <1>3, LineEnds
<1> QED BY <1>1, <1>2, <1>3 DEF ReadingLine

-----------------------------------------------------------------------------
(* How the parser goes through the text of a message                        *)

\* What is in the document, with the first k fields of m below its element r, or
\* with j of its times below x besides, with all its times, with its content
FieldsUpTo(d, m, r, k) ==
  HasFields(d, m, r, k) /\ Len(ListOf(d, r)) = k /\ ListOf(d, Document) = <<>>
TimesUpTo(d, m, o, r, x, j) ==
  FieldsUpTo(d, m, r, 3) /\ HasTimes(d, m, o, x, j) /\ r # x
ListThere(d, m, o, r) ==
  HasList(d, m, o, r) /\ Len(ListOf(d, r)) = 4 /\ ListOf(d, Document) = <<>>
ContentThere(d, m, o, r) ==
  HasContent(d, m, o, r, TextRead(m.content)) /\ ListOf(d, Document) = <<>>

LEMMA LeftAlone ==
  ASSUME NEW d, NEW e, NEW P \in SUBSET Node, Listed(d), LeavesBe(d, e, P),
         NEW r \in P, NEW m, NEW o
  PROVE  /\ \A k \in 0..3 : FieldsUpTo(d, m, r, k) => FieldsUpTo(e, m, r, k)
         /\ \A x \in P : \A j :
               TimesUpTo(d, m, o, r, x, j) => TimesUpTo(e, m, o, r, x, j)
         /\ ListThere(d, m, o, r) => ListThere(e, m, o, r)
         /\ ContentThere(d, m, o, r) => ContentThere(e, m, o, r)
<1>1. PICK C : /\ SameBut(d, e, C) /\ C \cap Linked(d) = {}
               /\ C \cap P = {} /\ Document \notin C
  BY DEF LeavesBe
<1>2. Listed(d) /\ P \subseteq Node
  OBVIOUS
<1>3. Keeps(d, e, r) /\ ListOf(e, r) = ListOf(d, r)
  <2>1. r \in Node \ C
    BY <1>1, <1>2
  <2> QED BY <1>1, <1>2, <2>1, KeepsAsItWas
<1>4. ListOf(e, Document) = ListOf(d, Document)
  BY <1>1 DEF SameBut, Parent
<1>5. ASSUME NEW k \in 0..3, FieldsUpTo(d, m, r, k) PROVE FieldsUpTo(e, m, r, k)
  <2>1. HasFields(e, m, r, k)
    BY <1>1, <1>3, <1>5, FieldsStay DEF FieldsUpTo
  <2> QED BY <1>3, <1>4, <1>5, <2>1 DEF FieldsUpTo
<1>6. ASSUME NEW x \in P, NEW j, TimesUpTo(d, m, o, r, x, j)
      PROVE  TimesUpTo(e, m, o, r, x, j)
  <2>1. HasTimes(e, m, o, x, j)
    BY <1>1, <1>6, TimesStay DEF TimesUpTo
  <2> QED BY <1>5, <1>6, <2>1 DEF TimesUpTo
<1>7. ASSUME ListThere(d, m, o, r) PROVE ListThere(e, m, o, r)
  <2>1. HasList(e, m, o, r)
    BY <1>1, <1>3, <1>7, ListStays DEF ListThere
  <2> QED BY <1>3, <1>4, <1>7, <2>1 DEF ListThere
<1>8. ASSUME ContentThere(d, m, o, r) PROVE ContentThere(e, m, o, r)
  <2>1. HasContent(e, m, o, r, TextRead(m.content))
    BY <1>1, <1>3, <1>8, ContentStays DEF ContentThere
  <2> QED BY <1>4, <1>8, <2>1 DEF ContentThere
<1> QED BY <1>5, <1>6, <1>7, <1>8

LEMMA FieldIsGot ==
  ASSUME NEW d, NEW e, NEW m, NEW r, NEW k \in 0..2, FieldsUpTo(d, m, r, k),
         GotLast(d, e, {r}, r, FieldNames[k + 1], <<>>, Numeral(FieldNumbers(m)[k + 1]))
  PROVE  FieldsUpTo(e, m, r, k + 1) /\ Tidy(e, {r})
<1>1. PICK C : /\ SameBut(d, e, C) /\ C \cap Linked(d) = {}
               /\ C \cap {r} = {r} /\ Document \notin C
  BY DEF GotLast
<1>2. /\ Keeps(d, e, r) /\ Len(ListOf(e, r)) = k + 1
      /\ Leaf(e, ListOf(e, r)[k + 1], FieldNames[k + 1], <<>>,
              Numeral(FieldNumbers(m)[k + 1]))
  BY DEF GotLast, FieldsUpTo
<1>3. HasFields(e, m, r, k)
  BY <1>1, <1>2, FieldsStay DEF FieldsUpTo
<1>4. HasFields(e, m, r, k + 1)
  <2>1. \A i \in 1..k + 1 : i \in 1..k \/ i = k + 1
    OBVIOUS
  <2> QED BY <1>2, <1>3, <2>1 DEF HasFields
<1>5. ListOf(e, Document) = <<>>
  BY <1>1 DEF SameBut, Parent, FieldsUpTo
<1> QED BY <1>2, <1>4, <1>5 DEF FieldsUpTo, GotLast

LEMMA TimeIsGot ==
  ASSUME NEW d, NEW e, NEW m, NEW o, NEW r \in Node, NEW x, NEW j \in Nat, Listed(d),
         TimesUpTo(d, m, o, r, x, j),
         GotLast(d, e, {r, x}, x, "Time", <<NumberAttribute("NodeID", o[j + 1])>>,
                 Numeral(m.vectorTimes[o[j + 1]]))
  PROVE  TimesUpTo(e, m, o, r, x, j + 1) /\ Tidy(e, {r, x})
<1>1. PICK C : /\ SameBut(d, e, C) /\ C \cap Linked(d) = {}
               /\ C \cap {r, x} = {x} /\ Document \notin C
  BY DEF GotLast
<1>2. Elem(d, x, "VectorTimes", <<>>, ListOf(d, x)) /\ Len(ListOf(d, x)) = j /\ r # x
  BY DEF TimesUpTo, HasTimes
<1>3. /\ Keeps(d, e, x) /\ Len(ListOf(e, x)) = j + 1
      /\ TimeLeaf(e, m, ListOf(e, x)[j + 1], o[j + 1])
  BY <1>2 DEF GotLast, TimeLeaf
<1>4. Elem(e, x, "VectorTimes", <<>>, ListOf(e, x))
  BY <1>2, <1>3 DEF Elem, Keeps, SameNode
<1>5. ASSUME NEW i \in 1..j PROVE TimeLeaf(e, m, ListOf(e, x)[i], o[i])
  <2>1. ListOf(e, x)[i] = ListOf(d, x)[i]
    BY <1>2, <1>3 DEF Keeps
  <2>2. TimeLeaf(d, m, ListOf(d, x)[i], o[i])
    BY DEF TimesUpTo, HasTimes
  <2> QED BY <1>1, <2>1, <2>2, LeafStays DEF TimeLeaf
<1>6. HasTimes(e, m, o, x, j + 1)
  <2>1. \A i \in 1..j + 1 : i \in 1..j \/ i = j + 1
    OBVIOUS
  <2> QED BY <1>3, <1>4, <1>5, <2>1 DEF HasTimes
<1>7. Keeps(d, e, r) /\ ListOf(e, r) = ListOf(d, r)
  <2>1. r \in Node \ C
    BY <1>1, <1>2
  <2> QED BY <1>1, <2>1, KeepsAsItWas
<1>8. HasFields(e, m, r, 3)
  BY <1>1, <1>7, FieldsStay DEF TimesUpTo, FieldsUpTo
<1>9. ListOf(e, Document) = <<>>
  BY <1>1 DEF SameBut, Parent, TimesUpTo, FieldsUpTo
<1> QED BY <1>2, <1>6, <1>7, <1>8, <1>9 DEF TimesUpTo, FieldsUpTo, GotLast

LEMMA ContentIsGot ==
  ASSUME NEW d, NEW e, NEW m, NEW o, NEW r, ListThere(d, m, o, r),
         GotLast(d, e, {r}, r, "Content", <<>>, TextRead(m.content))
  PROVE  ContentThere(e, m, o, r) /\ Tidy(e, {r})
<1>1. PICK C : /\ SameBut(d, e, C) /\ C \cap Linked(d) = {}
               /\ C \cap {r} = {r} /\ Document \notin C
  BY DEF GotLast
<1>2. PICK x : x = ListOf(e, r)[5]
  OBVIOUS
<1>3. /\ Keeps(d, e, r) /\ Len(ListOf(e, r)) = 5
      /\ Leaf(e, x, "Content", <<>>, TextRead(m.content))
  BY <1>2 DEF GotLast, ListThere
<1>4. HasContent(e, m, o, r, TextRead(m.content))
  BY <1>1, <1>2, <1>3, ContentJoins DEF ListThere
<1>5. ListOf(e, Document) = <<>>
  BY <1>1 DEF SameBut, Parent, ListThere
<1> QED BY <1>4, <1>5 DEF ContentThere, GotLast

\* The parser is at p, below the elements of h; or it has begun with a line there.
Before(h, p) ==
  parsing = "children" /\ open = h /\ place = p /\ Tidy(parsed, ToSet(h))
AtLine(h, p, k, name, id, w) ==
  Before(h, p) \/ ReadingLine(h, p, k, name, id, w)

LEMMA LineGoesOn ==
  ASSUME NEW h, NEW p, NEW k, NEW name, NEW id, NEW w, OnLine(h, p, k, name, id, w),
         AtLine(h, p, k, name, id, w), Parsing
  PROVE  ReadsOn(h, p, k, name, id, w)
<1>1. CASE Before(h, p)
  BY <1>1, LineStarts DEF Before
<1>2. CASE ReadingLine(h, p, k, name, id, w)
  BY <1>2, LineIsRead
<1> QED BY <1>1, <1>2 DEF AtLine

LEMMA LineIsListed ==
  ASSUME NEW h, NEW p, NEW k, NEW name, NEW id, NEW w, AtLine(h, p, k, name, id, w)
  PROVE  Listed(parsed)
BY TidyFacts DEF AtLine, Before, ReadingLine, InOpening, InElement, InClosing

\* The stages of the parser: in the tag of the message, at its i-th field, in the
\* tag of the times, at the j-th of them, in their end tag, at the content, in the
\* end tag of the message, behind it
InHead(m, r) ==
  /\ parsing = "attributes" /\ ~closing /\ open = <<>> /\ tag = r
  /\ Tidy(parsed, {r}) /\ ListOf(parsed, Document) = <<>>
  /\ \/ place = 3 /\ Elem(parsed, r, m.form, <<>>, <<>>)
     \/ /\ place = 9
        /\ Elem(parsed, r, m.form, <<NumberAttribute("Number", m.number)>>, <<>>)
InField(m, r, i) ==
  /\ FieldsUpTo(parsed, m, r, i - 1)
  /\ AtLine(<<r>>, 10 * i, 2, FieldNames[i], Null, Numeral(FieldNumbers(m)[i]))
InList(m, r) ==
  /\ FieldsUpTo(parsed, m, r, 3)
  /\ \/ Before(<<r>>, 40)
     \/ /\ parsing = "attributes" /\ ~closing /\ open = <<r>> /\ place = 44
        /\ tag # r /\ Tidy(parsed, {r, tag})
        /\ Elem(parsed, tag, "VectorTimes", <<>>, <<>>)
InTime(m, o, r, x, j) ==
  /\ TimesUpTo(parsed, m, o, r, x, j - 1)
  /\ AtLine(<<r, x>>, 28 + 17 * j, 3, "Time", o[j], Numeral(m.vectorTimes[o[j]]))
InListEnd(m, o, r, x) ==
  /\ TimesUpTo(parsed, m, o, r, x, Len(o)) /\ Len(o) # 0
  /\ \/ Before(<<r, x>>, EndOfTimes(o))
     \/ /\ parsing = "attributes" /\ closing /\ open = <<r, x>>
        /\ place = EndOfTimes(o) + 5
        /\ tag \notin {r, x} /\ Tidy(parsed, {r, x, tag})
        /\ Elem(parsed, tag, "VectorTimes", <<>>, <<>>)
InContent(m, o, r) ==
  /\ ListThere(parsed, m, o, r)
  /\ AtLine(<<r>>, BehindTimes(o), 2, "Content", Null, m.content)
InFoot(m, o, r) ==
  /\ ContentThere(parsed, m, o, r)
  /\ \/ Before(<<r>>, BehindContent(m, o))
     \/ /\ parsing = "attributes" /\ closing /\ open = <<r>>
        /\ place = BehindContent(m, o) + 4
        /\ tag # r /\ Tidy(parsed, {r, tag}) /\ Elem(parsed, tag, m.form, <<>>, <<>>)
AllRead(m, o, r) ==
  /\ parsing \in {"children", "done"} /\ open = <<>>
  /\ place = BehindContent(m, o) + 5
  /\ Tidy(parsed, {}) /\ IsTree(parsed, m, o, r, TextRead(m.content))

ReadsMessage(m, o) ==
  \/ Before(<<>>, 1) /\ parsed = Empty
  \/ \E r : \/ InHead(m, r)
            \/ \E i \in 1..3 : InField(m, r, i)
            \/ InList(m, r)
            \/ \E x : \/ \E j \in 1..Len(o) : InTime(m, o, r, x, j)
                      \/ InListEnd(m, o, r, x)
            \/ InContent(m, o, r)
            \/ InFoot(m, o, r)
            \/ AllRead(m, o, r)

LEMMA Stacks ==
  ASSUME NEW r \in Node, NEW x \in Node
  PROVE  /\ ToSet(<<>>) = {} /\ ToSet(<<r>>) = {r} /\ ToSet(<<r, x>>) = {r, x}
         /\ <<r>> \in Seq(Node) /\ <<r, x>> \in Seq(Node)
         /\ Innermost(<<>>) = Document
         /\ Innermost(<<r>>) = r /\ Innermost(<<r, x>>) = x
         /\ Append(<<>>, r) = <<r>> /\ Append(<<r>>, x) = <<r, x>>
         /\ SubSeq(<<r>>, 1, Len(<<r>>) - 1) = <<>>
         /\ SubSeq(<<r, x>>, 1, Len(<<r, x>>) - 1) = <<r>>
<1>1. ToSet(<<>>) = {} /\ ToSet(<<r>>) = {r} /\ ToSet(<<r, x>>) = {r, x}
  BY DEF ToSet
<1>2. Innermost(<<>>) = Document
  BY DEF Innermost
<1>3. <<r>> \in Seq(Node) /\ <<r, x>> \in Seq(Node) /\ <<>> \in Seq(Node)
  OBVIOUS
<1>4. Append(<<>>, r) = <<r>> /\ Append(<<r>>, x) = <<r, x>>
  <2>1. PICK u : u = Append(<<>>, r)
    OBVIOUS
  <2>2. u \in Seq(Node) /\ Len(u) = 1 /\ u[1] = r
    BY <1>3, <2>1, AppendProperties
  <2>3. u = <<r>>
    BY <1>3, <2>2, SeqEqual
  <2>4. PICK w : w = Append(<<r>>, x)
    OBVIOUS
  <2>5. w \in Seq(Node) /\ Len(w) = 2 /\ w[1] = r /\ w[2] = x
    BY <1>3, <2>4, AppendProperties
  <2>6. w = <<r, x>>
    BY <1>3, <2>5, SeqEqual
  <2> QED BY <2>1, <2>3, <2>4, <2>6
<1>5. Innermost(<<r>>) = r /\ SubSeq(<<r>>, 1, Len(<<r>>) - 1) = <<>>
  <2>1. LET s == Append(<<>>, r)
        IN Innermost(s) = r /\ SubSeq(s, 1, Len(s) - 1) = <<>>
    BY <1>3, StackTop
  <2> QED BY <1>4, <2>1
<1>6. Innermost(<<r, x>>) = x /\ SubSeq(<<r, x>>, 1, Len(<<r, x>>) - 1) = <<r>>
  <2>1. LET s == Append(<<r>>, x)
        IN Innermost(s) = x /\ SubSeq(s, 1, Len(s) - 1) = <<r>>
    BY <1>3, StackTop
  <2> QED BY <1>4, <2>1
<1> QED BY <1>1, <1>2, <1>3, <1>4, <1>5, <1>6

\* What the parser has to read
HasMessage(m, o) ==
  /\ IsMessage(m) /\ IsOrder(m, o)
  /\ charBuffer \in Value /\ MessageText(charBuffer, m, o)

LEMMA OrderIsFinite ==
  ASSUME NEW m, NEW o, IsOrder(m, o)
  PROVE  /\ Len(o) \in Nat
         /\ \A j \in 1..Len(o) : o[j] \in Numbers /\ o[j] \in DOMAIN m.vectorTimes
BY DEF IsOrder

LEMMA TextParts ==
  ASSUME NEW m, NEW o, HasMessage(m, o)
  PROVE  LET t == charBuffer
         IN /\ Len(t) \in Nat /\ HeadLine(t, m) /\ \A i \in 1..3 : FieldLine(t, m, i)
            /\ ListTag(t) /\ \A j \in 1..Len(o) : TimeLine(t, m, o, j)
            /\ ListEnd(t, o) /\ ContentLine(t, m, o)
BY DEF HasMessage, MessageText, TextD, TextC, TextB, TextA

LEMMA LinesOfMessage ==
  ASSUME NEW m, NEW o, HasMessage(m, o), NEW r \in Node, NEW x \in Node
  PROVE  /\ parsed.kind[r] = "element" =>
              \A i \in 1..3 : OnLine(<<r>>, 10 * i, 2, FieldNames[i], Null,
                                     Numeral(FieldNumbers(m)[i]))
         /\ parsed.kind[x] = "element" =>
              \A j \in 1..Len(o) : OnLine(<<r, x>>, 28 + 17 * j, 3, "Time", o[j],
                                          Numeral(m.vectorTimes[o[j]]))
         /\ parsed.kind[r] = "element" =>
              OnLine(<<r>>, BehindTimes(o), 2, "Content", Null, m.content)
<1>1. restrictedEntities \in SUBSET DOMAIN entities
  BY EntitiesDiffer
<1>2. ASSUME NEW k \in Numbers
      PROVE  PrintString(Numeral(k), restrictedEntities) = Numeral(k)
             /\ Numeral(k) \in Contents
  BY <1>1, <1>2, NumeralIsPlain, NumeralIsContent
<1>3. IsMessage(m) /\ IsOrder(m, o) /\ charBuffer \in Value
  BY DEF HasMessage
<1>4. /\ <<r>> \in Seq(Node) /\ Innermost(<<r>>) \in ToSet(<<r>>)
      /\ <<r, x>> \in Seq(Node) /\ Innermost(<<r, x>>) \in ToSet(<<r, x>>)
      /\ Innermost(<<r>>) = r /\ Innermost(<<r, x>>) = x
  BY Stacks
<1>5. "Time" \in Words /\ "Content" \in Words
  BY DEF Words, fieldNames
<1>6. ASSUME parsed.kind[r] = "element", NEW i \in 1..3
      PROVE  OnLine(<<r>>, 10 * i, 2, FieldNames[i], Null, Numeral(FieldNumbers(m)[i]))
  <2>1. FieldNumbers(m)[i] \in Numbers /\ FieldNames[i] \in Words
    BY <1>3, MessageIsSound, WordsInPrint
  <2>2. PICK w : w = Numeral(FieldNumbers(m)[i])
    OBVIOUS
  <2>3. PrintString(w, restrictedEntities) = w /\ w \in Contents
    BY <1>2, <2>1, <2>2
  <2>4. PICK p : p = 10 * i
    OBVIOUS
  <2>5. p \in Nat /\ p >= 2
    BY <2>4
  <2>6. Line(charBuffer, p, 2, FieldNames[i], Null, w)
    BY <2>2, <2>4, TextParts DEF FieldLine
  <2>7. OnLine(<<r>>, p, 2, FieldNames[i], Null, w)
    BY <1>3, <1>4, <1>6, <2>1, <2>3, <2>5, <2>6 DEF OnLine
  <2> QED BY <2>2, <2>4, <2>7
<1>7. ASSUME parsed.kind[x] = "element", NEW j \in 1..Len(o)
      PROVE  OnLine(<<r, x>>, 28 + 17 * j, 3, "Time", o[j],
                    Numeral(m.vectorTimes[o[j]]))
  <2>1. o[j] \in Numbers /\ m.vectorTimes[o[j]] \in Numbers
    BY <1>3, OrderIsFinite, MessageIsSound
  <2>2. PICK w : w = Numeral(m.vectorTimes[o[j]])
    OBVIOUS
  <2>3. PrintString(w, restrictedEntities) = w /\ w \in Contents
    BY <1>2, <2>1, <2>2
  <2>4. PICK p : p = 28 + 17 * j
    OBVIOUS
  <2>5. p \in Nat /\ p >= 2
    BY <1>3, <2>4, OrderIsFinite
  <2>6. Line(charBuffer, p, 3, "Time", o[j], w)
    BY <2>2, <2>4, TextParts DEF TimeLine
  <2>7. OnLine(<<r, x>>, p, 3, "Time", o[j], w)
    BY <1>3, <1>4, <1>5, <1>7, <2>1, <2>3, <2>5, <2>6 DEF OnLine
  <2> QED BY <2>2, <2>4, <2>7
<1>8. ASSUME parsed.kind[r] = "element"
      PROVE  OnLine(<<r>>, BehindTimes(o), 2, "Content", Null, m.content)
  <2>1. PICK p : p = BehindTimes(o)
    OBVIOUS
  <2>2. p \in Nat /\ p >= 2
    BY <1>3, <2>1, OrderIsFinite, PlaceOfContent
  <2>3. Line(charBuffer, p, 2, "Content", Null, PrintString(m.content, restrictedEntities))
    BY <2>1, TextParts DEF ContentLine, Encoded
  <2>4. m.content \in Contents
    BY <1>3 DEF IsMessage
  <2>5. OnLine(<<r>>, p, 2, "Content", Null, m.content)
    BY <1>3, <1>4, <1>5, <1>8, <2>2, <2>3, <2>4 DEF OnLine
  <2> QED BY <2>1, <2>5
<1> QED BY <1>6, <1>7, <1>8

ReadsOnward(m, o) == charBuffer' = charBuffer /\ ReadsMessage(m, o)'

LEMMA StartIsRead ==
  ASSUME NEW m, NEW o, HasMessage(m, o), Before(<<>>, 1), parsed = Empty, Parsing
  PROVE  ReadsOnward(m, o)
<1>1. /\ charBuffer \in Value /\ Len(charBuffer) \in Nat /\ HeadLine(charBuffer, m)
      /\ IsMessage(m)
  BY TextParts DEF HasMessage
<1>2. /\ charBuffer[1] = "<" /\ charBuffer[1 + 1] = m.form
      /\ charBuffer[1 + 2] = OneBlank /\ 1 + 2 <= Len(charBuffer)
  BY <1>1 DEF HeadLine
<1>3. OneBlank \in Markup
  BY Marks, BlankSymbols DEF OneBlank
<1>4. m.form \in Words
  BY <1>1, MessageIsSound DEF Words
<1>5. /\ place = 1 /\ parsing = "children" /\ open = <<>> /\ Tidy(parsed, {})
      /\ ListOf(parsed, Document) = <<>>
  BY EmptyIsTidy DEF Before
<1>6. /\ parsing' = "attributes" /\ open' = open /\ ~closing'
      /\ place' = 1 + 2 /\ charBuffer' = charBuffer
      /\ MadeNode(parsed, parsed', {}, tag', "element", <<m.form>>)
      /\ Elem(parsed', tag', m.form, <<>>, <<>>)
  <2>1. \A i \in 1..1 - 1 : charBuffer[i] \in Blank
    OBVIOUS
  <2>2. PICK name : name = m.form
    OBVIOUS
  <2>3. 1 \in Nat \ {0} /\ 1 \in Nat /\ 1 <= 1
    OBVIOUS
  <2> QED BY <1>1, <1>2, <1>3, <1>4, <1>5, <2>1, <2>2, <2>3, OpeningIsParsed
<1>7. PICK r : r = tag'
  OBVIOUS
<1>8. InHead(m, r)'
  BY <1>5, <1>6, <1>7 DEF InHead, MadeNode
<1> QED BY <1>6, <1>8 DEF ReadsOnward, ReadsMessage

LEMMA HeadIsRead ==
  ASSUME NEW m, NEW o, HasMessage(m, o), NEW r, InHead(m, r), Parsing
  PROVE  ReadsOnward(m, o)
<1> DEFINE t == charBuffer
           a == NumberAttribute("Number", m.number)
<1>1. t \in Value /\ Len(t) \in Nat /\ HeadLine(t, m) /\ IsMessage(m) /\ FieldLine(t, m, 1)
  BY TextParts DEF HasMessage
<1>2. m.number \in Numbers /\ "Number" \in Words
  BY <1>1, MessageIsSound DEF Words
<1>3. /\ parsing = "attributes" /\ ~closing /\ open = <<>> /\ tag = r
      /\ Tidy(parsed, {r}) /\ ListOf(parsed, Document) = <<>> /\ r \in Node
      /\ tag \in Allocated(parsed)
  BY TidyFacts DEF InHead, Elem
<1>4. t[9] = ">" /\ 9 + 1 <= Len(t)
  <2>1. Line(t, 10, 2, "Type", Null, Numeral(FieldNumbers(m)[1]))
    BY <1>1 DEF FieldLine, FieldNames
  <2>2. TagEnd(10, 2, Null) = 14
    BY DEF TagEnd
  <2>3. t[10 - 1] = ">" /\ 14 + Len(Numeral(FieldNumbers(m)[1])) + 4 <= Len(t)
    BY <2>1, <2>2 DEF Line, Opening
  <2> QED BY <1>1, <2>3, OneLong
<1>5. CASE place = 3 /\ Elem(parsed, r, m.form, <<>>, <<>>)
  <2>1. t[3] = OneBlank /\ NumberedAt(t, 3 + 1, "Number", m.number) /\ 3 + 5 <= Len(t)
    BY <1>1 DEF HeadLine
  <2>2. parsed.attributes[tag] = <<>>
    BY <1>3, <1>5 DEF Elem
  <2>3. /\ parsing' = "attributes" /\ open' = open /\ tag' = tag /\ closing' = closing
        /\ place' = 3 + 6 /\ charBuffer' = charBuffer
        /\ GotAttribute(parsed, parsed', {r}, tag, NumberAttribute("Number", m.number))
    <3>1. PICK k : k = m.number
      OBVIOUS
    <3>2. 3 \in Nat \ {0}
      OBVIOUS
    <3> QED BY <1>1, <1>2, <1>3, <1>5, <2>1, <2>2, <3>1, <3>2, AttributeIsParsed
  <2>4. InHead(m, r)'
    BY <1>3, <1>5, <2>3 DEF InHead, GotAttribute, Elem
  <2> QED BY <2>3, <2>4 DEF ReadsOnward, ReadsMessage
<1>6. CASE place = 9 /\ Elem(parsed, r, m.form, <<a>>, <<>>)
  <2>1. /\ parsing' = "children" /\ open' = Append(open, tag) /\ place' = 9 + 1
        /\ charBuffer' = charBuffer /\ parsed' = parsed
    <3>1. 9 \in Nat \ {0}
      OBVIOUS
    <3> QED BY <1>1, <1>3, <1>4, <1>6, <3>1, TagIsOpened
  <2>2. open' = <<r>> /\ ToSet(<<r>>) = {r}
    BY <1>3, <2>1, Stacks
  <2>3. Before(<<r>>, 10 * 1)'
    BY <1>3, <2>1, <2>2 DEF Before
  <2>4. FieldsUpTo(parsed', m, r, 0)
    <3>1. ListOf(parsed, r) = <<>> /\ Len(<<>>) = 0
      BY <1>6 DEF Elem
    <3>2. HasFields(parsed, m, r, 0)
      BY <1>6, <3>1 DEF HasFields
    <3> QED BY <1>3, <2>1, <3>1, <3>2 DEF FieldsUpTo
  <2>5. InField(m, r, 1)'
    BY <2>3, <2>4 DEF InField, AtLine
  <2> QED BY <2>1, <2>5 DEF ReadsOnward, ReadsMessage
<1> QED BY <1>5, <1>6 DEF InHead

LEMMA FieldIsRead ==
  ASSUME NEW m, NEW o, HasMessage(m, o), NEW r, NEW i \in 1..3, InField(m, r, i), Parsing
  PROVE  ReadsOnward(m, o)
<1> DEFINE name == FieldNames[i]
           w == Numeral(FieldNumbers(m)[i])
           p == 10 * i
<1>1. FieldsUpTo(parsed, m, r, i - 1) /\ AtLine(<<r>>, p, 2, name, Null, w)
  BY DEF InField
<1>2. r \in Node /\ parsed.kind[r] = "element"
  BY <1>1 DEF FieldsUpTo, HasFields, Elem
<1>3. OnLine(<<r>>, p, 2, name, Null, w)
  BY <1>2, LinesOfMessage
<1>4. ToSet(<<r>>) = {r} /\ Innermost(<<r>>) = r
  BY <1>2, Stacks
<1>5. FieldNumbers(m)[i] \in Numbers
  BY MessageIsSound DEF HasMessage
<1>6. TextRead(w) = w /\ Len(PrintString(w, restrictedEntities)) = 1
  <2>1. ~isBlank(w) /\ Len(w) = 1 /\ Normalized(w) = w
    BY <1>5, NumeralIsContent, OneLong
  <2>2. Len(PrintString(w, restrictedEntities)) = Len(w)
    <3> HIDE DEF w, p, name
    <3> QED BY <1>3, LinePlaces
  <2> QED BY <2>1, <2>2 DEF TextRead
<1>7. AttributesFor(Null) = <<>> /\ i - 1 \in 0..2 /\ (i - 1) + 1 = i
  BY DEF AttributesFor
<1>8. Behind(p, 2, Null, PrintString(w, restrictedEntities)) = 10 * i + 10
  BY <1>6 DEF Behind, TagEnd
<1> HIDE DEF name, w, p
<1>9. ReadsOn(<<r>>, p, 2, name, Null, w)
  BY <1>1, <1>3, LineGoesOn
<1>10. /\ charBuffer' = charBuffer
       /\ \/ ReadingLine(<<r>>, p, 2, name, Null, w)' /\ LeavesBe(parsed, parsed', {r})
          \/ /\ parsing' = "children" /\ open' = <<r>> /\ place' = 10 * i + 10
             /\ GotLast(parsed, parsed', {r}, r, name, <<>>, w)
  BY <1>4, <1>6, <1>7, <1>8, <1>9 DEF ReadsOn
<1>11. CASE ReadingLine(<<r>>, p, 2, name, Null, w)' /\ LeavesBe(parsed, parsed', {r})
  <2>1. Listed(parsed)
    BY <1>1, LineIsListed
  <2>2. FieldsUpTo(parsed', m, r, i - 1)
    <3>1. {r} \in SUBSET Node /\ r \in {r}
      BY <1>2
    <3>2. PICK k : k = i - 1
      OBVIOUS
    <3>3. k \in 0..3 /\ FieldsUpTo(parsed, m, r, k)
      BY <1>1, <1>7, <3>2
    <3>4. FieldsUpTo(parsed', m, r, k)
      BY <1>11, <2>1, <3>1, <3>3, LeftAlone
    <3> QED BY <3>2, <3>4
  <2>3. InField(m, r, i)'
    BY <1>11, <2>2 DEF InField, AtLine, name, w, p
  <2> QED BY <1>10, <2>3 DEF ReadsOnward, ReadsMessage
<1>12. CASE /\ parsing' = "children" /\ open' = <<r>> /\ place' = 10 * i + 10
            /\ GotLast(parsed, parsed', {r}, r, name, <<>>, w)
  <2>1. FieldsUpTo(parsed', m, r, i) /\ Tidy(parsed', {r})
    <3>1. PICK k : k = i - 1
      OBVIOUS
    <3>2. k \in 0..2 /\ k + 1 = i /\ FieldsUpTo(parsed, m, r, k)
      BY <1>1, <1>7, <3>1
    <3>3. GotLast(parsed, parsed', {r}, r, FieldNames[k + 1], <<>>,
                  Numeral(FieldNumbers(m)[k + 1]))
      BY <1>12, <3>2 DEF name, w
    <3>4. FieldsUpTo(parsed', m, r, k + 1) /\ Tidy(parsed', {r})
      BY <3>2, <3>3, FieldIsGot
    <3> QED BY <3>2, <3>4
  <2>2. Before(<<r>>, 10 * i + 10)'
    BY <1>4, <1>12, <2>1 DEF Before
  <2>3. CASE i = 3
    <3>1. InList(m, r)'
      BY <2>1, <2>2, <2>3 DEF InList
    <3> QED BY <1>10, <3>1 DEF ReadsOnward, ReadsMessage
  <2>4. CASE i # 3
    <3>1. PICK k : k = i + 1
      OBVIOUS
    <3>2. k \in 1..3 /\ k - 1 = i /\ 10 * k = 10 * i + 10
      BY <2>4, <3>1
    <3>3. InField(m, r, k)'
      BY <2>1, <2>2, <3>2 DEF InField, AtLine
    <3> QED BY <1>10, <3>2, <3>3 DEF ReadsOnward, ReadsMessage
  <2> QED BY <2>3, <2>4
<1> QED BY <1>10, <1>11, <1>12

LEMMA NewIsApart ==
  ASSUME NEW d, NEW e, NEW P, Tidy(d, P), NEW n, NEW k, NEW v,
         MadeNode(d, e, P, n, k, v)
  PROVE  LeavesBe(d, e, P)
<1>1. /\ SameBut(d, e, {n}) /\ n \in Node \ Allocated(d) /\ n \notin P
      /\ Linked(d) \subseteq Allocated(d)
  BY TidyFacts DEF MadeNode
<1> QED BY <1>1, NullIsNoNode DEF LeavesBe

\* The symbols at the tags of the times
LEMMA ListSymbols ==
  ASSUME NEW m, NEW o, HasMessage(m, o)
  PROVE  LET t == charBuffer
         IN /\ Len(t) \in Nat /\ Len(o) \in Nat
            /\ t[40] \in Blank /\ t[41] \in Blank /\ t[42] = "<"
            /\ t[43] = "VectorTimes" /\ 44 + 1 <= Len(t)
            /\ IF Len(o) = 0 THEN t[44] = "/" /\ t[44 + 1] = ">" ELSE t[44] = ">"
<1> DEFINE t == charBuffer
<1>1. Len(t) \in Nat /\ ListTag(t) /\ ListEnd(t, o) /\ IsOrder(m, o)
  BY TextParts DEF HasMessage
<1>2. Len(o) \in Nat
  BY <1>1, OrderIsFinite
<1>3. t[40] \in Blank /\ t[41] \in Blank /\ t[42] = "<" /\ t[43] = "VectorTimes"
  <2>1. /\ \A i \in 40..40 + 2 - 1 : t[i] \in Blank
        /\ t[40 + 2] = "<" /\ t[40 + 2 + 1] = "VectorTimes"
    BY <1>1 DEF ListTag, Opening
  <2> QED BY <2>1
<1>4. CASE Len(o) = 0
  BY <1>1, <1>2, <1>3, <1>4 DEF ListEnd
<1>5. CASE Len(o) # 0
  <2>1. 1 \in 1..Len(o)
    BY <1>2, <1>5
  <2>2. TimeLine(t, m, o, 1)
    BY <2>1, TextParts
  <2>3. PICK p : p = 28 + 17 * 1
    OBVIOUS
  <2>4. Line(t, p, 3, "Time", o[1], Numeral(m.vectorTimes[o[1]])) /\ p = 45
    BY <2>2, <2>3 DEF TimeLine
  <2>5. t[p - 1] = ">"
    BY <2>4 DEF Line, Opening
  <2>6. TagEnd(p, 3, o[1]) + Len(Numeral(m.vectorTimes[o[1]])) + 4 <= Len(t)
    BY <2>4 DEF Line
  <2>7. TagEnd(p, 3, o[1]) >= 45 /\ TagEnd(p, 3, o[1]) \in Nat
    BY <2>4 DEF TagEnd
  <2>8. Len(Numeral(m.vectorTimes[o[1]])) = 1
    BY OneLong
  <2>9. t[44] = ">" /\ 44 + 1 <= Len(t)
    BY <1>1, <2>4, <2>5, <2>6, <2>7, <2>8
  <2> QED BY <1>1, <1>2, <1>3, <1>5, <2>9
<1> QED BY <1>4, <1>5

LEMMA ListTagIsRead ==
  ASSUME NEW m, NEW o, HasMessage(m, o), NEW r, InList(m, r), Parsing
  PROVE  ReadsOnward(m, o)
<1> DEFINE t == charBuffer
<1>1. t \in Value /\ IsOrder(m, o)
  BY DEF HasMessage
<1>2. /\ Len(t) \in Nat /\ Len(o) \in Nat
      /\ t[40] \in Blank /\ t[41] \in Blank /\ t[42] = "<"
      /\ t[43] = "VectorTimes" /\ 44 + 1 <= Len(t)
      /\ IF Len(o) = 0 THEN t[44] = "/" /\ t[44 + 1] = ">" ELSE t[44] = ">"
  BY ListSymbols
<1>3. /\ r \in Node /\ FieldsUpTo(parsed, m, r, 3) /\ parsed.kind[r] = "element"
      /\ ToSet(<<r>>) = {r} /\ HasFields(parsed, m, r, 3)
      /\ Len(ListOf(parsed, r)) = 3 /\ ListOf(parsed, Document) = <<>>
  BY Stacks DEF InList, FieldsUpTo, HasFields, Elem
<1>4. CASE Before(<<r>>, 40)
  <2>1. /\ parsing = "children" /\ open = <<r>> /\ place = 40 /\ Tidy(parsed, {r})
    BY <1>3, <1>4 DEF Before
  <2>2. /\ parsing' = "attributes" /\ open' = open /\ ~closing'
        /\ place' = 42 + 2 /\ charBuffer' = charBuffer
        /\ MadeNode(parsed, parsed', {r}, tag', "element", <<"VectorTimes">>)
        /\ Elem(parsed', tag', "VectorTimes", <<>>, <<>>)
    <3>1. \A i \in 40..42 - 1 : t[i] \in Blank
      <4>1. \A i \in 40..42 - 1 : i = 40 \/ i = 41
        OBVIOUS
      <4> QED BY <1>2, <4>1
    <3>2. t[42 + 1] = "VectorTimes" /\ t[42 + 2] \in Markup /\ 42 + 2 <= Len(t)
      BY <1>2, Marks
    <3>3. "VectorTimes" \in Words
      BY DEF Words, fieldNames
    <3>4. 40 \in Nat \ {0} /\ 42 \in Nat /\ 40 <= 42
      OBVIOUS
    <3> QED BY <1>1, <1>2, <2>1, <3>1, <3>2, <3>3, <3>4, OpeningIsParsed
  <2>3. LeavesBe(parsed, parsed', {r})
    BY <2>1, <2>2, NewIsApart
  <2>4. FieldsUpTo(parsed', m, r, 3)
    <3>1. {r} \in SUBSET Node /\ r \in {r} /\ 3 \in 0..3 /\ Listed(parsed)
      BY <1>3, <2>1, TidyFacts
    <3> QED BY <1>3, <2>3, <3>1, LeftAlone
  <2>5. tag' # r /\ Tidy(parsed', {r, tag'})
    <3>1. {r} \cup {tag'} = {r, tag'}
      OBVIOUS
    <3> QED BY <2>2, <3>1 DEF MadeNode
  <2>6. InList(m, r)'
    BY <2>1, <2>2, <2>4, <2>5 DEF InList
  <2> QED BY <2>2, <2>6 DEF ReadsOnward, ReadsMessage
<1>5. CASE /\ parsing = "attributes" /\ ~closing /\ open = <<r>> /\ place = 44
           /\ tag # r /\ Tidy(parsed, {r, tag})
           /\ Elem(parsed, tag, "VectorTimes", <<>>, <<>>)
  <2>1. PICK x : x = tag
    OBVIOUS
  <2>2. PICK d : d = parsed
    OBVIOUS
  <2>3. /\ x \in Node /\ x # r /\ Tidy(d, {r, x}) /\ Elem(d, x, "VectorTimes", <<>>, <<>>)
        /\ Elem(d, x, "VectorTimes", <<>>, ListOf(d, x)) /\ Len(ListOf(d, x)) = 0
        /\ ListOf(d, x) = <<>>
    BY <1>5, <2>1, <2>2 DEF Elem
  <2>4. HasTimes(d, m, o, x, 0)
    BY <2>3 DEF HasTimes
  <2>5. CASE Len(o) = 0
    <3>1. /\ parsing' = "children" /\ open' = open /\ place' = 44 + 2
          /\ charBuffer' = charBuffer
          /\ parsed' = InsertEndChild(parsed, Innermost(open), tag)
      <4>1. 44 \in Nat \ {0} /\ t[44] = "/" /\ t[44 + 1] = ">"
        BY <1>2, <2>5
      <4> QED BY <1>1, <1>2, <1>5, <4>1, TagIsClosed
    <3> DEFINE e == InsertEndChild(d, r, x)
    <3>2. parsed' = e
      <4>1. Innermost(open) = r
        BY <1>3, <1>5, Stacks
      <4> QED BY <2>1, <2>2, <3>1, <4>1
    <3>3. Inserted(d, e, {r, x}, r, x)
      <4>1. r \in {Document} \cup ({r, x} \ {x}) /\ r \in {Document} \cup Elements(d)
            /\ x \in {r, x}
        BY <1>3, <2>2, <2>3 DEF Elements
      <4> QED BY <2>3, <4>1, InsertIsDone
    <3> HIDE DEF e
    <3>4. {r, x} \ {x} = {r} /\ r \notin Linked(d) /\ Listed(d) /\ r # Document
      BY <1>3, <2>3, TidyFacts, NullIsNoNode
    <3>5. /\ Tidy(e, {r}) /\ SameBut(d, e, {r}) /\ x \in Linked(e)
          /\ SameNode(d, e, r) /\ ListOf(e, r) = Append(ListOf(d, r), x)
      <4>1. /\ Tidy(e, {r}) /\ SameBut(d, e, {r}) /\ x \in Linked(e)
            /\ \A n \in Node : SameNode(d, e, n)
            /\ ListOf(e, r) = Append(ListOf(d, r), x)
        BY <3>3, <3>4 DEF Inserted
      <4> QED BY <1>3, <4>1
    <3>6. HasList(e, m, o, r) /\ Len(ListOf(e, r)) = 4
      <4>1. {r} \cap Linked(d) = {} /\ x \notin {r} /\ HasFields(d, m, r, 3)
            /\ Len(ListOf(d, r)) = 3 /\ HasTimes(d, m, o, x, Len(o))
        BY <1>3, <2>2, <2>3, <2>4, <2>5, <3>4
      <4> QED BY <2>3, <3>4, <3>5, <4>1, ListJoins
    <3>7. ListOf(e, Document) = <<>>
      BY <1>3, <2>2, <3>4, <3>5 DEF SameBut, Parent
    <3>8. BehindTimes(o) = 46
      BY <2>5 DEF BehindTimes
    <3>9. Before(<<r>>, BehindTimes(o))'
      <4>1. /\ parsing' = "children" /\ open' = <<r>> /\ place' = BehindTimes(o)
            /\ Tidy(parsed', {r})
        BY <1>5, <3>1, <3>2, <3>5, <3>8
      <4> QED BY <1>3, <4>1 DEF Before
    <3>10. InContent(m, o, r)'
      BY <3>2, <3>6, <3>7, <3>9 DEF InContent, ListThere, AtLine
    <3> QED BY <3>1, <3>10 DEF ReadsOnward, ReadsMessage
  <2>6. CASE Len(o) # 0
    <3>1. /\ parsing' = "children" /\ open' = Append(open, tag) /\ place' = 44 + 1
          /\ charBuffer' = charBuffer /\ parsed' = parsed
      <4>1. 44 \in Nat \ {0} /\ t[44] = ">"
        BY <1>2, <2>6
      <4> QED BY <1>1, <1>2, <1>5, <4>1, TagIsOpened
    <3>2. open' = <<r, x>> /\ ToSet(<<r, x>>) = {r, x}
      BY <1>3, <1>5, <2>1, <2>3, <3>1, Stacks
    <3>3. PICK j : j = 1
      OBVIOUS
    <3>4. j \in 1..Len(o) /\ j - 1 = 0 /\ 28 + 17 * j = 45
      BY <1>2, <2>6, <3>3
    <3>5. Before(<<r, x>>, 28 + 17 * j)'
      BY <2>2, <2>3, <3>1, <3>2, <3>4 DEF Before
    <3>6. TimesUpTo(parsed', m, o, r, x, j - 1)
      BY <1>3, <2>2, <2>3, <2>4, <3>1, <3>4 DEF TimesUpTo
    <3>7. InTime(m, o, r, x, j)'
      BY <3>5, <3>6 DEF InTime, AtLine
    <3> QED BY <3>1, <3>4, <3>7 DEF ReadsOnward, ReadsMessage
  <2> QED BY <2>5, <2>6
<1> QED BY <1>4, <1>5 DEF InList

LEMMA TimeIsRead ==
  ASSUME NEW m, NEW o, HasMessage(m, o), NEW r, NEW x, NEW j \in 1..Len(o),
         InTime(m, o, r, x, j), Parsing
  PROVE  ReadsOnward(m, o)
<1> DEFINE w == Numeral(m.vectorTimes[o[j]])
           p == 28 + 17 * j
           id == o[j]
<1>0. Len(o) \in Nat /\ id \in Numbers /\ m.vectorTimes[id] \in Numbers /\ j \in Nat
  BY OrderIsFinite, MessageIsSound DEF HasMessage
<1>1. /\ TimesUpTo(parsed, m, o, r, x, j - 1)
      /\ AtLine(<<r, x>>, p, 3, "Time", id, w)
  BY DEF InTime
<1>2. r \in Node /\ x \in Node /\ parsed.kind[x] = "element"
  BY <1>1 DEF TimesUpTo, FieldsUpTo, HasFields, HasTimes, Elem
<1>3. OnLine(<<r, x>>, p, 3, "Time", id, w)
  BY <1>2, LinesOfMessage
<1>4. ToSet(<<r, x>>) = {r, x} /\ Innermost(<<r, x>>) = x
  BY <1>2, Stacks
<1>5. id # Null
  BY <1>0, NumeralAssumption
<1>6. TextRead(w) = w /\ Len(PrintString(w, restrictedEntities)) = 1
  <2>1. ~isBlank(w) /\ Len(w) = 1 /\ Normalized(w) = w
    BY <1>0, NumeralIsContent, OneLong
  <2>2. Len(PrintString(w, restrictedEntities)) = Len(w)
    <3> HIDE DEF w, p, id
    <3> QED BY <1>3, LinePlaces
  <2> QED BY <2>1, <2>2 DEF TextRead
<1>7. AttributesFor(id) = <<NumberAttribute("NodeID", id)>>
  BY <1>5 DEF AttributesFor
<1>8. Behind(p, 3, id, PrintString(w, restrictedEntities)) = 45 + 17 * j
  <2>1. TagEnd(p, 3, id) = 39 + 17 * j
    BY <1>0, <1>5 DEF TagEnd
  <2> HIDE DEF p, id, w
  <2> QED BY <1>0, <1>6, <2>1 DEF Behind
<1> HIDE DEF id, w, p
<1>9. ReadsOn(<<r, x>>, p, 3, "Time", id, w)
  BY <1>1, <1>3, LineGoesOn
<1>10. /\ charBuffer' = charBuffer
       /\ \/ /\ ReadingLine(<<r, x>>, p, 3, "Time", id, w)'
             /\ LeavesBe(parsed, parsed', {r, x})
          \/ /\ parsing' = "children" /\ open' = <<r, x>> /\ place' = 45 + 17 * j
             /\ GotLast(parsed, parsed', {r, x}, x, "Time",
                        <<NumberAttribute("NodeID", id)>>, w)
  BY <1>4, <1>6, <1>7, <1>8, <1>9 DEF ReadsOn
<1>11. Listed(parsed)
  BY <1>1, LineIsListed
<1>12. PICK k : k = j - 1
  OBVIOUS
<1>13. k \in Nat /\ k + 1 = j /\ TimesUpTo(parsed, m, o, r, x, k)
  BY <1>0, <1>1, <1>12
<1>14. CASE /\ ReadingLine(<<r, x>>, p, 3, "Time", id, w)'
            /\ LeavesBe(parsed, parsed', {r, x})
  <2>1. {r, x} \in SUBSET Node /\ r \in {r, x} /\ x \in {r, x}
    BY <1>2
  <2>2. TimesUpTo(parsed', m, o, r, x, k)
    BY <1>11, <1>13, <1>14, <2>1, LeftAlone
  <2>3. InTime(m, o, r, x, j)'
    BY <1>12, <1>14, <2>2 DEF InTime, AtLine, id, w, p
  <2> QED BY <1>10, <2>3 DEF ReadsOnward, ReadsMessage
<1>15. CASE /\ parsing' = "children" /\ open' = <<r, x>> /\ place' = 45 + 17 * j
            /\ GotLast(parsed, parsed', {r, x}, x, "Time",
                       <<NumberAttribute("NodeID", id)>>, w)
  <2>1. TimesUpTo(parsed', m, o, r, x, j) /\ Tidy(parsed', {r, x})
    <3>1. GotLast(parsed, parsed', {r, x}, x, "Time",
                  <<NumberAttribute("NodeID", o[k + 1])>>,
                  Numeral(m.vectorTimes[o[k + 1]]))
      BY <1>13, <1>15 DEF id, w
    <3>2. TimesUpTo(parsed', m, o, r, x, k + 1) /\ Tidy(parsed', {r, x})
      BY <1>2, <1>11, <1>13, <3>1, TimeIsGot
    <3> QED BY <1>13, <3>2
  <2>2. Before(<<r, x>>, 45 + 17 * j)'
    BY <1>4, <1>15, <2>1 DEF Before
  <2>3. CASE j = Len(o)
    <3>1. EndOfTimes(o) = 45 + 17 * j /\ Len(o) # 0
      BY <2>3 DEF EndOfTimes
    <3>2. InListEnd(m, o, r, x)'
      BY <2>1, <2>2, <2>3, <3>1 DEF InListEnd
    <3> QED BY <1>10, <3>2 DEF ReadsOnward, ReadsMessage
  <2>4. CASE j # Len(o)
    <3>1. PICK i : i = j + 1
      OBVIOUS
    <3>2. i \in 1..Len(o) /\ i - 1 = j /\ 28 + 17 * i = 45 + 17 * j
      BY <1>0, <2>4, <3>1
    <3>3. InTime(m, o, r, x, i)'
      BY <2>1, <2>2, <3>2 DEF InTime, AtLine
    <3> QED BY <1>10, <3>2, <3>3 DEF ReadsOnward, ReadsMessage
  <2> QED BY <2>3, <2>4
<1> QED BY <1>10, <1>14, <1>15

LEMMA ListEndIsRead ==
  ASSUME NEW m, NEW o, HasMessage(m, o), NEW r, NEW x, InListEnd(m, o, r, x), Parsing
  PROVE  ReadsOnward(m, o)
<1> DEFINE t == charBuffer
           p == EndOfTimes(o)
<1>1. /\ t \in Value /\ Len(t) \in Nat /\ ListEnd(t, o) /\ Len(o) \in Nat /\ Len(o) # 0
  BY TextParts, OrderIsFinite DEF HasMessage, InListEnd
<1>2. p \in Nat \ {0} /\ p + 2 \in Nat /\ p + 5 \in Nat \ {0} /\ BehindTimes(o) = p + 6
  BY <1>1 DEF EndOfTimes, BehindTimes
<1>3. /\ t[p] \in Blank /\ t[p + 1] \in Blank
      /\ Closing(t, p + 2, "VectorTimes") /\ p + 5 <= Len(t)
  BY <1>1, <1>2 DEF ListEnd
<1>4. /\ TimesUpTo(parsed, m, o, r, x, Len(o)) /\ r # x
      /\ r \in Node /\ parsed.kind[r] = "element" /\ x \in Node
      /\ parsed.kind[x] = "element" /\ parsed.value[x] = <<"VectorTimes">>
      /\ HasFields(parsed, m, r, 3) /\ Len(ListOf(parsed, r)) = 3
      /\ ListOf(parsed, Document) = <<>> /\ HasTimes(parsed, m, o, x, Len(o))
  BY DEF InListEnd, TimesUpTo, FieldsUpTo, HasFields, HasTimes, Elem
<1>5. /\ ToSet(<<r, x>>) = {r, x} /\ ToSet(<<r>>) = {r} /\ Innermost(<<r, x>>) = x
      /\ SubSeq(<<r, x>>, 1, Len(<<r, x>>) - 1) = <<r>> /\ Innermost(<<r>>) = r
      /\ <<r, x>> # <<>>
  BY <1>4, Stacks
<1> HIDE DEF p
<1>6. CASE Before(<<r, x>>, p)
  <2>1. /\ parsing = "children" /\ open = <<r, x>> /\ place = p /\ Tidy(parsed, {r, x})
    BY <1>5, <1>6 DEF Before
  <2>2. /\ parsing' = "attributes" /\ open' = open /\ closing'
        /\ place' = (p + 2) + 3 /\ charBuffer' = charBuffer
        /\ MadeNode(parsed, parsed', {r, x}, tag', "element", <<"VectorTimes">>)
        /\ Elem(parsed', tag', "VectorTimes", <<>>, <<>>)
    <3>1. \A i \in p..(p + 2) - 1 : t[i] \in Blank
      <4>1. \A i \in p..(p + 2) - 1 : i = p \/ i = p + 1
        BY <1>2
      <4> QED BY <1>3, <4>1
    <3>2. "VectorTimes" \in Words
      BY DEF Words, fieldNames
    <3>3. p <= p + 2 /\ (p + 2) + 3 <= Len(t)
      BY <1>1, <1>2, <1>3
    <3> QED BY <1>1, <1>2, <1>3, <2>1, <3>1, <3>2, <3>3, ClosingIsParsed
  <2>3. LeavesBe(parsed, parsed', {r, x})
    BY <2>1, <2>2, NewIsApart
  <2>4. TimesUpTo(parsed', m, o, r, x, Len(o))
    <3>1. {r, x} \in SUBSET Node /\ r \in {r, x} /\ x \in {r, x} /\ Listed(parsed)
      BY <1>4, <2>1, TidyFacts
    <3> QED BY <1>4, <2>3, <3>1, LeftAlone
  <2>5. tag' \notin {r, x} /\ Tidy(parsed', {r, x, tag'})
    <3>1. {r, x} \cup {tag'} = {r, x, tag'}
      OBVIOUS
    <3> QED BY <2>2, <3>1 DEF MadeNode
  <2>6. place' = p + 5
    BY <1>2, <2>2
  <2>7. InListEnd(m, o, r, x)'
    BY <1>1, <2>1, <2>2, <2>4, <2>5, <2>6 DEF InListEnd, p
  <2> QED BY <2>2, <2>7 DEF ReadsOnward, ReadsMessage
<1>7. CASE /\ parsing = "attributes" /\ closing /\ open = <<r, x>> /\ place = p + 5
           /\ tag \notin {r, x} /\ Tidy(parsed, {r, x, tag})
           /\ Elem(parsed, tag, "VectorTimes", <<>>, <<>>)
  <2>1. PICK c : c = tag
    OBVIOUS
  <2>2. PICK d : d = parsed
    OBVIOUS
  <2>3. /\ c \in Node /\ ListOf(d, c) = <<>> /\ c \notin {r, x}
        /\ Tidy(d, {r} \cup {x, c}) /\ c \notin Linked(d) /\ r \notin Linked(d)
        /\ Listed(d)
    <3>1. {r} \cup {x, c} = {r, x, c} /\ {r, x, c} \cap Linked(d) = {} /\ Listed(d)
      BY <1>7, <2>1, <2>2, TidyFacts
    <3> QED BY <1>7, <2>1, <2>2, <3>1 DEF Elem
  <2>4. /\ parsing' = "children" /\ open' = outer /\ place' = (p + 5) + 1
        /\ charBuffer' = charBuffer
        /\ parsed' = InsertEndChild(Dropped(parsed, tag), Innermost(outer),
                                    Innermost(open))
    <3>1. t[p + 5] = ">"
      <4>1. t[(p + 2) + 3] = ">" /\ (p + 2) + 3 = p + 5
        BY <1>2, <1>3 DEF Closing
      <4> QED BY <4>1
    <3>2. open # <<>> /\ parsed.value[tag] = parsed.value[Innermost(open)]
      BY <1>4, <1>5, <1>7 DEF Elem
    <3> QED BY <1>1, <1>2, <1>3, <1>7, <3>1, <3>2, ClosingIsEnded
  <2>5. outer = <<r>> /\ Innermost(open) = x
    BY <1>5, <1>7 DEF outer
  <2> DEFINE e == EndsElement(d, c, r, x)
  <2>6. parsed' = e
    BY <1>5, <2>1, <2>2, <2>4, <2>5 DEF EndsElement
  <2>7. EndedBelow(d, e, {r}, c, r, x)
    <3>1. /\ x \in Node \ {r} /\ c \notin {r} \cup {x} /\ r \in {Document} \cup {r}
          /\ r \in {Document} \cup Elements(d)
      BY <1>4, <2>2, <2>3 DEF Elements
    <3> QED BY <2>3, <3>1, ElementEnds
  <2> HIDE DEF e
  <2>8. /\ Tidy(e, {r}) /\ SameBut(d, e, {c, r}) /\ x \in Linked(e)
        /\ SameNode(d, e, r) /\ ListOf(e, r) = Append(ListOf(d, r), x)
    <3>1. r \in Node \ {c}
      BY <1>4, <2>3
    <3> QED BY <2>7, <3>1 DEF EndedBelow
  <2>9. ListOf(e, Document) = <<>>
    <3>1. r # Document
      BY <1>4, NullIsNoNode
    <3> QED BY <1>4, <2>2, <2>7, <3>1 DEF EndedBelow
  <2>10. HasList(e, m, o, r) /\ Len(ListOf(e, r)) = 4
    <3>1. {c, r} \cap Linked(d) = {} /\ x \notin {c, r} /\ HasFields(d, m, r, 3)
          /\ Len(ListOf(d, r)) = 3 /\ HasTimes(d, m, o, x, Len(o))
      BY <1>4, <2>2, <2>3
    <3> QED BY <1>4, <2>3, <2>8, <3>1, ListJoins
  <2>11. Before(<<r>>, BehindTimes(o))'
    <3>1. /\ parsing' = "children" /\ open' = <<r>> /\ place' = BehindTimes(o)
          /\ Tidy(parsed', {r})
      BY <1>2, <2>4, <2>5, <2>6, <2>8
    <3> QED BY <1>5, <3>1 DEF Before
  <2>12. InContent(m, o, r)'
    BY <2>6, <2>9, <2>10, <2>11 DEF InContent, ListThere, AtLine
  <2> QED BY <2>4, <2>12 DEF ReadsOnward, ReadsMessage
<1> QED BY <1>6, <1>7 DEF InListEnd, p

LEMMA ContentLineIsRead ==
  ASSUME NEW m, NEW o, HasMessage(m, o), NEW r, InContent(m, o, r), Parsing
  PROVE  ReadsOnward(m, o)
<1> DEFINE w == m.content
           p == BehindTimes(o)
<1>1. /\ ListThere(parsed, m, o, r)
      /\ AtLine(<<r>>, p, 2, "Content", Null, w)
  BY DEF InContent
<1>2. r \in Node /\ parsed.kind[r] = "element"
  BY <1>1 DEF ListThere, HasList, HasFields, Elem
<1>3. OnLine(<<r>>, p, 2, "Content", Null, w)
  BY <1>2, LinesOfMessage
<1>4. ToSet(<<r>>) = {r} /\ Innermost(<<r>>) = r /\ AttributesFor(Null) = <<>>
  BY <1>2, Stacks DEF AttributesFor
<1>5. Behind(p, 2, Null, PrintString(w, restrictedEntities)) = BehindContent(m, o)
  BY DEF BehindContent, Encoded
<1> HIDE DEF w, p
<1>6. ReadsOn(<<r>>, p, 2, "Content", Null, w)
  BY <1>1, <1>3, LineGoesOn
<1>7. /\ charBuffer' = charBuffer
      /\ \/ /\ ReadingLine(<<r>>, p, 2, "Content", Null, w)'
            /\ LeavesBe(parsed, parsed', {r})
         \/ /\ parsing' = "children" /\ open' = <<r>> /\ place' = BehindContent(m, o)
            /\ GotLast(parsed, parsed', {r}, r, "Content", <<>>, TextRead(w))
  BY <1>4, <1>5, <1>6 DEF ReadsOn
<1>8. CASE /\ ReadingLine(<<r>>, p, 2, "Content", Null, w)'
           /\ LeavesBe(parsed, parsed', {r})
  <2>1. Listed(parsed) /\ {r} \in SUBSET Node /\ r \in {r}
    BY <1>1, <1>2, LineIsListed
  <2>2. ListThere(parsed', m, o, r)
    BY <1>1, <1>8, <2>1, LeftAlone
  <2>3. InContent(m, o, r)'
    BY <1>8, <2>2 DEF InContent, AtLine, w, p
  <2> QED BY <1>7, <2>3 DEF ReadsOnward, ReadsMessage
<1>9. CASE /\ parsing' = "children" /\ open' = <<r>> /\ place' = BehindContent(m, o)
           /\ GotLast(parsed, parsed', {r}, r, "Content", <<>>, TextRead(w))
  <2>1. ContentThere(parsed', m, o, r) /\ Tidy(parsed', {r})
    BY <1>1, <1>9, ContentIsGot DEF w
  <2>2. Before(<<r>>, BehindContent(m, o))'
    BY <1>4, <1>9, <2>1 DEF Before
  <2>3. InFoot(m, o, r)'
    BY <2>1, <2>2 DEF InFoot
  <2> QED BY <1>7, <2>3 DEF ReadsOnward, ReadsMessage
<1> QED BY <1>7, <1>8, <1>9

\* The symbols at the end
LEMMA FootSymbols ==
  ASSUME NEW m, NEW o, HasMessage(m, o)
  PROVE  LET t == charBuffer
             p == BehindContent(m, o)
         IN /\ p \in Nat \ {0} /\ Len(t) \in Nat
            /\ t[p] \in Blank /\ Closing(t, p + 1, m.form)
            /\ Len(t) \in {p + 4, p + 5} /\ (Len(t) = p + 5 => t[p + 5] \in Blank)
<1>1. Len(o) \in Nat /\ m.content \in Contents
  BY OrderIsFinite DEF HasMessage, IsMessage
<1>2. BehindTimes(o) \in Nat /\ Len(Encoded(m)) \in Nat
  BY <1>1, PlaceOfContent, ContentIsRead DEF Encoded
<1>3. BehindContent(m, o) \in Nat \ {0}
  BY <1>2 DEF BehindContent, Behind, TagEnd
<1> QED BY <1>3, TextParts DEF HasMessage, MessageText

LEMMA FootIsRead ==
  ASSUME NEW m, NEW o, HasMessage(m, o), NEW r, InFoot(m, o, r), Parsing
  PROVE  ReadsOnward(m, o)
<1> DEFINE t == charBuffer
           p == BehindContent(m, o)
           v == TextRead(m.content)
<1>1. /\ p \in Nat \ {0} /\ Len(t) \in Nat
      /\ t[p] \in Blank /\ Closing(t, p + 1, m.form)
      /\ Len(t) \in {p + 4, p + 5} /\ (Len(t) = p + 5 => t[p + 5] \in Blank)
  BY FootSymbols
<1>2. t \in Value /\ m.form \in Words
  BY MessageIsSound DEF HasMessage, Words
<1>3. /\ ContentThere(parsed, m, o, r) /\ HasContent(parsed, m, o, r, v)
      /\ ListOf(parsed, Document) = <<>> /\ r \in Node /\ parsed.kind[r] = "element"
      /\ parsed.value[r] = <<m.form>>
  BY DEF InFoot, ContentThere, HasContent, HasList, HasFields, Elem
<1>4. /\ ToSet(<<r>>) = {r} /\ Innermost(<<r>>) = r /\ Innermost(<<>>) = Document
      /\ SubSeq(<<r>>, 1, Len(<<r>>) - 1) = <<>> /\ <<r>> # <<>>
  BY <1>3, Stacks
<1> HIDE DEF p, v
<1>5. CASE Before(<<r>>, p)
  <2>1. parsing = "children" /\ open = <<r>> /\ place = p /\ Tidy(parsed, {r})
    BY <1>4, <1>5 DEF Before
  <2>2. /\ parsing' = "attributes" /\ open' = open /\ closing'
        /\ place' = (p + 1) + 3 /\ charBuffer' = charBuffer
        /\ MadeNode(parsed, parsed', {r}, tag', "element", <<m.form>>)
        /\ Elem(parsed', tag', m.form, <<>>, <<>>)
    <3>1. \A i \in p..(p + 1) - 1 : t[i] \in Blank
      <4>1. \A i \in p..(p + 1) - 1 : i = p
        BY <1>1
      <4> QED BY <1>1, <4>1
    <3>2. p <= p + 1 /\ (p + 1) + 3 <= Len(t) /\ p + 1 \in Nat
      BY <1>1
    <3>3. PICK f : f = m.form
      OBVIOUS
    <3> QED BY <1>1, <1>2, <2>1, <3>1, <3>2, <3>3, ClosingIsParsed
  <2>3. LeavesBe(parsed, parsed', {r})
    BY <2>1, <2>2, NewIsApart
  <2>4. ContentThere(parsed', m, o, r)
    <3>1. {r} \in SUBSET Node /\ r \in {r} /\ Listed(parsed)
      BY <1>3, <2>1, TidyFacts
    <3> QED BY <1>3, <2>3, <3>1, LeftAlone
  <2>5. tag' # r /\ Tidy(parsed', {r, tag'})
    <3>1. {r} \cup {tag'} = {r, tag'}
      OBVIOUS
    <3> QED BY <2>2, <3>1 DEF MadeNode
  <2>6. place' = p + 4
    BY <1>1, <2>2
  <2>7. InFoot(m, o, r)'
    BY <2>1, <2>2, <2>4, <2>5, <2>6 DEF InFoot, p
  <2> QED BY <2>2, <2>7 DEF ReadsOnward, ReadsMessage
<1>6. CASE /\ parsing = "attributes" /\ closing /\ open = <<r>> /\ place = p + 4
           /\ tag # r /\ Tidy(parsed, {r, tag}) /\ Elem(parsed, tag, m.form, <<>>, <<>>)
  <2>1. PICK c : c = tag
    OBVIOUS
  <2>2. PICK d : d = parsed
    OBVIOUS
  <2>3. /\ c \in Node /\ ListOf(d, c) = <<>> /\ c # r /\ r # Document
        /\ Tidy(d, {} \cup {r, c}) /\ c \notin Linked(d) /\ Document \notin Linked(d)
        /\ Listed(d)
    <3>1. {} \cup {r, c} = {r, c} /\ {r, c} \cap Linked(d) = {} /\ Listed(d)
          /\ Linked(d) \subseteq Node
      BY <1>6, <2>1, <2>2, TidyFacts
    <3> QED BY <1>3, <1>6, <2>1, <2>2, <3>1, NullIsNoNode DEF Elem
  <2>4. /\ parsing' = "children" /\ open' = outer /\ place' = (p + 4) + 1
        /\ charBuffer' = charBuffer
        /\ parsed' = InsertEndChild(Dropped(parsed, tag), Innermost(outer),
                                    Innermost(open))
    <3>1. t[p + 4] = ">" /\ p + 4 \in Nat \ {0} /\ p + 4 <= Len(t)
      <4>1. t[(p + 1) + 3] = ">" /\ (p + 1) + 3 = p + 4
        BY <1>1 DEF Closing
      <4> QED BY <1>1, <4>1
    <3>2. open # <<>> /\ parsed.value[tag] = parsed.value[Innermost(open)]
      BY <1>3, <1>4, <1>6 DEF Elem
    <3> QED BY <1>2, <1>6, <3>1, <3>2, ClosingIsEnded
  <2>5. outer = <<>> /\ Innermost(open) = r
    BY <1>4, <1>6 DEF outer
  <2> DEFINE e == EndsElement(d, c, Document, r)
  <2>6. parsed' = e
    BY <1>4, <2>1, <2>2, <2>4, <2>5 DEF EndsElement
  <2>7. EndedBelow(d, e, {}, c, Document, r)
    <3>1. /\ r \in Node \ {} /\ c \notin {} \cup {r} /\ Document \in {Document} \cup {}
          /\ Document \in {Document} \cup Elements(d)
      BY <1>3, <2>3
    <3> QED BY <2>3, <3>1, ElementEnds
  <2> HIDE DEF e
  <2>8. /\ Tidy(e, {}) /\ SameBut(d, e, {c, Document})
        /\ ListOf(e, Document) = Append(ListOf(d, Document), r)
    BY <2>7 DEF EndedBelow
  <2>9. IsTree(e, m, o, r, v)
    <3>1. /\ {c, Document} \cap Linked(d) = {} /\ r \in Node \ {c, Document}
          /\ HasContent(d, m, o, r, v) /\ ListOf(d, Document) = <<>>
      BY <1>3, <2>2, <2>3
    <3> QED BY <2>3, <2>8, <3>1, RootJoins
  <2>10. AllRead(m, o, r)'
    <3>1. /\ parsing' = "children" /\ open' = <<>> /\ place' = p + 5
          /\ Tidy(parsed', {}) /\ IsTree(parsed', m, o, r, v)
      BY <1>1, <2>4, <2>5, <2>6, <2>8, <2>9
    <3> QED BY <3>1 DEF AllRead, p, v
  <2> QED BY <2>4, <2>10 DEF ReadsOnward, ReadsMessage
<1> QED BY <1>5, <1>6 DEF InFoot, p

LEMMA EndIsRead ==
  ASSUME NEW m, NEW o, HasMessage(m, o), NEW r, AllRead(m, o, r), Parsing
  PROVE  ReadsOnward(m, o)
<1> DEFINE t == charBuffer
           p == BehindContent(m, o)
<1>1. /\ p \in Nat \ {0} /\ Len(t) \in Nat
      /\ Len(t) \in {p + 4, p + 5} /\ (Len(t) = p + 5 => t[p + 5] \in Blank)
  BY FootSymbols
<1>2. t \in Value /\ parsing = "children" /\ open = <<>> /\ place = p + 5
  BY ParsingRuns DEF HasMessage, AllRead
<1> HIDE DEF p
<1>3. parsing' = "done" /\ UNCHANGED <<charBuffer, place, parsed, open>>
  <2>1. \A i \in p + 5..Len(t) : t[i] \in Blank
    <3>1. \A i \in p + 5..Len(t) : i = p + 5 /\ Len(t) = p + 5
      BY <1>1
    <3> QED BY <1>1, <3>1
  <2>2. p + 5 \in Nat \ {0} /\ p + 5 <= Len(t) + 1
    BY <1>1
  <2> QED BY <1>2, <2>1, <2>2, EndIsParsed
<1>4. AllRead(m, o, r)'
  BY <1>3 DEF AllRead
<1> QED BY <1>3, <1>4 DEF ReadsOnward, ReadsMessage

LEMMA MessageIsRead ==
  ASSUME NEW m, NEW o, HasMessage(m, o), ReadsMessage(m, o), Parsing
  PROVE  ReadsOnward(m, o)
<1>1. CASE Before(<<>>, 1) /\ parsed = Empty
  BY <1>1, StartIsRead
<1>2. ASSUME NEW r, InHead(m, r) PROVE ReadsOnward(m, o)
  BY <1>2, HeadIsRead
<1>3. ASSUME NEW r, NEW i \in 1..3, InField(m, r, i) PROVE ReadsOnward(m, o)
  BY <1>3, FieldIsRead
<1>4. ASSUME NEW r, InList(m, r) PROVE ReadsOnward(m, o)
  BY <1>4, ListTagIsRead
<1>5. ASSUME NEW r, NEW x, NEW j \in 1..Len(o), InTime(m, o, r, x, j)
      PROVE  ReadsOnward(m, o)
  BY <1>5, TimeIsRead
<1>6. ASSUME NEW r, NEW x, InListEnd(m, o, r, x) PROVE ReadsOnward(m, o)
  BY <1>6, ListEndIsRead
<1>7. ASSUME NEW r, InContent(m, o, r) PROVE ReadsOnward(m, o)
  BY <1>7, ContentLineIsRead
<1>8. ASSUME NEW r, InFoot(m, o, r) PROVE ReadsOnward(m, o)
  BY <1>8, FootIsRead
<1>9. ASSUME NEW r, AllRead(m, o, r) PROVE ReadsOnward(m, o)
  BY <1>9, EndIsRead
<1> QED BY <1>1, <1>2, <1>3, <1>4, <1>5, <1>6, <1>7, <1>8, <1>9 DEF ReadsMessage

-----------------------------------------------------------------------------
(* A message that arrives whole                                             *)

\* As long as nothing is parsed the document is empty; then the parser is where
\* the text of the message says.
ReadInv ==
  /\ parsing = "idle" => parsed = Empty /\ open = <<>>
  /\ parsing # "idle" => \A o : HasMessage(message, o) => ReadsMessage(message, o)
SurvivalInv == MessageInv /\ TreeInv /\ PlaceInv /\ SentInv /\ ReadInv

LEMMA ReadStarts ==
  ASSUME ReadInv, NEW t \in Value, Parse(t), UNCHANGED message
  PROVE  ReadInv'
<1>1. parsing' # "idle" /\ parsed' = Empty /\ open' = <<>>
  BY DEF Parse, ReadInv
<1>2. PICK m : m = message
  OBVIOUS
<1>3. ASSUME NEW o, HasMessage(m, o)' PROVE ReadsMessage(m, o)'
  <2>1. PICK u : u = charBuffer'
    OBVIOUS
  <2>2. u \in Value /\ u[1] = "<" /\ Len(u) \in Nat /\ 1 <= Len(u)
    BY <1>3, <2>1 DEF HasMessage, MessageText, TextD, TextC, TextB, TextA, HeadLine
  <2>3. SkipWhiteSpace(u, 1) = 1
    BY <2>2, NoBlankAt, Marks
  <2>4. place' = 1 /\ parsing' = "children"
    BY <2>1, <2>2, <2>3 DEF Parse, AtEnd
  <2>5. Tidy(parsed', {}) /\ ToSet(<<>>) = {}
    BY <1>1, EmptyIsTidy DEF ToSet
  <2> QED BY <1>1, <2>4, <2>5 DEF ReadsMessage, Before
<1> QED BY <1>1, <1>2, <1>3 DEF ReadInv

LEMMA ReadGoesOn ==
  ASSUME ReadInv, Parsing, UNCHANGED message PROVE ReadInv'
<1>1. /\ parsing # "idle" /\ parsing' # "idle" /\ charBuffer' = charBuffer
  BY ParsingRuns
<1>2. PICK m : m = message
  OBVIOUS
<1>3. ASSUME NEW o, HasMessage(m, o)' PROVE ReadsMessage(m, o)'
  <2>1. HasMessage(m, o)
    BY <1>1, <1>3 DEF HasMessage
  <2>2. ReadsMessage(m, o)
    BY <1>1, <1>2, <2>1 DEF ReadInv
  <2> QED BY <2>1, <2>2, MessageIsRead DEF ReadsOnward
<1> QED BY <1>1, <1>2, <1>3 DEF ReadInv

\* The steps that leave the parser alone, or the printer and the text
LEMMA ReadRests ==
  ASSUME ReadInv, UNCHANGED parserVars, UNCHANGED message PROVE ReadInv'
<1>1. /\ charBuffer' = charBuffer /\ place' = place /\ parsed' = parsed
      /\ open' = open /\ tag' = tag /\ closing' = closing /\ parsing' = parsing
  BY DEF parserVars
<1>2. ASSUME NEW m, NEW o, ReadsMessage(m, o) PROVE ReadsMessage(m, o)'
  <2>1. ASSUME NEW h, NEW p PROVE Before(h, p)' <=> Before(h, p)
    BY <1>1 DEF Before
  <2>2. ASSUME NEW h, NEW p, NEW k, NEW name, NEW id, NEW w,
               AtLine(h, p, k, name, id, w)
        PROVE  AtLine(h, p, k, name, id, w)'
    BY <1>1, <2>2 DEF AtLine, Before, ReadingLine, InOpening, InElement, InClosing
  <2> DEFINE Goal == ReadsMessage(m, o)'
  <2>3. ASSUME Before(<<>>, 1), parsed = Empty PROVE Goal
    BY <1>1, <2>1, <2>3 DEF ReadsMessage
  <2>4. ASSUME NEW r, InHead(m, r) PROVE Goal
    <3>1. InHead(m, r)'
      BY <1>1, <2>4 DEF InHead
    <3> QED BY <3>1 DEF ReadsMessage
  <2>5. ASSUME NEW r, NEW i \in 1..3, InField(m, r, i) PROVE Goal
    <3>1. InField(m, r, i)'
      BY <1>1, <2>2, <2>5 DEF InField
    <3> QED BY <3>1 DEF ReadsMessage
  <2>6. ASSUME NEW r, InList(m, r) PROVE Goal
    <3>1. InList(m, r)'
      BY <1>1, <2>6 DEF InList, Before
    <3> QED BY <3>1 DEF ReadsMessage
  <2>7. ASSUME NEW r, NEW x, NEW j \in 1..Len(o), InTime(m, o, r, x, j) PROVE Goal
    <3>1. InTime(m, o, r, x, j)'
      BY <1>1, <2>2, <2>7 DEF InTime
    <3> QED BY <3>1 DEF ReadsMessage
  <2>8. ASSUME NEW r, NEW x, InListEnd(m, o, r, x) PROVE Goal
    <3>1. InListEnd(m, o, r, x)'
      BY <1>1, <2>8 DEF InListEnd, Before
    <3> QED BY <3>1 DEF ReadsMessage
  <2>9. ASSUME NEW r, InContent(m, o, r) PROVE Goal
    <3>1. InContent(m, o, r)'
      BY <1>1, <2>2, <2>9 DEF InContent
    <3> QED BY <3>1 DEF ReadsMessage
  <2>10. ASSUME NEW r, InFoot(m, o, r) PROVE Goal
    <3>1. InFoot(m, o, r)'
      BY <1>1, <2>10 DEF InFoot, Before
    <3> QED BY <3>1 DEF ReadsMessage
  <2>11. ASSUME NEW r, AllRead(m, o, r) PROVE Goal
    <3>1. AllRead(m, o, r)'
      BY <1>1, <2>11 DEF AllRead
    <3> QED BY <3>1 DEF ReadsMessage
  <2>12. ReadsMessage(m, o)
    BY <1>2
  <2> HIDE DEF Goal
  <2>13. Goal
    BY <2>3, <2>4, <2>5, <2>6, <2>7, <2>8, <2>9, <2>10, <2>11, <2>12 DEF ReadsMessage
  <2> QED BY <2>13 DEF Goal
<1>3. PICK m : m = message
  OBVIOUS
<1>4. ASSUME NEW o, HasMessage(m, o)', parsing' # "idle" PROVE ReadsMessage(m, o)'
  <2>1. HasMessage(m, o)
    BY <1>1, <1>4 DEF HasMessage
  <2> QED BY <1>1, <1>2, <1>3, <1>4, <2>1 DEF ReadInv
<1>5. parsing' = "idle" => parsed' = Empty /\ open' = <<>>
  BY <1>1 DEF ReadInv
<1> QED BY <1>3, <1>4, <1>5 DEF ReadInv

LEMMA SentRests ==
  ASSUME SentInv, UNCHANGED <<message, text>> PROVE SentInv'
BY DEF SentInv

LEMMA PrintRests ==
  ASSUME TreeInv, PlaceInv, UNCHANGED <<writerVars, printerVars, message>>
  PROVE  TreeInv' /\ PlaceInv'
BY DEF TreeInv, PlaceInv, writerVars, printerVars

LEMMA SurvivalStarts == MessageInit => SurvivalInv
<1> SUFFICES ASSUME MessageInit PROVE SurvivalInv
  OBVIOUS
<1>1. MessageInv
  BY MessageStarts
<1>2. TreeInv /\ PlaceInv
  BY DEF MessageInit, TreeInv, PlaceInv
<1>3. SentInv
  BY DEF MessageInit, TransferInit, SentInv
<1>4. ReadInv
  BY DEF MessageInit, ParserInit, ReadInv
<1> QED BY <1>1, <1>2, <1>3, <1>4 DEF SurvivalInv

LEMMA SurvivalStep ==
  ASSUME SurvivalInv, [MessageNext]_messageVars PROVE SurvivalInv'
<1>0. MessageInv'
  BY MessageStep DEF SurvivalInv
<1>1. CASE writeHeader \/ writeTime \/ writeContent
  <2>1. /\ UNCHANGED <<printerVars, parserVars, transferVars>>
        /\ writing \notin {"printing", "sent"}
    <3>1. CASE writeHeader
      BY <3>1 DEF writeHeader
    <3>2. CASE writeTime
      BY <3>2 DEF writeTime
    <3>3. CASE writeContent
      BY <3>3 DEF writeContent
    <3> QED BY <1>1, <3>1, <3>2, <3>3
  <2>2. visit' = "idle"
    BY <2>1 DEF SurvivalInv, MessageInv, PrinterInv, Prints, printerVars
  <2>3. TreeInv'
    BY <1>1, HeaderStep, TimeStep, ContentStep DEF SurvivalInv, MessageInv
  <2>4. PlaceInv'
    BY <2>2 DEF PlaceInv
  <2>5. SentInv' /\ ReadInv'
    BY <2>1, SentRests, ReadRests DEF SurvivalInv, transferVars
  <2> QED BY <1>0, <2>3, <2>4, <2>5 DEF SurvivalInv
<1>2. CASE write
  <2>1. PlaceInv' /\ TreeInv'
    BY <1>2, PrintGoesOn DEF SurvivalInv, MessageInv
  <2>2. SentInv' /\ ReadInv'
    BY <1>2, SentRests, ReadRests DEF SurvivalInv, write, transferVars
  <2> QED BY <1>0, <2>1, <2>2 DEF SurvivalInv
<1>3. CASE convertToString
  <2>1. /\ writing = "printing" /\ writing' = "sent"
        /\ UNCHANGED <<doc, root, message>> /\ UNCHANGED parserVars
    BY <1>3 DEF convertToString, Sends
  <2>2. TreeInv'
    BY <2>1 DEF SurvivalInv, TreeInv
  <2>3. SentInv' /\ PlaceInv'
    BY <1>3, TextIsSent DEF SurvivalInv
  <2>4. ReadInv'
    BY <2>1, ReadRests DEF SurvivalInv
  <2> QED BY <1>0, <2>2, <2>3, <2>4 DEF SurvivalInv
<1>4. CASE Arrive \/ read \/ UNCHANGED messageVars
  <2>1. UNCHANGED <<writerVars, printerVars, parserVars, message, text>>
    BY <1>4 DEF Arrive, read, messageVars, transferVars
  <2> QED BY <1>0, <2>1, PrintRests, SentRests, ReadRests DEF SurvivalInv
<1>5. CASE create
  <2>1. /\ piece # <<>> /\ (Parse(piece) \/ Parsing)
        /\ UNCHANGED <<writerVars, printerVars, message, text>>
    BY <1>5 DEF create, transferVars
  <2>2. piece \in Value
    BY <2>1, PieceFacts, PieceOfText DEF SurvivalInv, MessageInv
  <2>3. ReadInv'
    BY <2>1, <2>2, ReadStarts, ReadGoesOn DEF SurvivalInv
  <2> QED BY <1>0, <2>1, <2>3, PrintRests, SentRests DEF SurvivalInv
<1> QED BY <1>1, <1>2, <1>3, <1>4, <1>5 DEF MessageNext

\* What is left of the text of a message when only a blank behind it may miss
LEMMA WholeIsMessage ==
  ASSUME NEW m, NEW o, IsMessage(m), IsOrder(m, o), NEW w, AllPrinted(w, m, o),
         NEW t \in Value, Len(t) \in Nat, NEW i \in 0..Len(w) - Len(t),
         t = SubSeq(w, i + 1, i + Len(t)),
         \A k \in DOMAIN w : w[k] \notin Blank => k \in i + 1..i + Len(t)
  PROVE  MessageText(t, m, o)
<1> DEFINE p == BehindContent(m, o)
<1>0. Len(t) \in Nat
  OBVIOUS
<1>1. Len(o) \in Nat /\ m.content \in Contents
  BY OrderIsFinite DEF IsMessage
<1>2. BehindTimes(o) \in Nat /\ BehindTimes(o) >= 46 /\ Len(Encoded(m)) \in Nat
  BY <1>1, PlaceOfContent, ContentIsRead DEF Encoded
<1>3. p \in Nat /\ p >= 46
  BY <1>2 DEF BehindContent, Behind, TagEnd
<1>4. /\ w \in Texts /\ Len(w) = p + 5 /\ DOMAIN w = 1..Len(w) /\ w \in Value
  BY SeqMonotonic, LenProperties DEF AllPrinted, Texts, Value
<1>5. /\ w[1] = "<" /\ w[p] \in Blank /\ Closing(w, p + 1, m.form)
      /\ w[p + 5] \in Blank
  BY <1>4 DEF AllPrinted, MessageText, TextD, TextC, TextB, TextA, HeadLine
<1>6. PICK s : TextD(s, m, o) /\ Len(s) = p - 1 /\ Grown(s, w)
  BY DEF AllPrinted
<1> HIDE DEF p
<1>7. w[p + 4] = ">"
  <2>1. w[(p + 1) + 3] = ">" /\ (p + 1) + 3 = p + 4
    BY <1>3, <1>5 DEF Closing
  <2> QED BY <2>1
<1>8. i = 0
  <2>1. 1 \in i + 1..i + Len(t)
    BY <1>3, <1>4, <1>5, Marks
  <2> QED BY <1>3, <1>4, <2>1
<1>9. Len(t) >= p + 4 /\ Len(t) <= p + 5
  <2>1. p + 4 \in i + 1..i + Len(t)
    BY <1>3, <1>4, <1>7, Marks
  <2> QED BY <1>3, <1>4, <1>8, <2>1
<1>10. \A k \in 1..Len(t) : t[k] = w[k]
  <2>1. t = SubSeq(w, 1, Len(t))
    BY <1>8
  <2>2. PICK l : l = Len(t)
    OBVIOUS
  <2>3. l \in 0..Len(w) /\ 1 \in 1..Len(w) + 1
    BY <1>3, <1>4, <1>9, <2>2
  <2>4. \A k \in 1..l : SubSeq(w, 1, l)[k] = w[k]
    <3>1. \A k \in 1..l : w[k] \in Symbol
      BY <1>4, <2>3, ElementOfSeq DEF Value
    <3> QED BY <1>4, <2>3, <3>1, SubSeqProperties DEF Value
  <2> QED BY <2>1, <2>2, <2>4
<1>11. TextD(t, m, o)
  <2>1. Grown(s, t)
    <3>1. \A k \in 1..Len(s) : k \in 1..Len(t) /\ k \in 1..Len(s) /\ t[k] = s[k]
      <4> TAKE k \in 1..Len(s)
      <4>1. k \in 1..Len(t)
        BY ONLY <1>0, <1>3, <1>6, <1>9
      <4>2. w[k] = s[k]
        BY <1>6 DEF Grown
      <4> QED BY ONLY <1>10, <4>1, <4>2
    <3>2. Len(s) <= Len(t) /\ Len(s) \in Nat
      BY ONLY <1>0, <1>3, <1>6, <1>9
    <3> QED BY ONLY <1>0, <3>1, <3>2 DEF Grown
  <2> QED BY <1>1, <1>2, <1>6, <2>1, TextDStays
<1>12. t[p] \in Blank /\ Closing(t, p + 1, m.form)
  <2>1. \A k \in p..p + 4 : k \in 1..Len(t)
    BY ONLY <1>0, <1>3, <1>9
  <2>2. \A k \in p..p + 4 : t[k] = w[k]
    BY ONLY <1>10, <2>1
  <2> QED BY ONLY <1>3, <1>5, <2>2 DEF Closing
<1>13. Len(t) \in {p + 4, p + 5} /\ (Len(t) = p + 5 => t[p + 5] \in Blank)
  <2>1. Len(t) \in {p + 4, p + 5}
    BY ONLY <1>0, <1>3, <1>9
  <2>2. ASSUME Len(t) = p + 5 PROVE t[p + 5] \in Blank
    <3>1. p + 5 \in 1..Len(t)
      BY ONLY <1>0, <1>3, <2>2
    <3> QED BY ONLY <1>5, <1>10, <3>1
  <2> QED BY <2>1, <2>2
<1> QED BY <1>11, <1>12, <1>13 DEF MessageText, p

LEMMA WholeIsRead ==
  ASSUME SurvivalInv, received # NoMessage, isWhole
  PROVE  IF isBlank(message.content) THEN received = Dies
         ELSE received = [outcome |-> "message", message |-> asRead(message)]
<1>1. /\ parsedAll /\ received = Reading(parsed) /\ parsing # "idle"
      /\ piece # <<>> /\ charBuffer = UptoNUL(piece)
  BY DEF SurvivalInv, MessageInv, TransferInv, parsedAll
<1>2. text # <<>>
  BY <1>1 DEF SurvivalInv, MessageInv, TransferInv
<1>3. PICK o, w : /\ IsMessage(message) /\ IsOrder(message, o)
                  /\ AllPrinted(w, message, o) /\ text = Append(w, NUL)
  BY <1>2 DEF SurvivalInv, SentInv
<1>4. UptoNUL(text) = w
  BY <1>3, TextWithoutNUL DEF AllPrinted
<1>5. charBuffer \in Value /\ Len(charBuffer) \in Nat
  <2>1. piece \in Value
    BY <1>1, PieceFacts, PieceOfText DEF SurvivalInv, MessageInv
  <2> QED BY <1>1, <2>1, UptoFacts
<1>6. PICK i \in 0..Len(w) - Len(charBuffer) :
        /\ charBuffer = SubSeq(w, i + 1, i + Len(charBuffer))
        /\ \A k \in DOMAIN w : w[k] \notin Blank => k \in i + 1..i + Len(charBuffer)
  BY <1>1, <1>4 DEF isWhole
<1>7. MessageText(charBuffer, message, o)
  BY <1>3, <1>5, <1>6, WholeIsMessage
<1>8. ReadsMessage(message, o)
  BY <1>1, <1>3, <1>5, <1>7 DEF SurvivalInv, ReadInv, HasMessage
<1>9. PICK r : AllRead(message, o, r)
  <2>1. parsing \notin {"children", "attributes"}
    BY <1>1 DEF parsedAll
  <2>2. \A h, p : ~Before(h, p)
    BY <2>1 DEF Before
  <2>3. \A h, p, k, name, id, u : ~ReadingLine(h, p, k, name, id, u)
    <3>1. ASSUME NEW h, NEW p, NEW k, NEW name, NEW id, NEW u
          PROVE  /\ ~InOpening(h, p, k, name, id)
                 /\ \A x : ~InElement(h, p, k, name, id, u, x)
                 /\ \A x : ~InClosing(h, p, k, name, id, u, x)
      BY <2>1 DEF InOpening, InElement, InClosing
    <3> QED BY <3>1 DEF ReadingLine
  <2>4. \A r : ~InHead(message, r) /\ ~InList(message, r) /\ ~InFoot(message, o, r)
    BY <2>1, <2>2 DEF InHead, InList, InFoot
  <2>5. \A r, k : ~InField(message, r, k)
    BY <2>2, <2>3 DEF InField, AtLine
  <2>6. \A r : ~InContent(message, o, r)
    BY <2>2, <2>3 DEF InContent, AtLine
  <2>7. \A r, x, j : ~InTime(message, o, r, x, j)
    BY <2>2, <2>3 DEF InTime, AtLine
  <2>8. \A r, x : ~InListEnd(message, o, r, x)
    BY <2>1, <2>2 DEF InListEnd
  <2> QED BY <1>8, <2>2, <2>4, <2>5, <2>6, <2>7, <2>8 DEF ReadsMessage
<1>10. /\ Listed(parsed)
       /\ IsTree(parsed, message, o, r, TextRead(message.content))
  BY <1>9 DEF AllRead, Tidy
<1>11. TextRead(message.content)
         = IF isBlank(message.content) THEN Null ELSE Normalized(message.content)
  BY DEF TextRead
<1>12. Reading(parsed) = IF isBlank(message.content) THEN Dies
                         ELSE [outcome |-> "message", message |-> asRead(message)]
  BY <1>3, <1>10, <1>11, TreeIsRead
<1> QED BY <1>1, <1>12

(* Whatever is sent with a content that is not blank, and wherever the        *)
(* connection cuts off blanks: a message that arrives whole is read as the    *)
(* message that was sent, with its number, its type, its nodes and its        *)
(* content, in which line ends have become newlines, and with the times of    *)
(* all nodes from 1 on, which are the ones VectorTime::setTime takes.         *)
THEOREM WholeMessageSurvives == MessageSpec => []MessageSurvives
<1>1. MessageInit => SurvivalInv
  BY SurvivalStarts
<1>2. SurvivalInv /\ [MessageNext]_messageVars => SurvivalInv'
  BY SurvivalStep
<1>3. SurvivalInv => MessageSurvives
  BY WholeIsRead DEF MessageSurvives
<1> QED BY <1>1, <1>2, <1>3, PTL DEF MessageSpec

\* The process ends although nothing of the message was lost.
BlankKills ==
  received # NoMessage /\ isWhole /\ isBlank(message.content) => received = Dies

(* Whenever a message with an empty or blank content arrives whole, the       *)
(* reader ends: the parser makes no text of blanks, GetText returns a null    *)
(* pointer, and MessageFactory::read takes its length.  No message of the     *)
(* prompt has such a content.                                                 *)
THEOREM BlankIsFatal == MessageSpec => []BlankKills
<1>1. MessageInit => SurvivalInv
  BY SurvivalStarts
<1>2. SurvivalInv /\ [MessageNext]_messageVars => SurvivalInv'
  BY SurvivalStep
<1>3. SurvivalInv => BlankKills
  BY WholeIsRead DEF BlankKills
<1> QED BY <1>1, <1>2, <1>3, PTL DEF MessageSpec

-----------------------------------------------------------------------------
(* The message of an order                                                  *)

OrderInv ==
  /\ input # None => message = NoMessage
  /\ ordered # None =>
       \/ ordered = "start" /\ message = ControlMessage(normal, 0, <<"START">>)
       \/ ordered = "echo" /\ message = ControlMessage(normal, 0, SHUTDOWN_ECHO)
       \/ /\ ordered = "halt"
          /\ \E nodeID \in nodes, command \in {SHUTDOWN, SHUTDOWN_ALL} :
               message = ControlMessage(normal, nodeID, command)
       \/ /\ ordered = "snap"
          /\ message = ControlMessage(normal, RandomNumber, SNAPSHOT)
       \/ /\ ordered = "time"
          /\ \E t \in TypedTimes :
               /\ isNumber(t)
               /\ message = ControlMessage(parametrize, RandomNumber, t)

LEMMA TypedIsContent ==
  ASSUME NEW t \in TypedTimes, isNumber(t)
  PROVE  t \in Contents /\ Normalized(t) = t
<1>1. t \in Seq(Symbol)
  BY PromptAssumption DEF Value
<1>2. \A i \in 1..Len(t) : t[i] \in Inside \ LineEnd
  <2> TAKE i \in 1..Len(t)
  <2>1. i \in DOMAIN t
    BY <1>1, LenProperties
  <2>2. t[i] = TooLong \/ t[i] \in Digits
    BY <2>1 DEF isNumber, isDigits, Digits
  <2>3. t[i] \in Symbol \ Markup
    BY <2>2, PromptAssumption, MarkupAssumption, NumeralAssumption
  <2> QED BY <2>3 DEF Markup, Blank, Inside
<1>3. t \in Seq(Inside \ LineEnd)
  BY <1>1, <1>2, LenProperties, IsASeq
<1> QED BY <1>3, LineIsContent

LEMMA OrderIsMessage ==
  ASSUME NEW type \in Numbers, NEW number \in Numbers, NEW c \in Contents
  PROVE  IsMessage(ControlMessage(type, number, c))
<1> DEFINE m == ControlMessage(type, number, c)
<1>1. /\ m.form = "ControlMessage" /\ m.type = type /\ m.number = number
      /\ m.sourceID = 0 /\ m.destinationID = -1
      /\ m.vectorTimes = [n \in {} |-> 0] /\ m.content = c
  BY DEF ControlMessage
<1>2. m = [form |-> m.form, type |-> m.type, number |-> m.number,
           sourceID |-> m.sourceID, destinationID |-> m.destinationID,
           vectorTimes |-> m.vectorTimes, content |-> m.content]
  BY <1>1 DEF ControlMessage
<1>3. DOMAIN m.vectorTimes = {} /\ IsFiniteSet({})
  BY <1>1, FS_EmptySet
<1>4. m.vectorTimes \in [{} -> Numbers]
  BY <1>1
<1>5. {m.type, m.number, m.sourceID, m.destinationID} \subseteq Numbers
  BY <1>1, PromptAssumption
<1> HIDE DEF m
<1>6. IsMessage(m)
  BY <1>1, <1>2, <1>3, <1>4, <1>5 DEF IsMessage, Forms
<1> QED BY <1>6 DEF m

\* What the words of the prompt are
LEMMA OrderWords ==
  \A c \in {SHUTDOWN, SHUTDOWN_ALL, SHUTDOWN_ECHO, SNAPSHOT, <<"START">>} :
    c \in Contents /\ Normalized(c) = c
<1> DEFINE S == Inside \ LineEnd
<1>1. {"START", "shutdown", "all", "echo", "snapshot"} \subseteq S
  BY PromptAssumption DEF Markup, Inside, Blank
<1>2. " " \in S
  BY MarkupAssumption DEF Markup, Blank, NUL, entities, Inside, LineEnd
<1> HIDE DEF S
<1>3. /\ <<"shutdown">> \in Seq(S)
      /\ <<"shutdown", " ", "all">> \in Seq(S)
      /\ <<"shutdown", " ", "echo">> \in Seq(S)
      /\ <<"snapshot">> \in Seq(S) /\ <<"START">> \in Seq(S)
  <2>1. ASSUME NEW U, NEW a \in U, NEW b \in U, NEW c \in U
        PROVE  <<a>> \in Seq(U) /\ <<a, b, c>> \in Seq(U)
    OBVIOUS
  <2> QED BY <1>1, <1>2, <2>1
<1>4. {SHUTDOWN, SHUTDOWN_ALL, SHUTDOWN_ECHO, SNAPSHOT, <<"START">>} \subseteq Seq(S)
  BY <1>3 DEF SHUTDOWN, SHUTDOWN_ALL, SHUTDOWN_ECHO, SNAPSHOT
<1> QED BY <1>4, LineIsContent DEF S

LEMMA PromptSends ==
  ASSUME OrderInv, PromptNext
  PROVE  /\ OrderInv'
         /\ UNCHANGED <<writerVars, printerVars, parserVars, text, piece, received>>
         /\ \/ message' = message
            \/ message = NoMessage /\ IsMessage(message')
<1>1. CASE readInput \/ Abandon
  <2>1. UNCHANGED <<ordered, messageVars>> /\ message = NoMessage
    BY <1>1 DEF readInput, Abandon, OrderInv
  <2> QED BY <2>1 DEF OrderInv, messageVars, transferVars
<1>2. ASSUME NEW m, sendTo(m), input # None
      PROVE  /\ message = NoMessage /\ message' = m /\ ordered' = input
             /\ input' = None
             /\ UNCHANGED <<writerVars, printerVars, parserVars, text, piece, received>>
  BY <1>2 DEF sendTo, OrderInv
<1>3. {0, normal, parametrize, RandomNumber} \cup nodes \subseteq Numbers
  BY PromptAssumption
<1>4. CASE tell
  <2>1. input = "start" /\ sendTo(ControlMessage(normal, 0, <<"START">>))
    BY <1>4 DEF tell
  <2>2. IsMessage(ControlMessage(normal, 0, <<"START">>))
    BY <1>3, OrderWords, OrderIsMessage
  <2> QED BY <1>2, <2>1, <2>2 DEF OrderInv, None
<1>5. CASE sendEchoShutdown
  <2>1. input = "echo" /\ sendTo(ControlMessage(normal, 0, SHUTDOWN_ECHO))
    BY <1>5 DEF sendEchoShutdown
  <2>2. IsMessage(ControlMessage(normal, 0, SHUTDOWN_ECHO))
    BY <1>3, OrderWords, OrderIsMessage
  <2> QED BY <1>2, <2>1, <2>2 DEF OrderInv, None
<1>6. CASE halt
  <2>1. PICK nodeID \in nodes, command \in {SHUTDOWN, SHUTDOWN_ALL} :
          input = "halt" /\ sendTo(ControlMessage(normal, nodeID, command))
    BY <1>6 DEF halt
  <2>2. IsMessage(ControlMessage(normal, nodeID, command))
    BY <1>3, OrderWords, OrderIsMessage
  <2> QED BY <1>2, <2>1, <2>2 DEF OrderInv, None
<1>7. CASE snapshoot
  <2>1. input = "snap" /\ sendTo(ControlMessage(normal, RandomNumber, SNAPSHOT))
    BY <1>7 DEF snapshoot
  <2>2. IsMessage(ControlMessage(normal, RandomNumber, SNAPSHOT))
    BY <1>3, OrderWords, OrderIsMessage
  <2> QED BY <1>2, <2>1, <2>2 DEF OrderInv, None
<1>8. CASE sendInit
  <2>1. PICK t \in TypedTimes :
          /\ input = "time" /\ isNumber(t)
          /\ sendTo(ControlMessage(parametrize, RandomNumber, t))
    BY <1>8 DEF sendInit
  <2>2. IsMessage(ControlMessage(parametrize, RandomNumber, t))
    BY <1>3, <2>1, TypedIsContent, OrderIsMessage
  <2> QED BY <1>2, <2>1, <2>2 DEF OrderInv, None
<1> QED BY <1>1, <1>4, <1>5, <1>6, <1>7, <1>8 DEF PromptNext

\* Nothing is on its way when the prompt sends a message.
LEMMA PromptKeeps ==
  ASSUME SurvivalInv, OrderInv, PromptNext PROVE SurvivalInv'
<1>1. UNCHANGED <<writerVars, printerVars, parserVars, text, piece, received>>
  BY PromptSends
<1>2. CASE message' = message
  <2>1. UNCHANGED messageVars
    BY <1>1, <1>2 DEF messageVars, transferVars
  <2> QED BY <2>1, SurvivalStep
<1>3. CASE message = NoMessage /\ IsMessage(message')
  <2>1. /\ writing = "idle" /\ visit = "idle" /\ text = <<>> /\ piece = <<>>
        /\ parsing = "idle" /\ received = NoMessage
    BY <1>3 DEF SurvivalInv, MessageInv, WriterInv, PrinterInv, TransferInv, parsedAll
  <2>2. /\ writing' = "idle" /\ visit' = "idle" /\ text' = <<>> /\ piece' = <<>>
        /\ parsing' = "idle" /\ received' = NoMessage
    BY <1>1, <2>1 DEF writerVars, printerVars, parserVars
  <2>3. WriterInv'
    BY <1>1, <1>3, <2>1, <2>2 DEF SurvivalInv, MessageInv, WriterInv, writerVars
  <2>4. PrinterInv'
    BY <1>1, <2>1, <2>2 DEF SurvivalInv, MessageInv, PrinterInv, Prints, printerVars
  <2>5. ParserInv' /\ TagInv'
    BY <1>1, ParserRests DEF SurvivalInv, MessageInv
  <2>6. TransferInv'
    BY <2>2 DEF TransferInv
  <2>7. TreeInv' /\ PlaceInv' /\ SentInv'
    BY <2>2 DEF TreeInv, PlaceInv, SentInv
  <2>8. ReadInv'
    BY <1>1, <2>1, <2>2 DEF SurvivalInv, ReadInv, parserVars
  <2> QED BY <2>3, <2>4, <2>5, <2>6, <2>7, <2>8 DEF SurvivalInv, MessageInv
<1> QED BY <1>2, <1>3, PromptSends

LEMMA MessageKeepsOrder ==
  ASSUME OrderInv, MessageNext, UNCHANGED promptVars PROVE OrderInv'
<1>1. message' = message
  BY DEF MessageNext, writeHeader, writeTime, writeContent, write, transferVars,
         convertToString, Sends, Arrive, create, read
<1> QED BY <1>1 DEF OrderInv, promptVars

\* Digits are no word.
LEMMA TypedIsTime ==
  ASSUME NEW t \in TypedTimes, isNumber(t)
  PROVE  t \notin {SHUTDOWN, SHUTDOWN_ALL, SHUTDOWN_ECHO, RESET}
<1>1. t \in Seq(Symbol) /\ Len(t) \in Nat /\ 1 <= Len(t)
  BY PromptAssumption, LenProperties, EmptySeq DEF Value, isNumber
<1>2. 1 \in DOMAIN t
  BY <1>1, LenProperties
<1>3. t[1] = TooLong \/ t[1] \in Digits
  BY <1>2 DEF isNumber, isDigits, Digits
<1>4. t[1] \notin {"shutdown", "reset"}
  BY <1>3, PromptAssumption
<1>5. /\ SHUTDOWN[1] = "shutdown" /\ SHUTDOWN_ALL[1] = "shutdown"
      /\ SHUTDOWN_ECHO[1] = "shutdown" /\ RESET[1] = "reset"
  BY DEF SHUTDOWN, SHUTDOWN_ALL, SHUTDOWN_ECHO, RESET
<1> QED BY <1>4, <1>5

\* What a node makes of the message of an order
LEMMA EffectOfOrder ==
  ASSUME NEW m, NEW type \in {normal, parametrize}, NEW number, NEW c,
         m = ControlMessage(type, number, c)
  PROVE  /\ c = SHUTDOWN => EffectOf(m) = [does |-> "stop"]
         /\ c = SHUTDOWN_ALL => EffectOf(m) = [does |-> "stop all", number |-> number]
         /\ c = SHUTDOWN_ECHO =>
              EffectOf(m) = [does |-> "wave", number |-> number, stops |-> TRUE,
                             time |-> Null]
         /\ c \notin {SHUTDOWN, SHUTDOWN_ALL, SHUTDOWN_ECHO, RESET} =>
              /\ type = normal => EffectOf(m) = [does |-> "process"]
              /\ type = parametrize /\ isNumber(c) =>
                   EffectOf(m) = [does |-> "wave", number |-> number,
                                  stops |-> FALSE, time |-> setsTime(m)]
<1>1. /\ m.form = "ControlMessage" /\ m.type = type /\ m.number = number
      /\ m.content = c
  BY DEF ControlMessage
<1>2. EffectOf(m) = handleControlMessage(m)
  BY <1>1 DEF EffectOf, normal, parametrize, explorer, echo
<1>3. /\ SHUTDOWN # SHUTDOWN_ALL /\ SHUTDOWN # SHUTDOWN_ECHO
      /\ SHUTDOWN_ALL # SHUTDOWN_ECHO /\ normal # parametrize
  <2>1. SHUTDOWN_ALL[3] # SHUTDOWN_ECHO[3]
    BY DEF SHUTDOWN_ALL, SHUTDOWN_ECHO
  <2>2. Len(SHUTDOWN) = 1 /\ Len(SHUTDOWN_ALL) = 3 /\ Len(SHUTDOWN_ECHO) = 3
    BY DEF SHUTDOWN, SHUTDOWN_ALL, SHUTDOWN_ECHO
  <2> QED BY <2>1, <2>2 DEF normal, parametrize
<1>4. CASE c = SHUTDOWN
  BY <1>1, <1>2, <1>3, <1>4 DEF handleControlMessage
<1>5. CASE c = SHUTDOWN_ALL
  BY <1>1, <1>2, <1>3, <1>5 DEF handleControlMessage
<1>6. CASE c = SHUTDOWN_ECHO
  <2>1. EffectOf(m) = startsWave(m)
    BY <1>1, <1>2, <1>3, <1>6 DEF handleControlMessage
  <2>2. ~isNumber(c)
    <3>1. ~isDigits("shutdown")
      BY PromptAssumption DEF isDigits, Digits
    <3>2. c[1] = "shutdown" /\ 1 \in DOMAIN c
      <4>1. SHUTDOWN_ECHO[1] = "shutdown" /\ 1 \in DOMAIN SHUTDOWN_ECHO
        BY DEF SHUTDOWN_ECHO
      <4> QED BY <1>6, <4>1
    <3> QED BY <3>1, <3>2 DEF isNumber
  <2>3. setsTime(m) = Null
    BY <1>1, <2>2 DEF setsTime
  <2> QED BY <1>1, <1>3, <1>6, <2>1, <2>3 DEF startsWave
<1>7. CASE c \notin {SHUTDOWN, SHUTDOWN_ALL, SHUTDOWN_ECHO, RESET}
  <2>1. type = normal => handleControlMessage(m) = [does |-> "process"]
    BY <1>1, <1>3, <1>7 DEF handleControlMessage
  <2>2. type = parametrize /\ isNumber(c) => handleControlMessage(m) = startsWave(m)
    BY <1>1, <1>3, <1>7 DEF handleControlMessage
  <2>3. startsWave(m) = [does |-> "wave", number |-> number, stops |-> FALSE,
                         time |-> setsTime(m)]
    BY <1>1, <1>7 DEF startsWave
  <2> QED BY <1>2, <1>7, <2>1, <2>2, <2>3
<1> QED BY <1>4, <1>5, <1>6, <1>7

\* The message of an order is read as it was sent.
LEMMA OrderIsRead ==
  ASSUME OrderInv, ordered # None PROVE asRead(message) = message
<1>1. ASSUME NEW type, NEW number, NEW c, Normalized(c) = c
      PROVE  asRead(ControlMessage(type, number, c)) = ControlMessage(type, number, c)
  <2> DEFINE none == [n \in {} |-> 0]
  <2>1. PICK m : m = ControlMessage(type, number, c)
    OBVIOUS
  <2>2. /\ m = [form |-> m.form, type |-> m.type, number |-> m.number,
                sourceID |-> m.sourceID, destinationID |-> m.destinationID,
                vectorTimes |-> m.vectorTimes, content |-> m.content]
        /\ m.vectorTimes = none /\ m.content = c
    BY <2>1 DEF ControlMessage
  <2>3. none = [n \in {k \in DOMAIN none : k > 0} |-> none[n]]
    OBVIOUS
  <2> HIDE DEF none
  <2>4. asRead(m) = [form |-> m.form, type |-> m.type, number |-> m.number,
                     sourceID |-> m.sourceID, destinationID |-> m.destinationID,
                     vectorTimes |-> none, content |-> c]
    BY <1>1, <2>2, <2>3, AsReadIs
  <2>5. asRead(m) = m
    BY <2>2, <2>4
  <2> QED BY <2>1, <2>5
<1> QED BY <1>1, OrderWords, TypedIsContent DEF OrderInv

LEMMA OrderHasEffect ==
  ASSUME SurvivalInv, OrderInv PROVE OrderTakesEffect
<1> SUFFICES ASSUME ordered # None, received # NoMessage,
                    received.outcome = "message"
             PROVE  OrderTakesEffect
  BY DEF OrderTakesEffect, Arrived, None
<1>1. effect = EffectOf(message)
  <2>1. isWhole
    BY PieceIsRead DEF SurvivalInv
  <2>2. received = Dies \/ received = [outcome |-> "message", message |-> message]
    BY <2>1, WholeIsRead, OrderIsRead
  <2> QED BY <2>2 DEF Dies, effect
<1>2. CASE /\ ordered = "start"
           /\ message = ControlMessage(normal, 0, <<"START">>)
  <2>1. <<"START">> \notin {SHUTDOWN, SHUTDOWN_ALL, SHUTDOWN_ECHO, RESET}
    BY DEF SHUTDOWN, SHUTDOWN_ALL, SHUTDOWN_ECHO, RESET
  <2>2. EffectOf(message) = [does |-> "process"]
    BY <1>2, <2>1, EffectOfOrder
  <2> QED BY <1>1, <1>2, <2>2 DEF OrderTakesEffect, Arrived
<1>3. CASE /\ ordered = "echo"
           /\ message = ControlMessage(normal, 0, SHUTDOWN_ECHO)
  <2>1. EffectOf(message) = [does |-> "wave", number |-> 0, stops |-> TRUE,
                             time |-> Null]
    BY <1>3, EffectOfOrder
  <2> QED BY <1>1, <1>3, <2>1 DEF OrderTakesEffect, Arrived
<1>4. ASSUME ordered = "halt", NEW nodeID \in nodes,
             NEW command \in {SHUTDOWN, SHUTDOWN_ALL},
             message = ControlMessage(normal, nodeID, command)
      PROVE  OrderTakesEffect
  <2>1. \/ EffectOf(message) = [does |-> "stop"]
        \/ EffectOf(message) = [does |-> "stop all", number |-> nodeID]
    BY <1>4, EffectOfOrder
  <2> QED BY <1>1, <1>4, <2>1 DEF OrderTakesEffect, Arrived
<1>5. CASE ordered = "snap"
  BY <1>5 DEF OrderTakesEffect, Arrived
<1>6. ASSUME ordered = "time", NEW t \in TypedTimes, isNumber(t),
             message = ControlMessage(parametrize, RandomNumber, t)
      PROVE  OrderTakesEffect
  <2>1. EffectOf(message) = [does |-> "wave", number |-> RandomNumber,
                             stops |-> FALSE, time |-> setsTime(message)]
    BY <1>6, TypedIsTime, EffectOfOrder
  <2>2. message.content = t
    BY <1>6 DEF ControlMessage
  <2>3. t[1] # TooLong => setsTime(message) = NumberIn(t)
    BY <1>6, <2>2 DEF setsTime
  <2> QED BY <1>1, <1>6, <2>1, <2>2, <2>3 DEF OrderTakesEffect, Arrived
<1> QED BY <1>2, <1>3, <1>4, <1>5, <1>6 DEF OrderInv

(* Whatever is typed, and for any nodes and times: an order to start, to      *)
(* halt, to send an echo or to set a time that is no number beyond an int     *)
(* does at the node at which it arrives what the help of the prompt says,     *)
(* also over the printer, a connection that cuts its text, and the parser.    *)
(* Of an order to snap it says nothing.                                       *)
THEOREM OrdersTakeEffect == InitiatorSpec => []OrderTakesEffect
<1>1. InitiatorInit => SurvivalInv /\ OrderInv
  BY SurvivalStarts DEF InitiatorInit, PromptInit, OrderInv
<1>2. SurvivalInv /\ OrderInv /\ [InitiatorNext]_<<messageVars, promptVars>>
        => SurvivalInv' /\ OrderInv'
  <2> SUFFICES ASSUME SurvivalInv, OrderInv,
                      [InitiatorNext]_<<messageVars, promptVars>>
               PROVE  SurvivalInv' /\ OrderInv'
    OBVIOUS
  <2>1. CASE PromptNext
    BY <2>1, PromptSends, PromptKeeps
  <2>2. CASE MessageNext /\ UNCHANGED promptVars
    BY <2>2, SurvivalStep, MessageKeepsOrder
  <2>3. CASE UNCHANGED <<messageVars, promptVars>>
    <3>1. SurvivalInv'
      BY <2>3, SurvivalStep
    <3>2. OrderInv'
      BY <2>3 DEF OrderInv, promptVars, messageVars, transferVars
    <3> QED BY <3>1, <3>2
  <2> QED BY <2>1, <2>2, <2>3 DEF InitiatorNext
<1>3. SurvivalInv /\ OrderInv => OrderTakesEffect
  BY OrderHasEffect
<1> QED BY <1>1, <1>2, <1>3, PTL DEF InitiatorSpec
=============================================================================
