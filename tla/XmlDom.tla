------------------------------- MODULE XmlDom -------------------------------
(***************************************************************************)
(* The document object model of tinyxml2: nodes in a doubly linked list    *)
(* below their parent, and the pools that count them.  A message is built, *)
(* printed, parsed and read through it.                                    *)
(*                                                                         *)
(* An operation of the library is an operator on a document d, so that the *)
(* parser and MessageFactory use the same ones; the actions apply one each *)
(* to the document of a client that edits it.  Addresses are the cells of  *)
(* Node: which free one a pool hands out is left to CHOOSE, since nothing  *)
(* depends on it.  A deleted node keeps no pointers.                       *)
(***************************************************************************)
EXTENDS Integers, Sequences, FiniteSets, SequencesExt

CONSTANTS
  Node,       \* cells for nodes
  Document,   \* the document itself, a node that is never allocated
  Null,       \* the null pointer
  Symbol,     \* what texts consist of
  Made,       \* the [kind, value] the client makes nodes of
  Attributes, \* the [name, value] of attributes the client sets
  MaxNodes    \* bound: nodes of each pool the client has at a time

Parent == Node \cup {Document}

ASSUME NodeAssumption ==
  /\ IsFiniteSet(Node)
  /\ Document \notin Node
  /\ Null \notin Parent

Kind == {"element", "text", "cdata", "comment", "declaration", "unknown"}
Pool == {"element", "text", "comment", "attribute"}
\* A name of an element, a text, a comment, ... is a sequence of symbols.
Value == Seq(Symbol)
Attribute == [name : Value, value : Value]

\* The null pointer is no empty string.
ASSUME ValueAssumption ==
  /\ Null \notin Value
  /\ Made \subseteq [kind : Kind, value : Value]
  /\ Attributes \subseteq Attribute
  /\ MaxNodes \in [Pool -> Nat]

VARIABLE dom

PoolOf(k) == CASE k = "element" -> "element"
               [] k \in {"text", "cdata"} -> "text"
               [] OTHER -> "comment"
isText(k) == k \in {"text", "cdata"}

NoCell == [n \in Node |-> Null]
Empty ==
  [kind |-> [n \in Node |-> "free"],
   value |-> NoCell,
   attributes |-> [n \in Node |-> <<>>],
   parent |-> NoCell,
   firstChild |-> [p \in Parent |-> Null],
   lastChild |-> [p \in Parent |-> Null],
   prev |-> NoCell,
   next |-> NoCell,
   currentAllocs |-> [k \in Pool |-> 0],
   untracked |-> [k \in Pool |-> 0]]

Allocated(d) == {n \in Node : d.kind[n] # "free"}
Linked(d) == {n \in Node : d.parent[n] # Null}
Elements(d) == {n \in Node : d.kind[n] = "element"}

-----------------------------------------------------------------------------
\* MemPoolT
Fresh(d) == CHOOSE n \in Node : d.kind[n] = "free"
SetTracked(d, n) == [d EXCEPT !.untracked[PoolOf(d.kind[n])] = @ - 1]

\* NewElement, NewText, NewComment, NewDeclaration and NewUnknown, and
\* SetCData for a text
New(d, k, v) ==
  LET n == Fresh(d)
  IN [d EXCEPT !.kind[n] = k, !.value[n] = v,
               !.currentAllocs[PoolOf(k)] = @ + 1,
               !.untracked[PoolOf(k)] = @ + 1]

\* The pointers of c itself stay as they were.
Unlinking(d, c) ==
  [d EXCEPT
     !.firstChild[d.parent[c]] = IF @ = c THEN d.next[c] ELSE @,
     !.next = [n \in Node |-> IF n = d.prev[c] THEN d.next[c] ELSE d.next[n]],
     !.prev = [n \in Node |-> IF n = d.next[c] THEN d.prev[c] ELSE d.prev[n]],
     !.parent[c] = Null]
ForgottenTailSlip(d, c) == Unlinking(d, c)
Unlink(d, c) ==
  [Unlinking(d, c) EXCEPT
     !.lastChild[d.parent[c]] = IF @ = c THEN d.prev[c] ELSE @]

UntrackedSlip(d, x) == IF x \in Linked(d) THEN Unlink(d, x) ELSE d
InsertChildPreamble(d, x) ==
  IF x \in Linked(d) THEN Unlink(d, x) ELSE SetTracked(d, x)

\* x between a and b below p; a or b is Null at an end of the list.
Linking(d, p, a, x, b) ==
  [d EXCEPT
     !.firstChild[p] = IF a = Null THEN x ELSE @,
     !.lastChild[p] = IF b = Null THEN x ELSE @,
     !.next = [n \in Node |-> CASE n = x -> b [] n = a -> x
                                [] OTHER -> d.next[n]],
     !.prev = [n \in Node |-> CASE n = x -> a [] n = b -> x
                                [] OTHER -> d.prev[n]],
     !.parent[x] = p]

InsertEndChild(d, p, x) ==
  LET e == InsertChildPreamble(d, x)
  IN Linking(e, p, e.lastChild[p], x, Null)

AtTheEndSlip(d, p, x) == InsertEndChild(d, p, x)
InsertFirstChild(d, p, x) ==
  LET e == InsertChildPreamble(d, x)
  IN Linking(e, p, Null, x, e.firstChild[p])

InsertAfterChild(d, p, a, x) ==
  LET e == InsertChildPreamble(d, x)
  IN IF d.next[a] = Null THEN InsertEndChild(d, p, x)
                         ELSE Linking(e, p, a, x, e.next[a])

-----------------------------------------------------------------------------
\* The nodes of S and all that is below them
Below(d, S) ==
  LET L == Linked(d)
  IN {x \in S \cup L :
        \A T \in SUBSET (S \cup L) :
          (S \subseteq T /\ \A n \in L : d.parent[n] \in T => n \in T)
            => x \in T}

\* Each attribute of the nodes of S, as the node and its place there
AttributesOf(d, S) == UNION {{n} \X DOMAIN d.attributes[n] : n \in S}

KeptAttributesSlip(d, S) ==
  [k \in Pool |->
     d.currentAllocs[k] - Cardinality({n \in S : PoolOf(d.kind[n]) = k})]
AllocsWithout(d, S) ==
  [k \in Pool |-> d.currentAllocs[k] -
     Cardinality(IF k = "attribute" THEN AttributesOf(d, S)
                 ELSE {n \in S : PoolOf(d.kind[n]) = k})]

\* The destructors of the nodes of S, which are linked to no other node
Freed(d, S) ==
  LET Without(f, none) == [n \in DOMAIN f |-> IF n \in S THEN none ELSE f[n]]
  IN [d EXCEPT
        !.kind = Without(@, "free"), !.value = Without(@, Null),
        !.attributes = Without(@, <<>>), !.parent = Without(@, Null),
        !.firstChild = Without(@, Null), !.lastChild = Without(@, Null),
        !.prev = Without(@, Null), !.next = Without(@, Null),
        !.currentAllocs = AllocsWithout(d, S)]

\* XMLNode::DeleteChild, and XMLDocument::DeleteNode for a node in no list
DeleteNode(d, n) ==
  LET e == InsertChildPreamble(d, n)
  IN Freed(e, Below(e, {n}))

DeleteChildren(d, p) ==
  LET S == Below(d, {n \in Node : d.parent[n] = p})
  IN Freed([d EXCEPT !.firstChild[p] = Null, !.lastChild[p] = Null], S)

-----------------------------------------------------------------------------
\* Text and attributes of an element

SetValue(d, n, v) == [d EXCEPT !.value[n] = v]

SetText(d, e, v) ==
  LET first == d.firstChild[e]
  IN IF first # Null /\ isText(d.kind[first])
     THEN SetValue(d, first, v)
     ELSE InsertFirstChild(New(d, "text", v), e, Fresh(d))

GetText(d, e) ==
  LET first == d.firstChild[e]
  IN IF first # Null /\ isText(d.kind[first]) THEN d.value[first] ELSE Null

\* The place of the first of that name, or 0
FindAttribute(d, e, name) ==
  LET found == {i \in DOMAIN d.attributes[e] : d.attributes[e][i].name = name}
  IN IF found = {} THEN 0 ELSE Min(found)

AttributeOf(d, e, name) ==
  LET i == FindAttribute(d, e, name)
  IN IF i = 0 THEN Null ELSE d.attributes[e][i].value

SetAttribute(d, e, a) ==
  LET i == FindAttribute(d, e, a.name)
  IN IF i = 0
     THEN [d EXCEPT !.attributes[e] = Append(@, a),
                    !.currentAllocs["attribute"] = @ + 1]
     ELSE [d EXCEPT !.attributes[e][i] = a]

DeleteAttribute(d, e, name) ==
  LET i == FindAttribute(d, e, name)
  IN IF i = 0 THEN d
     ELSE [d EXCEPT !.attributes[e] = RemoveAt(@, i),
                    !.currentAllocs["attribute"] = @ - 1]

ShallowClone(d, n) ==
  LET e == New(d, d.kind[n], d.value[n])
  IN [e EXCEPT !.attributes[Fresh(d)] = d.attributes[n],
               !.currentAllocs["attribute"] = @ + Len(d.attributes[n])]

-----------------------------------------------------------------------------
\* The children of p, from the first on
ListOf(d, p) ==
  IF d.firstChild[p] = Null THEN <<>>
  ELSE LET C == {n \in Node : d.parent[n] = p}
           at[i \in 1..Cardinality(C)] ==
             IF i = 1 THEN d.firstChild[p] ELSE d.next[at[i - 1]]
       IN at

ToElementWithName(d, n, name) ==
  d.kind[n] = "element" /\ name \in {Null, d.value[n]}

\* The places of the elements of that name in the list of p; name is Null for
\* any
ElementsBelow(d, p, name) ==
  {i \in DOMAIN ListOf(d, p) : ToElementWithName(d, ListOf(d, p)[i], name)}

FirstChildElement(d, p, name) ==
  LET found == ElementsBelow(d, p, name)
  IN IF found = {} THEN Null ELSE ListOf(d, p)[Min(found)]

-----------------------------------------------------------------------------
\* A client that edits the document

\* What may hold x: not x itself, nor what is below it, which would make a
\* ring.  The library does not look, and no client does it.
Holders(x) == ({Document} \cup Elements(dom)) \ Below(dom, {x})

Room(k) ==
  /\ Allocated(dom) # Node
  /\ Cardinality({n \in Allocated(dom) : PoolOf(dom.kind[n]) = PoolOf(k)})
       < MaxNodes[PoolOf(k)]

MakeNode ==
  \E c \in Made : Room(c.kind) /\ dom' = New(dom, c.kind, c.value)

InsertEnd ==
  \E x \in Allocated(dom) : \E p \in Holders(x) :
    dom' = InsertEndChild(dom, p, x)

InsertFirst ==
  \E x \in Allocated(dom) : \E p \in Holders(x) :
    dom' = InsertFirstChild(dom, p, x)

\* InsertAfterChild unlinks x before it follows the next of a: it would go
\* through a null pointer if x were the last node and a the one before, and
\* make a ring of x if x were a.  No client calls it so.
InsertAfter ==
  \E x \in Allocated(dom) : \E a \in Linked(dom) \ {x} :
    /\ dom.parent[a] \in Holders(x)
    /\ dom.next[a] = x => dom.next[x] # Null
    /\ dom' = InsertAfterChild(dom, dom.parent[a], a, x)

Delete ==
  \/ \E n \in Allocated(dom) : dom' = DeleteNode(dom, n)
  \/ \E p \in {Document} \cup Elements(dom) : dom' = DeleteChildren(dom, p)

Write ==
  \E e \in Elements(dom) :
    \/ \E c \in Made : /\ c.kind = "text"
                       /\ Room("text")
                       /\ dom' = SetText(dom, e, c.value)
    \/ /\ dom.currentAllocs["attribute"] < MaxNodes["attribute"]
       /\ \E a \in Attributes : dom' = SetAttribute(dom, e, a)
    \/ \E a \in Attributes : dom' = DeleteAttribute(dom, e, a.name)

Clone ==
  \E n \in Allocated(dom) :
    Room(dom.kind[n]) /\ dom' = ShallowClone(dom, n)

Init == dom = Empty
Edit == \/ MakeNode
        \/ InsertEnd
        \/ InsertFirst
        \/ InsertAfter
        \/ Delete
        \/ Write
        \/ Clone

Spec == Init /\ [][Edit]_dom

-----------------------------------------------------------------------------
\* The pointers, and which cells are in use
PointersOK(d) ==
  /\ d.kind \in [Node -> Kind \cup {"free"}]
  /\ d.parent \in [Node -> Parent \cup {Null}]
  /\ d.firstChild \in [Parent -> Node \cup {Null}]
  /\ d.lastChild \in [Parent -> Node \cup {Null}]
  /\ d.prev \in [Node -> Node \cup {Null}]
  /\ d.next \in [Node -> Node \cup {Null}]

TypeOK ==
  /\ PointersOK(dom)
  /\ dom.value \in [Node -> Value \cup {Null}]
  /\ dom.attributes \in [Node -> Seq(Attribute)]
  /\ dom.currentAllocs \in [Pool -> Int]
  /\ dom.untracked \in [Pool -> Int]

(* The assertions of the Insert functions: the list of a parent can be       *)
(* walked from both ends, every node of it names that parent, and no list    *)
(* holds or is below a node that was deleted.                                *)
IsWellLinked(d) ==
  /\ \A p \in Parent :
       /\ d.firstChild[p] = Null <=> d.lastChild[p] = Null
       /\ d.firstChild[p] # Null =>
            /\ d.parent[d.firstChild[p]] = p
            /\ d.prev[d.firstChild[p]] = Null
            /\ d.parent[d.lastChild[p]] = p
            /\ d.next[d.lastChild[p]] = Null
  /\ \A n \in Linked(d) :
       /\ d.kind[n] # "free"
       /\ d.parent[n] \in {Document} \cup Elements(d)
       /\ IF d.next[n] = Null THEN d.lastChild[d.parent[n]] = n
          ELSE /\ d.prev[d.next[n]] = n
               /\ d.parent[d.next[n]] = d.parent[n]
       /\ IF d.prev[n] = Null THEN d.firstChild[d.parent[n]] = n
          ELSE /\ d.next[d.prev[n]] = n
               /\ d.parent[d.prev[n]] = d.parent[n]
WellLinked == PointersOK(dom) /\ IsWellLinked(dom)

(* A pool has given out as many cells as there are nodes, and has as many    *)
(* untracked as there are nodes that were never put into a tree: what the    *)
(* assertions of XMLDocument::Clear rely on.                                 *)
IsCounted(d) ==
  \A k \in Pool :
    LET Mine == {n \in Allocated(d) : PoolOf(d.kind[n]) = k}
    IN IF k = "attribute"
       THEN /\ d.currentAllocs[k] = Cardinality(AttributesOf(d, Allocated(d)))
            /\ d.untracked[k] = 0
       ELSE /\ d.currentAllocs[k] = Cardinality(Mine)
            /\ d.untracked[k] = Cardinality(Mine \ Linked(d))
PoolsCount == TypeOK /\ IsCounted(dom)

-----------------------------------------------------------------------------
NodeContent == [kind : Kind, value : Value, attributes : Seq(Attribute)]
NodeOf(d, n) ==
  IF d.kind[n] = "free" THEN Null
  ELSE [kind |-> d.kind[n], value |-> d.value[n],
        attributes |-> d.attributes[n]]

ASSUME ContentAssumption == Null \notin NodeContent

Forest == INSTANCE OrderedForest
  WITH Content <- NodeContent, Nothing <- Null,
       content <- [n \in Node |-> NodeOf(dom, n)],
       children <- [p \in Parent |-> ListOf(dom, p)]

\* What an operation of the library does to the document, the operation of that
\* name does to the forest.
DoesAsNamed == dom' # dom =>
  /\ \A x \in Allocated(dom) : \A p \in Holders(x) :
       /\ dom' = InsertEndChild(dom, p, x) => Forest!InsertEndChild(p, x)
       /\ dom' = InsertFirstChild(dom, p, x) => Forest!InsertFirstChild(p, x)
       /\ \A a \in Linked(dom) \ {x} :
            dom.parent[a] = p /\ dom' = InsertAfterChild(dom, p, a, x) =>
              Forest!InsertAfterChild(p, a, x)
  /\ \A n \in Allocated(dom) :
       /\ dom' = DeleteNode(dom, n) => Forest!DeleteNode(n)
       /\ Room(dom.kind[n]) /\ dom' = ShallowClone(dom, n) =>
            Forest!ShallowClone(n, Fresh(dom))
  /\ \A p \in {Document} \cup Elements(dom) :
       dom' = DeleteChildren(dom, p) => Forest!DeleteChildren(p)
  /\ \A e \in Elements(dom), c \in Made :
       Room("text") /\ dom' = SetText(dom, e, c.value) => Forest!SetText(e)

(* The pointers are a forest of ordered nodes, and each operation of the     *)
(* library does to it the one thing it is named for: an insertion puts the   *)
(* node first, last or behind the given one below the given parent, a text   *)
(* is set at the front, a deletion takes all that is below, and every other  *)
(* node keeps its content, its parent and its order among its siblings.      *)
ImplementsForest == Forest!Spec /\ [][DoesAsNamed]_dom
=============================================================================
