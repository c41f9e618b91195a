------------------------------ MODULE XmlProofs ------------------------------
(***************************************************************************)
(* The lists of the document object model are well linked, whatever its    *)
(* client does to it.  Every operation comes down to four: a node leaves   *)
(* its list, joins one between two neighbours, is made, or is deleted with *)
(* all that is below it.  The pools count what these four do, and seen     *)
(* from outside they are the operations of an ordered forest.              *)
(*                                                                         *)
(* The parser is such a client, for any text.  The nodes that are          *)
(* allocated but in no list are the elements whose calls have not          *)
(* returned, and the one whose tag is being read; all other nodes are      *)
(* below one of these or below the document.                               *)
(***************************************************************************)
EXTENDS XmlParser, SequenceTheorems, FiniteSetTheorems,
        WellFoundedInduction, TLAPS

Fields == {"kind", "value", "attributes", "parent", "firstChild", "lastChild",
           "prev", "next", "currentAllocs", "untracked"}

Sound(d) == /\ DOMAIN d = Fields
            /\ PointersOK(d)
            /\ IsWellLinked(d)

Inv == Sound(dom)

LEMMA NullIsNoNode == Null \notin Node /\ Null # Document /\ Document \notin Node
BY NodeAssumption DEF Parent

-----------------------------------------------------------------------------
(* Steps that follow no pointer                                             *)

SamePointers(d, e) ==
  /\ DOMAIN e = Fields
  /\ e.kind = d.kind /\ e.parent = d.parent
  /\ e.firstChild = d.firstChild /\ e.lastChild = d.lastChild
  /\ e.prev = d.prev /\ e.next = d.next

LEMMA SamePointersSound ==
  ASSUME NEW d, NEW e, Sound(d), SamePointers(d, e)
  PROVE  Sound(e)
BY DEF Sound, SamePointers, PointersOK, IsWellLinked, Linked, Elements

LEMMA DataKeepsPointers ==
  ASSUME NEW d, Sound(d), NEW n, NEW v
  PROVE  /\ SamePointers(d, SetValue(d, n, v))
         /\ SamePointers(d, SetTracked(d, n))
         /\ SamePointers(d, SetAttribute(d, n, v))
         /\ SamePointers(d, DeleteAttribute(d, n, v))
<1>1. DOMAIN d = Fields
  BY DEF Sound
<1>2. SamePointers(d, SetValue(d, n, v))
  BY <1>1 DEF SamePointers, SetValue, Fields
<1>3. SamePointers(d, SetTracked(d, n))
  BY <1>1 DEF SamePointers, SetTracked, Fields
<1>4. SamePointers(d, SetAttribute(d, n, v))
  BY <1>1 DEF SamePointers, SetAttribute, Fields
<1>5. SamePointers(d, DeleteAttribute(d, n, v))
  BY <1>1 DEF SamePointers, DeleteAttribute, Fields
<1> QED BY <1>2, <1>3, <1>4, <1>5

-----------------------------------------------------------------------------
(* A node is made                                                           *)

LEMMA NewSound ==
  ASSUME NEW d, Sound(d), Allocated(d) # Node, NEW k \in Kind, NEW v
  PROVE  /\ Sound(New(d, k, v))
         /\ Fresh(d) \in Node \ Linked(New(d, k, v))
         /\ New(d, k, v).kind[Fresh(d)] = k
         /\ Elements(d) \subseteq Elements(New(d, k, v))
<1> DEFINE n == Fresh(d)
           e == New(d, k, v)
<1>1. n \in Node /\ d.kind[n] = "free"
  <2>1. \E m \in Node : d.kind[m] = "free"
    BY DEF Allocated
  <2> QED BY <2>1 DEF Fresh
<1>2. /\ DOMAIN e = Fields
      /\ e.kind = [d.kind EXCEPT ![n] = k]
      /\ e.parent = d.parent
      /\ e.firstChild = d.firstChild /\ e.lastChild = d.lastChild
      /\ e.prev = d.prev /\ e.next = d.next
  BY DEF Sound, New, Fields
<1> HIDE DEF n, e
<1>3. PointersOK(e)
  BY <1>1, <1>2 DEF Sound, PointersOK
<1>4. Linked(e) = Linked(d) /\ n \notin Linked(d)
  BY <1>1, <1>2 DEF Linked, Sound, IsWellLinked
<1>5. Elements(d) \subseteq Elements(e) /\ e.kind[n] = k
  BY <1>1, <1>2 DEF Elements, Sound, PointersOK
<1>6. IsWellLinked(e)
  <2>1. \A m \in Linked(e) : e.kind[m] # "free"
    BY <1>1, <1>2, <1>4 DEF Linked, Sound, PointersOK, IsWellLinked
  <2>2. \A m \in Linked(e) : e.parent[m] \in {Document} \cup Elements(e)
    BY <1>2, <1>4, <1>5 DEF Sound, IsWellLinked
  <2> QED BY <1>2, <1>4, <2>1, <2>2 DEF Sound, IsWellLinked
<1> QED BY <1>1, <1>2, <1>3, <1>4, <1>5, <1>6 DEF Sound, n, e

-----------------------------------------------------------------------------
(* A node leaves its list                                                   *)

LEMMA UnlinkFields ==
  ASSUME NEW d, Sound(d), NEW c \in Linked(d)
  PROVE  LET e == Unlink(d, c)
             p == d.parent[c]
         IN /\ p \in Parent /\ c \in Node
            /\ DOMAIN e = Fields /\ PointersOK(e) /\ e.kind = d.kind
            /\ e.parent = [d.parent EXCEPT ![c] = Null]
            /\ e.firstChild = [d.firstChild EXCEPT
                 ![p] = IF d.firstChild[p] = c THEN d.next[c]
                        ELSE d.firstChild[p]]
            /\ e.lastChild = [d.lastChild EXCEPT
                 ![p] = IF d.lastChild[p] = c THEN d.prev[c]
                        ELSE d.lastChild[p]]
            /\ e.next = [n \in Node |->
                 IF n = d.prev[c] THEN d.next[c] ELSE d.next[n]]
            /\ e.prev = [n \in Node |->
                 IF n = d.next[c] THEN d.prev[c] ELSE d.prev[n]]
<1> DEFINE e == Unlink(d, c)
           p == d.parent[c]
<1>1. c \in Node /\ p \in Parent
  BY DEF Linked, Sound, PointersOK
<1>2. /\ DOMAIN e = Fields /\ e.kind = d.kind
      /\ e.parent = [d.parent EXCEPT ![c] = Null]
      /\ e.firstChild = [d.firstChild EXCEPT
           ![p] = IF d.firstChild[p] = c THEN d.next[c] ELSE d.firstChild[p]]
      /\ e.next = [n \in Node |->
           IF n = d.prev[c] THEN d.next[c] ELSE d.next[n]]
      /\ e.prev = [n \in Node |->
           IF n = d.next[c] THEN d.prev[c] ELSE d.prev[n]]
  BY DEF Sound, Unlink, Unlinking, Fields
<1>3. e.lastChild = [d.lastChild EXCEPT
        ![p] = IF d.lastChild[p] = c THEN d.prev[c] ELSE d.lastChild[p]]
  BY DEF Sound, Unlink, Unlinking, Fields
<1> HIDE DEF e
<1>4. PointersOK(e)
  BY <1>1, <1>2, <1>3 DEF Sound, PointersOK
<1> QED BY <1>1, <1>2, <1>3, <1>4 DEF e

LEMMA UnlinkSound ==
  ASSUME NEW d, Sound(d), NEW c \in Linked(d)
  PROVE  /\ Sound(Unlink(d, c))
         /\ Unlink(d, c).kind = d.kind
         /\ Linked(Unlink(d, c)) = Linked(d) \ {c}
         /\ \A n \in Node \ {c} : Unlink(d, c).parent[n] = d.parent[n]
<1> DEFINE e == Unlink(d, c)
           p == d.parent[c]
           a == d.prev[c]
           b == d.next[c]
<1>1. /\ p \in Parent /\ c \in Node /\ p # Null
      /\ DOMAIN e = Fields /\ PointersOK(e) /\ e.kind = d.kind
      /\ e.parent = [d.parent EXCEPT ![c] = Null]
      /\ e.firstChild = [d.firstChild EXCEPT
           ![p] = IF d.firstChild[p] = c THEN b ELSE d.firstChild[p]]
      /\ e.lastChild = [d.lastChild EXCEPT
           ![p] = IF d.lastChild[p] = c THEN a ELSE d.lastChild[p]]
      /\ e.next = [n \in Node |-> IF n = a THEN b ELSE d.next[n]]
      /\ e.prev = [n \in Node |-> IF n = b THEN a ELSE d.prev[n]]
  BY UnlinkFields DEF Linked
<1>2. /\ PointersOK(d) /\ IsWellLinked(d)
  BY DEF Sound
<1>3. /\ a \in Node \cup {Null} /\ b \in Node \cup {Null}
      /\ IF b = Null THEN d.lastChild[p] = c ELSE d.prev[b] = c /\ d.parent[b] = p
      /\ IF a = Null THEN d.firstChild[p] = c ELSE d.next[a] = c /\ d.parent[a] = p
  BY <1>1, <1>2 DEF PointersOK, IsWellLinked
<1> HIDE DEF e, p, a, b
<1>4. Linked(e) = Linked(d) \ {c}
  BY <1>1, <1>2 DEF Linked, PointersOK
<1>5. \A n \in Node \ {c} : e.parent[n] = d.parent[n]
  BY <1>1, <1>2 DEF PointersOK
<1>6. ASSUME NEW q \in Parent
      PROVE  /\ e.firstChild[q] = Null <=> e.lastChild[q] = Null
             /\ e.firstChild[q] # Null =>
                  /\ e.parent[e.firstChild[q]] = q
                  /\ e.prev[e.firstChild[q]] = Null
                  /\ e.parent[e.lastChild[q]] = q
                  /\ e.next[e.lastChild[q]] = Null
  <2>1. /\ d.firstChild[q] \in Node \cup {Null}
        /\ d.lastChild[q] \in Node \cup {Null}
        /\ d.firstChild[q] = Null <=> d.lastChild[q] = Null
        /\ d.firstChild[q] # Null =>
             /\ d.parent[d.firstChild[q]] = q
             /\ d.prev[d.firstChild[q]] = Null
             /\ d.parent[d.lastChild[q]] = q
             /\ d.next[d.lastChild[q]] = Null
    BY <1>2 DEF PointersOK, IsWellLinked
  <2>2. CASE q # p
    <3>1. e.firstChild[q] = d.firstChild[q] /\ e.lastChild[q] = d.lastChild[q]
      BY <1>1, <1>2, <2>2 DEF PointersOK
    <3>2. ASSUME d.firstChild[q] # Null
          PROVE  /\ d.firstChild[q] \notin {c, b} /\ d.lastChild[q] \notin {c, a}
      BY <2>1, <2>2, <1>3, <3>2, NullIsNoNode DEF p
    <3> QED BY <1>1, <1>2, <1>5, <2>1, <3>1, <3>2, NullIsNoNode DEF PointersOK
  <2>3. CASE q = p
    <3>1. /\ e.firstChild[q] = IF d.firstChild[p] = c THEN b ELSE d.firstChild[p]
          /\ e.lastChild[q] = IF d.lastChild[p] = c THEN a ELSE d.lastChild[p]
      BY <1>1, <1>2, <2>3 DEF PointersOK
    <3>2. d.firstChild[p] = c <=> a = Null
      BY <1>3, <2>1, <2>3, NullIsNoNode, <1>1 DEF a
    <3>3. d.lastChild[p] = c <=> b = Null
      BY <1>3, <2>1, <2>3, NullIsNoNode, <1>1 DEF b
    <3>4. CASE d.firstChild[p] = Null
      BY <1>1, <2>1, <2>3, <3>1, <3>4, NullIsNoNode
    <3>5. CASE d.firstChild[p] # Null
      BY <1>1, <1>2, <1>3, <1>5, <2>1, <2>3, <3>1, <3>2, <3>3, <3>5,
         NullIsNoNode DEF PointersOK, a, b
    <3> QED BY <3>4, <3>5
  <2> QED BY <2>2, <2>3
<1>7. ASSUME NEW n \in Linked(e)
      PROVE  /\ e.kind[n] # "free"
             /\ e.parent[n] \in {Document} \cup Elements(e)
             /\ IF e.next[n] = Null THEN e.lastChild[e.parent[n]] = n
                ELSE /\ e.prev[e.next[n]] = n
                     /\ e.parent[e.next[n]] = e.parent[n]
             /\ IF e.prev[n] = Null THEN e.firstChild[e.parent[n]] = n
                ELSE /\ e.next[e.prev[n]] = n
                     /\ e.parent[e.prev[n]] = e.parent[n]
  <2>1. n \in Linked(d) /\ n # c /\ n \in Node /\ e.parent[n] = d.parent[n]
    BY <1>4, <1>5 DEF Linked
  <2>2. /\ d.kind[n] # "free"
        /\ d.parent[n] \in {Document} \cup Elements(d)
        /\ d.parent[n] \in Parent
        /\ d.next[n] \in Node \cup {Null} /\ d.prev[n] \in Node \cup {Null}
        /\ IF d.next[n] = Null THEN d.lastChild[d.parent[n]] = n
           ELSE /\ d.prev[d.next[n]] = n
                /\ d.parent[d.next[n]] = d.parent[n]
        /\ IF d.prev[n] = Null THEN d.firstChild[d.parent[n]] = n
           ELSE /\ d.next[d.prev[n]] = n
                /\ d.parent[d.prev[n]] = d.parent[n]
    BY <1>2, <2>1 DEF IsWellLinked, PointersOK, Parent, Elements
  <2>3. e.kind[n] # "free" /\ e.parent[n] \in {Document} \cup Elements(e)
    BY <1>1, <2>1, <2>2 DEF Elements
  <2>4. IF e.next[n] = Null THEN e.lastChild[e.parent[n]] = n
        ELSE /\ e.prev[e.next[n]] = n
             /\ e.parent[e.next[n]] = e.parent[n]
    <3>1. CASE n = a
      BY <1>1, <1>2, <1>3, <1>5, <2>1, <2>2, <3>1, NullIsNoNode DEF PointersOK, a, b
    <3>2. CASE n # a
      <4>1. e.next[n] = d.next[n]
        BY <1>1, <2>1, <3>2
      <4>2. d.next[n] # c
        BY <2>1, <2>2, <3>2, <1>1, NullIsNoNode DEF a
      <4>3. d.next[n] # Null => d.next[n] # b
        BY <1>3, <2>1, <2>2, NullIsNoNode
      <4>4. d.next[n] = Null => e.lastChild[e.parent[n]] = n
        BY <1>1, <1>2, <2>1, <2>2 DEF PointersOK
      <4>5. d.next[n] # Null => /\ e.prev[d.next[n]] = n
                                /\ e.parent[d.next[n]] = e.parent[n]
        BY <1>1, <1>5, <2>1, <2>2, <4>2, <4>3
      <4> QED BY <4>1, <4>4, <4>5
    <3> QED BY <3>1, <3>2
  <2>5. IF e.prev[n] = Null THEN e.firstChild[e.parent[n]] = n
        ELSE /\ e.next[e.prev[n]] = n
             /\ e.parent[e.prev[n]] = e.parent[n]
    <3>1. CASE n = b
      BY <1>1, <1>2, <1>3, <1>5, <2>1, <2>2, <3>1, NullIsNoNode DEF PointersOK, a, b
    <3>2. CASE n # b
      <4>1. e.prev[n] = d.prev[n]
        BY <1>1, <2>1, <3>2
      <4>2. d.prev[n] # c
        BY <2>1, <2>2, <3>2, <1>1, NullIsNoNode DEF b
      <4>3. d.prev[n] # Null => d.prev[n] # a
        BY <1>3, <2>1, <2>2, NullIsNoNode
      <4>4. d.prev[n] = Null => e.firstChild[e.parent[n]] = n
        BY <1>1, <1>2, <2>1, <2>2 DEF PointersOK
      <4>5. d.prev[n] # Null => /\ e.next[d.prev[n]] = n
                                /\ e.parent[d.prev[n]] = e.parent[n]
        BY <1>1, <1>5, <2>1, <2>2, <4>2, <4>3
      <4> QED BY <4>1, <4>4, <4>5
    <3> QED BY <3>1, <3>2
  <2> QED BY <2>3, <2>4, <2>5
<1>8. IsWellLinked(e)
  BY <1>6, <1>7 DEF IsWellLinked
<1> QED BY <1>1, <1>4, <1>5, <1>8 DEF Sound, e

-----------------------------------------------------------------------------
(* A node joins a list                                                      *)

\* a and b are neighbours below p, or one of them is the end of its list.
Adjacent(d, p, a, b) ==
  /\ a \in Node \cup {Null} /\ b \in Node \cup {Null}
  /\ IF a = Null THEN d.firstChild[p] = b ELSE d.next[a] = b /\ d.parent[a] = p
  /\ IF b = Null THEN d.lastChild[p] = a ELSE d.prev[b] = a /\ d.parent[b] = p

LEMMA LinkingSound ==
  ASSUME NEW d, Sound(d), NEW p \in {Document} \cup Elements(d),
         NEW x \in Node \ Linked(d), d.kind[x] # "free",
         NEW a, NEW b, Adjacent(d, p, a, b)
  PROVE  Sound(Linking(d, p, a, x, b))
<1> DEFINE e == Linking(d, p, a, x, b)
<1>1. /\ p \in Parent /\ p # Null /\ x \in Node /\ d.parent[x] = Null
      /\ PointersOK(d) /\ IsWellLinked(d)
      /\ a \in Node \cup {Null} /\ b \in Node \cup {Null}
      /\ a # x /\ b # x
  BY NullIsNoNode DEF Adjacent, Linked, Elements, Parent, Sound
<1>2. /\ DOMAIN e = Fields /\ e.kind = d.kind
      /\ e.parent = [d.parent EXCEPT ![x] = p]
      /\ e.firstChild = [d.firstChild EXCEPT
           ![p] = IF a = Null THEN x ELSE d.firstChild[p]]
      /\ e.lastChild = [d.lastChild EXCEPT
           ![p] = IF b = Null THEN x ELSE d.lastChild[p]]
      /\ e.next = [n \in Node |-> CASE n = x -> b [] n = a -> x
                                    [] OTHER -> d.next[n]]
      /\ e.prev = [n \in Node |-> CASE n = x -> a [] n = b -> x
                                    [] OTHER -> d.prev[n]]
  BY DEF Sound, Linking, Fields
<1> HIDE DEF e
<1>3. PointersOK(e)
  BY <1>1, <1>2 DEF PointersOK
<1>4. /\ e.parent[x] = p
      /\ \A n \in Node \ {x} : e.parent[n] = d.parent[n]
      /\ Linked(e) = Linked(d) \cup {x}
      /\ e.next[x] = b /\ e.prev[x] = a
      /\ a # Null => e.next[a] = x
      /\ b # Null => e.prev[b] = x
      /\ \A n \in Node \ {x, a} : e.next[n] = d.next[n]
      /\ \A n \in Node \ {x, b} : e.prev[n] = d.prev[n]
  BY <1>1, <1>2 DEF PointersOK, Linked
<1>5. /\ a # Null => d.next[a] = b /\ d.parent[a] = p
      /\ b # Null => d.prev[b] = a /\ d.parent[b] = p
      /\ a = Null => d.firstChild[p] = b
      /\ b = Null => d.lastChild[p] = a
  BY DEF Adjacent
<1>6. ASSUME NEW q \in Parent
      PROVE  /\ e.firstChild[q] = Null <=> e.lastChild[q] = Null
             /\ e.firstChild[q] # Null =>
                  /\ e.parent[e.firstChild[q]] = q
                  /\ e.prev[e.firstChild[q]] = Null
                  /\ e.parent[e.lastChild[q]] = q
                  /\ e.next[e.lastChild[q]] = Null
  <2>1. /\ d.firstChild[q] \in Node \cup {Null}
        /\ d.lastChild[q] \in Node \cup {Null}
        /\ d.firstChild[q] = Null <=> d.lastChild[q] = Null
        /\ d.firstChild[q] # Null =>
             /\ d.parent[d.firstChild[q]] = q
             /\ d.prev[d.firstChild[q]] = Null
             /\ d.parent[d.lastChild[q]] = q
             /\ d.next[d.lastChild[q]] = Null
    BY <1>1 DEF PointersOK, IsWellLinked
  <2>2. q # Null
    BY NodeAssumption
  <2>3. d.firstChild[q] # x /\ d.lastChild[q] # x
    BY <1>1, <2>1, <2>2, NullIsNoNode
  <2>4. CASE q # p
    <3>1. e.firstChild[q] = d.firstChild[q] /\ e.lastChild[q] = d.lastChild[q]
      BY <1>1, <1>2, <2>4 DEF PointersOK
    <3>2. d.firstChild[q] # Null => d.firstChild[q] # b /\ d.lastChild[q] # a
      BY <1>5, <2>1, <2>4
    <3> QED BY <1>4, <2>1, <2>3, <3>1, <3>2, NullIsNoNode
  <2>5. CASE q = p
    <3>1. /\ e.firstChild[q] = IF a = Null THEN x ELSE d.firstChild[q]
          /\ e.lastChild[q] = IF b = Null THEN x ELSE d.lastChild[q]
      BY <1>1, <1>2, <2>5 DEF PointersOK
    <3>2. CASE a = Null /\ b = Null
      BY <1>1, <1>4, <2>5, <3>1, <3>2, NullIsNoNode
    <3>3. CASE a = Null /\ b # Null
      BY <1>1, <1>4, <1>5, <2>1, <2>3, <2>5, <3>1, <3>3, NullIsNoNode
    <3>4. CASE a # Null /\ b = Null
      BY <1>1, <1>4, <1>5, <2>1, <2>3, <2>5, <3>1, <3>4, NullIsNoNode
    <3>5. CASE a # Null /\ b # Null
      <4>1. d.firstChild[q] # Null => d.firstChild[q] # b /\ d.lastChild[q] # a
        BY <1>5, <2>1, <3>5
      <4> QED BY <1>1, <1>4, <2>1, <2>3, <3>1, <3>5, <4>1, NullIsNoNode
    <3> QED BY <3>2, <3>3, <3>4, <3>5
  <2> QED BY <2>4, <2>5
<1>7. ASSUME NEW n \in Linked(e)
      PROVE  /\ e.kind[n] # "free"
             /\ e.parent[n] \in {Document} \cup Elements(e)
             /\ IF e.next[n] = Null THEN e.lastChild[e.parent[n]] = n
                ELSE /\ e.prev[e.next[n]] = n
                     /\ e.parent[e.next[n]] = e.parent[n]
             /\ IF e.prev[n] = Null THEN e.firstChild[e.parent[n]] = n
                ELSE /\ e.next[e.prev[n]] = n
                     /\ e.parent[e.prev[n]] = e.parent[n]
  <2>1. /\ e.firstChild[p] = IF a = Null THEN x ELSE d.firstChild[p]
        /\ e.lastChild[p] = IF b = Null THEN x ELSE d.lastChild[p]
        /\ \A q \in Parent \ {p} : /\ e.firstChild[q] = d.firstChild[q]
                                   /\ e.lastChild[q] = d.lastChild[q]
        /\ Elements(e) = Elements(d)
    BY <1>1, <1>2 DEF PointersOK, Elements
  <2>2. CASE n = x
    BY <1>1, <1>2, <1>4, <1>5, <2>1, <2>2
  <2>3. CASE n # x
    <3>1. n \in Linked(d) /\ n \in Node /\ e.parent[n] = d.parent[n]
      BY <1>4, <2>3 DEF Linked
    <3>2. /\ d.kind[n] # "free"
          /\ d.parent[n] \in {Document} \cup Elements(d)
          /\ d.parent[n] \in Parent
          /\ d.next[n] \in Node \cup {Null} /\ d.prev[n] \in Node \cup {Null}
          /\ IF d.next[n] = Null THEN d.lastChild[d.parent[n]] = n
             ELSE /\ d.prev[d.next[n]] = n
                  /\ d.parent[d.next[n]] = d.parent[n]
          /\ IF d.prev[n] = Null THEN d.firstChild[d.parent[n]] = n
             ELSE /\ d.next[d.prev[n]] = n
                  /\ d.parent[d.prev[n]] = d.parent[n]
      BY <1>1, <3>1 DEF IsWellLinked, PointersOK, Parent, Elements
    <3>3. d.parent[n] # Null /\ d.next[n] # x /\ d.prev[n] # x
      BY <1>1, <3>1, <3>2, NullIsNoNode DEF Linked
    <3>4. e.kind[n] # "free" /\ e.parent[n] \in {Document} \cup Elements(e)
      BY <1>2, <2>1, <3>1, <3>2
    <3>5. IF e.next[n] = Null THEN e.lastChild[e.parent[n]] = n
          ELSE /\ e.prev[e.next[n]] = n
               /\ e.parent[e.next[n]] = e.parent[n]
      <4>1. CASE n = a
        BY <1>1, <1>4, <1>5, <3>1, <4>1, NullIsNoNode
      <4>2. CASE n # a
        <5>1. e.next[n] = d.next[n]
          BY <1>4, <2>3, <3>1, <4>2
        <5>2. ASSUME d.next[n] = Null PROVE e.lastChild[e.parent[n]] = n
          <6>1. d.lastChild[d.parent[n]] = n
            BY <3>2, <5>2
          <6>2. d.parent[n] = p => b # Null
            BY <1>5, <4>2, <6>1
          <6> QED BY <2>1, <3>1, <3>2, <6>1, <6>2
        <5>3. ASSUME d.next[n] # Null
              PROVE  /\ e.prev[d.next[n]] = n
                     /\ e.parent[d.next[n]] = e.parent[n]
          <6>1. d.next[n] # b
            BY <1>5, <3>2, <4>2, <5>3
          <6> QED BY <1>4, <3>1, <3>2, <3>3, <5>3, <6>1
        <5> QED BY <5>1, <5>2, <5>3
      <4> QED BY <4>1, <4>2
    <3>6. IF e.prev[n] = Null THEN e.firstChild[e.parent[n]] = n
          ELSE /\ e.next[e.prev[n]] = n
               /\ e.parent[e.prev[n]] = e.parent[n]
      <4>1. CASE n = b
        BY <1>1, <1>4, <1>5, <3>1, <4>1, NullIsNoNode
      <4>2. CASE n # b
        <5>1. e.prev[n] = d.prev[n]
          BY <1>4, <2>3, <3>1, <4>2
        <5>2. ASSUME d.prev[n] = Null PROVE e.firstChild[e.parent[n]] = n
          <6>1. d.firstChild[d.parent[n]] = n
            BY <3>2, <5>2
          <6>2. d.parent[n] = p => a # Null
            BY <1>5, <4>2, <6>1
          <6> QED BY <2>1, <3>1, <3>2, <6>1, <6>2
        <5>3. ASSUME d.prev[n] # Null
              PROVE  /\ e.next[d.prev[n]] = n
                     /\ e.parent[d.prev[n]] = e.parent[n]
          <6>1. d.prev[n] # a
            BY <1>5, <3>2, <4>2, <5>3
          <6> QED BY <1>4, <3>1, <3>2, <3>3, <5>3, <6>1
        <5> QED BY <5>1, <5>2, <5>3
      <4> QED BY <4>1, <4>2
    <3> QED BY <3>4, <3>5, <3>6
  <2> QED BY <2>2, <2>3
<1>8. IsWellLinked(e)
  BY <1>6, <1>7 DEF IsWellLinked
<1> QED BY <1>2, <1>3, <1>8 DEF Sound, e

LEMMA PreambleSound ==
  ASSUME NEW d, Sound(d), NEW x \in Node
  PROVE  LET e == InsertChildPreamble(d, x)
         IN /\ Sound(e) /\ e.kind = d.kind
            /\ Linked(e) = Linked(d) \ {x}
            /\ \A n \in Node \ {x} : e.parent[n] = d.parent[n]
<1>1. CASE x \in Linked(d)
  BY <1>1, UnlinkSound DEF InsertChildPreamble
<1>2. CASE x \notin Linked(d)
  <2>1. SamePointers(d, SetTracked(d, x))
    BY DataKeepsPointers
  <2>2. Sound(SetTracked(d, x))
    BY <2>1, SamePointersSound
  <2> QED BY <1>2, <2>1, <2>2 DEF InsertChildPreamble, SamePointers, Linked
<1> QED BY <1>1, <1>2

\* Who is the last stays the last when another leaves.
LEMMA PreambleNext ==
  ASSUME NEW d, Sound(d), NEW x \in Node, NEW a \in Linked(d) \ {x},
         d.next[a] = Null
  PROVE  InsertChildPreamble(d, x).next[a] = Null
<1>1. CASE x \in Linked(d)
  <2>1. a \in Node /\ a # Null /\ x # Null
    BY NullIsNoNode DEF Linked
  <2>2. a # d.prev[x]
    BY <1>1, <2>1 DEF Sound, IsWellLinked
  <2>3. Unlink(d, x).next = [n \in Node |->
          IF n = d.prev[x] THEN d.next[x] ELSE d.next[n]]
    BY DEF Sound, Unlink, Unlinking, Fields
  <2> QED BY <1>1, <2>1, <2>2, <2>3 DEF InsertChildPreamble
<1>2. CASE x \notin Linked(d)
  <2>1. SetTracked(d, x).next = d.next
    BY DataKeepsPointers DEF SamePointers
  <2> QED BY <1>2, <2>1 DEF InsertChildPreamble
<1> QED BY <1>1, <1>2

LEMMA InsertEndSound ==
  ASSUME NEW d, Sound(d), NEW p \in {Document} \cup Elements(d),
         NEW x \in Allocated(d)
  PROVE  Sound(InsertEndChild(d, p, x))
<1> DEFINE e == InsertChildPreamble(d, x)
<1>1. /\ x \in Node /\ Sound(e) /\ x \notin Linked(e) /\ e.kind[x] # "free"
      /\ p \in {Document} \cup Elements(e) /\ p \in Parent
  BY PreambleSound DEF Allocated, Elements, Parent
<1> HIDE DEF e
<1>2. Adjacent(e, p, e.lastChild[p], Null)
  BY <1>1, NullIsNoNode DEF Adjacent, Sound, PointersOK, IsWellLinked
<1> QED BY <1>1, <1>2, LinkingSound DEF InsertEndChild, e

LEMMA InsertFirstSound ==
  ASSUME NEW d, Sound(d), NEW p \in {Document} \cup Elements(d),
         NEW x \in Allocated(d)
  PROVE  Sound(InsertFirstChild(d, p, x))
<1> DEFINE e == InsertChildPreamble(d, x)
<1>1. /\ x \in Node /\ Sound(e) /\ x \notin Linked(e) /\ e.kind[x] # "free"
      /\ p \in {Document} \cup Elements(e) /\ p \in Parent
  BY PreambleSound DEF Allocated, Elements, Parent
<1> HIDE DEF e
<1>2. Adjacent(e, p, Null, e.firstChild[p])
  BY <1>1, NullIsNoNode DEF Adjacent, Sound, PointersOK, IsWellLinked
<1> QED BY <1>1, <1>2, LinkingSound DEF InsertFirstChild, e

LEMMA InsertAfterSound ==
  ASSUME NEW d, Sound(d), NEW x \in Allocated(d), NEW a \in Linked(d) \ {x}
  PROVE  Sound(InsertAfterChild(d, d.parent[a], a, x))
<1> DEFINE e == InsertChildPreamble(d, x)
           p == d.parent[a]
<1>0. p \in {Document} \cup Elements(d) /\ p # Null /\ a \in Node
  BY DEF Sound, IsWellLinked, Linked
<1>1. /\ x \in Node /\ Sound(e) /\ x \notin Linked(e) /\ e.kind[x] # "free"
      /\ p \in {Document} \cup Elements(e) /\ p \in Parent
      /\ a \in Linked(e) /\ e.parent[a] = p
  <2>1. x \in Node /\ d.kind[x] # "free" /\ p \in Parent
    BY <1>0 DEF Allocated, Elements, Parent
  <2>2. /\ Sound(e) /\ e.kind = d.kind /\ Linked(e) = Linked(d) \ {x}
        /\ \A n \in Node \ {x} : e.parent[n] = d.parent[n]
    BY <2>1, PreambleSound
  <2> HIDE DEF e
  <2>3. p \in {Document} \cup Elements(e)
    BY <1>0, <2>2 DEF Elements
  <2> QED BY <1>0, <2>1, <2>2, <2>3
<1>2. CASE d.next[a] = Null
  BY <1>0, <1>2, InsertEndSound DEF InsertAfterChild
<1>3. CASE d.next[a] # Null
  <2> HIDE DEF e, p
  <2>1. Adjacent(e, p, a, e.next[a])
    BY <1>0, <1>1, NullIsNoNode DEF Adjacent, Sound, PointersOK, IsWellLinked
  <2> QED BY <1>1, <1>3, <2>1, LinkingSound DEF InsertAfterChild, e, p
<1> QED BY <1>2, <1>3

LEMMA SetTextSound ==
  ASSUME NEW d, Sound(d), Allocated(d) # Node, NEW p \in Elements(d), NEW v
  PROVE  Sound(SetText(d, p, v))
<1> DEFINE first == d.firstChild[p]
           made == New(d, "text", v)
<1>1. CASE first # Null /\ isText(d.kind[first])
  <2>1. SamePointers(d, SetValue(d, first, v))
    BY DataKeepsPointers
  <2> QED BY <1>1, <2>1, SamePointersSound DEF SetText
<1>2. CASE ~(first # Null /\ isText(d.kind[first]))
  <2>1. "text" \in Kind
    BY DEF Kind
  <2>2. /\ Sound(made) /\ Fresh(d) \in Allocated(made)
        /\ p \in {Document} \cup Elements(made)
    BY <2>1, NewSound DEF Allocated
  <2>3. Sound(InsertFirstChild(made, p, Fresh(d)))
    BY <2>2, InsertFirstSound
  <2> QED BY <1>2, <2>3 DEF SetText
<1> QED BY <1>1, <1>2

-----------------------------------------------------------------------------
(* Nodes are deleted with all that is below them                            *)

LEMMA BelowClosed ==
  ASSUME NEW d, NEW S \in SUBSET Node
  PROVE  /\ Below(d, S) \in SUBSET Node /\ S \subseteq Below(d, S)
         /\ \A m \in Linked(d) :
              d.parent[m] \in Below(d, S) => m \in Below(d, S)
         /\ \A y \in Below(d, S) \ S :
              y \in Linked(d) /\ d.parent[y] \in Below(d, S)
<1> DEFINE U == Below(d, S)
           Closed(T) == /\ S \subseteq T
                        /\ \A n \in Linked(d) : d.parent[n] \in T => n \in T
<1>1. U \subseteq S \cup Linked(d) /\ Linked(d) \subseteq Node
  BY DEF Below, Linked
<1>2. \A x \in S \cup Linked(d) :
        x \in U <=> \A T \in SUBSET (S \cup Linked(d)) : Closed(T) => x \in T
  BY DEF Below
<1> HIDE DEF U
<1>3. S \subseteq U
  BY <1>2
<1>4. ASSUME NEW m \in Linked(d), d.parent[m] \in U
      PROVE  m \in U
  <2>1. d.parent[m] \in S \cup Linked(d)
    BY <1>1, <1>4
  <2> QED BY <1>2, <1>4, <2>1
<1>5. ASSUME NEW y \in U, y \notin S, d.parent[y] \notin U
      PROVE  FALSE
  <2> DEFINE T == U \ {y}
  <2>1. T \in SUBSET (S \cup Linked(d)) /\ y \in S \cup Linked(d)
    BY <1>1
  <2>2. Closed(T)
    BY <1>3, <1>4, <1>5
  <2> HIDE DEF T, Closed
  <2>3. y \in T
    BY <1>2, <2>1, <2>2
  <2> QED BY <2>3 DEF T
<1> QED BY <1>1, <1>3, <1>4, <1>5 DEF U

\* Of d, the nodes U go, and the lists of Q, which are all of U and maybe
\* one parent more.
IsCut(d, e, U, Q) ==
  /\ U \in SUBSET Node /\ Q \in SUBSET Parent /\ U \subseteq Q
  /\ \A m \in Linked(d) : d.parent[m] \in Q <=> m \in U
  /\ DOMAIN e = Fields
  /\ e.kind = [n \in Node |-> IF n \in U THEN "free" ELSE d.kind[n]]
  /\ e.parent = [n \in Node |-> IF n \in U THEN Null ELSE d.parent[n]]
  /\ e.prev = [n \in Node |-> IF n \in U THEN Null ELSE d.prev[n]]
  /\ e.next = [n \in Node |-> IF n \in U THEN Null ELSE d.next[n]]
  /\ e.firstChild =
       [q \in Parent |-> IF q \in Q THEN Null ELSE d.firstChild[q]]
  /\ e.lastChild =
       [q \in Parent |-> IF q \in Q THEN Null ELSE d.lastChild[q]]

LEMMA CutSound ==
  ASSUME NEW d, Sound(d), NEW e, NEW U, NEW Q, IsCut(d, e, U, Q)
  PROVE  Sound(e)
<1> USE DEF IsCut
<1>1. PointersOK(d) /\ IsWellLinked(d)
  BY DEF Sound
<1>2. PointersOK(e)
  BY <1>1 DEF PointersOK
<1>3. Linked(e) = Linked(d) \ U
  BY DEF Linked
<1>4. ASSUME NEW q \in Parent
      PROVE  /\ e.firstChild[q] = Null <=> e.lastChild[q] = Null
             /\ e.firstChild[q] # Null =>
                  /\ e.parent[e.firstChild[q]] = q
                  /\ e.prev[e.firstChild[q]] = Null
                  /\ e.parent[e.lastChild[q]] = q
                  /\ e.next[e.lastChild[q]] = Null
  <2>1. CASE q \in Q
    BY <2>1
  <2>2. CASE q \notin Q /\ d.firstChild[q] = Null
    BY <1>1, <2>2 DEF IsWellLinked
  <2>3. CASE q \notin Q /\ d.firstChild[q] # Null
    <3> DEFINE f == d.firstChild[q]
               l == d.lastChild[q]
    <3>1. /\ f \in Node /\ l \in Node /\ l # Null /\ q # Null
          /\ d.parent[f] = q /\ d.prev[f] = Null
          /\ d.parent[l] = q /\ d.next[l] = Null
      BY <1>1, <2>3, NodeAssumption DEF PointersOK, IsWellLinked
    <3>2. f \notin U /\ l \notin U
      BY <2>3, <3>1 DEF Linked
    <3> QED BY <2>3, <3>1, <3>2
  <2> QED BY <2>1, <2>2, <2>3
<1>5. ASSUME NEW n \in Linked(e)
      PROVE  /\ e.kind[n] # "free"
             /\ e.parent[n] \in {Document} \cup Elements(e)
             /\ IF e.next[n] = Null THEN e.lastChild[e.parent[n]] = n
                ELSE /\ e.prev[e.next[n]] = n
                     /\ e.parent[e.next[n]] = e.parent[n]
             /\ IF e.prev[n] = Null THEN e.firstChild[e.parent[n]] = n
                ELSE /\ e.next[e.prev[n]] = n
                     /\ e.parent[e.prev[n]] = e.parent[n]
  <2> DEFINE q == d.parent[n]
             a == d.prev[n]
             b == d.next[n]
  <2>1. n \in Linked(d) /\ n \notin U /\ n \in Node /\ q \notin Q /\ q # Null
    BY <1>3 DEF Linked
  <2>2. /\ d.kind[n] # "free"
        /\ q \in {Document} \cup Elements(d) /\ q \in Parent
        /\ a \in Node \cup {Null} /\ b \in Node \cup {Null}
        /\ IF b = Null THEN d.lastChild[q] = n
           ELSE d.prev[b] = n /\ d.parent[b] = q
        /\ IF a = Null THEN d.firstChild[q] = n
           ELSE d.next[a] = n /\ d.parent[a] = q
    BY <1>1, <2>1 DEF IsWellLinked, PointersOK, Elements, Parent
  <2>3. /\ e.kind[n] = d.kind[n] /\ e.parent[n] = q
        /\ e.next[n] = b /\ e.prev[n] = a
        /\ e.firstChild[q] = d.firstChild[q] /\ e.lastChild[q] = d.lastChild[q]
    BY <2>1, <2>2
  <2>4. q \in {Document} \cup Elements(e)
    BY <2>1, <2>2 DEF Elements
  <2> HIDE DEF q, a, b
  <2>5. (a # Null => a \in Node \ U) /\ (b # Null => b \in Node \ U)
    BY <2>1, <2>2 DEF Linked
  <2> QED BY <2>1, <2>2, <2>3, <2>4, <2>5
<1>6. IsWellLinked(e)
  BY <1>4, <1>5 DEF IsWellLinked
<1> QED BY <1>2, <1>6 DEF Sound

\* DeleteNode, once the node is in no list: it goes with all below it.
LEMMA DeleteNodeCut ==
  ASSUME NEW d, Sound(d), NEW n \in Node
  PROVE  LET e == InsertChildPreamble(d, n)
             U == Below(e, {n})
         IN /\ Sound(e) /\ n \in U
            /\ IsCut(e, DeleteNode(d, n), U, U)
<1> DEFINE e == InsertChildPreamble(d, n)
           U == Below(e, {n})
<1>1. Sound(e) /\ n \notin Linked(e)
  BY PreambleSound
<1> HIDE DEF e
<1>2. /\ U \in SUBSET Node /\ n \in U
      /\ \A m \in Linked(e) : e.parent[m] \in U => m \in U
      /\ \A y \in U \ {n} : y \in Linked(e) /\ e.parent[y] \in U
  <2>1. {n} \in SUBSET Node
    OBVIOUS
  <2> HIDE DEF U
  <2> QED BY <2>1, BelowClosed DEF U
<1> HIDE DEF U
<1>3. \A m \in Linked(e) : e.parent[m] \in U <=> m \in U
  BY <1>1, <1>2
<1> DEFINE f == Freed(e, U)
<1>4. /\ DOMAIN f = Fields
      /\ f.kind = [m \in Node |-> IF m \in U THEN "free" ELSE e.kind[m]]
      /\ f.parent = [m \in Node |-> IF m \in U THEN Null ELSE e.parent[m]]
      /\ f.prev = [m \in Node |-> IF m \in U THEN Null ELSE e.prev[m]]
      /\ f.next = [m \in Node |-> IF m \in U THEN Null ELSE e.next[m]]
      /\ f.firstChild =
           [q \in Parent |-> IF q \in U THEN Null ELSE e.firstChild[q]]
      /\ f.lastChild =
           [q \in Parent |-> IF q \in U THEN Null ELSE e.lastChild[q]]
  BY <1>1 DEF Sound, PointersOK, Freed, Fields
<1> HIDE DEF f
<1>5. U \in SUBSET Parent /\ U \subseteq U
  BY <1>2 DEF Parent
<1>6. IsCut(e, f, U, U)
  BY <1>2, <1>3, <1>4, <1>5 DEF IsCut
<1> QED BY <1>1, <1>2, <1>6 DEF DeleteNode, f, U, e

LEMMA DeleteNodeSound ==
  ASSUME NEW d, Sound(d), NEW n \in Allocated(d)
  PROVE  Sound(DeleteNode(d, n))
<1> DEFINE e == InsertChildPreamble(d, n)
           U == Below(e, {n})
           f == DeleteNode(d, n)
<1>1. Sound(e) /\ IsCut(e, f, U, U)
  BY DeleteNodeCut DEF Allocated
<1> HIDE DEF e, U, f
<1>2. Sound(f)
  BY <1>1, CutSound
<1> QED BY <1>2 DEF f

LEMMA DeleteChildrenCut ==
  ASSUME NEW d, Sound(d), NEW p \in Parent
  PROVE  LET U == Below(d, {n \in Node : d.parent[n] = p})
         IN IsCut(d, DeleteChildren(d, p), U, U \cup {p})
<1> DEFINE S == {n \in Node : d.parent[n] = p}
           U == Below(d, S)
           Q == U \cup {p}
<1>1. /\ U \in SUBSET Node /\ S \subseteq U
      /\ \A m \in Linked(d) : d.parent[m] \in U => m \in U
      /\ \A y \in U \ S : y \in Linked(d) /\ d.parent[y] \in U
  <2>1. S \in SUBSET Node
    OBVIOUS
  <2> HIDE DEF S, U
  <2> QED BY <2>1, BelowClosed DEF U
<1> HIDE DEF U
<1>2. \A m \in Linked(d) : d.parent[m] \in Q <=> m \in U
  BY <1>1 DEF Linked
<1> DEFINE f == Freed([d EXCEPT !.firstChild[p] = Null,
                                !.lastChild[p] = Null], U)
<1>3. /\ DOMAIN f = Fields
      /\ f.kind = [m \in Node |-> IF m \in U THEN "free" ELSE d.kind[m]]
      /\ f.parent = [m \in Node |-> IF m \in U THEN Null ELSE d.parent[m]]
      /\ f.prev = [m \in Node |-> IF m \in U THEN Null ELSE d.prev[m]]
      /\ f.next = [m \in Node |-> IF m \in U THEN Null ELSE d.next[m]]
      /\ f.firstChild =
           [q \in Parent |-> IF q \in Q THEN Null ELSE d.firstChild[q]]
      /\ f.lastChild =
           [q \in Parent |-> IF q \in Q THEN Null ELSE d.lastChild[q]]
  BY DEF Sound, PointersOK, Freed, Fields
<1> HIDE DEF f
<1>4. Q \in SUBSET Parent /\ U \subseteq Q
  BY <1>1 DEF Parent
<1> HIDE DEF Q
<1>5. IsCut(d, f, U, Q)
  BY <1>1, <1>2, <1>3, <1>4 DEF IsCut
<1> QED BY <1>5 DEF DeleteChildren, f, U, Q

LEMMA DeleteChildrenSound ==
  ASSUME NEW d, Sound(d), NEW p \in Parent
  PROVE  Sound(DeleteChildren(d, p))
<1> DEFINE U == Below(d, {n \in Node : d.parent[n] = p})
           f == DeleteChildren(d, p)
<1>1. IsCut(d, f, U, U \cup {p})
  BY DeleteChildrenCut
<1> HIDE DEF U, f
<1>2. Sound(f)
  BY <1>1, CutSound
<1> QED BY <1>2 DEF f

-----------------------------------------------------------------------------
(* The pools count the nodes                                                *)

NodesIn(d, k) == {n \in Allocated(d) : PoolOf(d.kind[n]) = k}

\* Every pool has as many cells out as there are nodes, and as many untracked
\* as there are nodes in no list, but those of X: they are on their way into a
\* list or into the pool.
CountedBut(d, X) ==
  /\ d.value \in [Node -> Value \cup {Null}]
  /\ d.attributes \in [Node -> Seq(Attribute)]
  /\ d.currentAllocs \in [Pool -> Int]
  /\ d.untracked \in [Pool -> Int]
  /\ \A n \in Node : d.kind[n] = "free" => d.attributes[n] = <<>>
  /\ d.currentAllocs["attribute"] = Cardinality(AttributesOf(d, Allocated(d)))
  /\ d.untracked["attribute"] = 0
  /\ \A k \in Pool \ {"attribute"} :
       /\ d.currentAllocs[k] = Cardinality(NodesIn(d, k))
       /\ d.untracked[k] = Cardinality(NodesIn(d, k) \ (Linked(d) \cup X))

Counted(d) == CountedBut(d, {})

LEMMA CountedIsCounted ==
  ASSUME NEW d, Counted(d) PROVE IsCounted(d)
<1>1. ASSUME NEW k \in Pool
      PROVE  LET Mine == {n \in Allocated(d) : PoolOf(d.kind[n]) = k}
             IN IF k = "attribute"
                THEN /\ d.currentAllocs[k] =
                          Cardinality(AttributesOf(d, Allocated(d)))
                     /\ d.untracked[k] = 0
                ELSE /\ d.currentAllocs[k] = Cardinality(Mine)
                     /\ d.untracked[k] = Cardinality(Mine \ Linked(d))
  <2>1. CASE k = "attribute"
    BY <2>1 DEF Counted, CountedBut
  <2>2. CASE k # "attribute"
    <3>1. NodesIn(d, k) \ (Linked(d) \cup {}) = NodesIn(d, k) \ Linked(d)
      OBVIOUS
    <3> QED BY <2>2, <3>1 DEF Counted, CountedBut, NodesIn
  <2> QED BY <2>1, <2>2
<1> QED BY <1>1 DEF IsCounted

LEMMA FinitelyManyNodes ==
  ASSUME NEW d, NEW k, NEW Y
  PROVE  /\ IsFiniteSet(NodesIn(d, k))
         /\ IsFiniteSet(NodesIn(d, k) \ Y)
<1>1. NodesIn(d, k) \in SUBSET Node /\ NodesIn(d, k) \ Y \in SUBSET Node
  BY DEF NodesIn, Allocated
<1>2. IsFiniteSet(Node)
  BY NodeAssumption
<1> HIDE DEF NodesIn
<1> QED BY <1>1, <1>2, FS_Subset

LEMMA AttributePlaces ==
  ASSUME NEW d, NEW S
  PROVE  \A y : y \in AttributesOf(d, S)
                <=> \E n \in S : \E i \in DOMAIN d.attributes[n] : y = <<n, i>>
BY DEF AttributesOf

LEMMA FinitelyManyAttributes ==
  ASSUME NEW d, d.attributes \in [Node -> Seq(Attribute)],
         NEW S \in SUBSET Node
  PROVE  IsFiniteSet(AttributesOf(d, S))
<1> DEFINE f == [n \in S |-> {n} \X DOMAIN d.attributes[n]]
           T == {{n} \X DOMAIN d.attributes[n] : n \in S}
<1>1. IsFiniteSet(S)
  BY NodeAssumption, FS_Subset
<1>2. f \in Surjection(S, T)
  BY DEF Surjection
<1>3. IsFiniteSet(T)
  <2> HIDE DEF f, T
  <2> QED BY <1>1, <1>2, FS_Surjection
<1>4. ASSUME NEW n \in S PROVE IsFiniteSet({n} \X DOMAIN d.attributes[n])
  <2>1. d.attributes[n] \in Seq(Attribute)
    OBVIOUS
  <2>2. /\ DOMAIN d.attributes[n] = 1..Len(d.attributes[n])
        /\ Len(d.attributes[n]) \in Nat
    BY <2>1, LenProperties
  <2>3. IsFiniteSet(DOMAIN d.attributes[n])
    BY <2>2, FS_Interval
  <2>4. IsFiniteSet({n})
    BY FS_Singleton
  <2> QED BY <2>3, <2>4, FS_Product
<1>5. \A X \in T : IsFiniteSet(X)
  BY <1>4
<1> HIDE DEF T
<1>6. IsFiniteSet(UNION T)
  BY <1>3, <1>5, FS_UNION
<1> QED BY <1>6 DEF T, AttributesOf

\* What touches neither kinds, attributes nor counters
LEMMA SameCount ==
  ASSUME NEW d, NEW e, NEW X, NEW Y, CountedBut(d, X),
         e.value \in [Node -> Value \cup {Null}],
         e.kind = d.kind, e.attributes = d.attributes,
         e.currentAllocs = d.currentAllocs, e.untracked = d.untracked,
         Linked(e) \cup Y = Linked(d) \cup X
  PROVE  CountedBut(e, Y)
<1>1. Allocated(e) = Allocated(d)
  BY DEF Allocated
<1>2. \A k : NodesIn(e, k) = NodesIn(d, k)
  BY <1>1 DEF NodesIn
<1>3. AttributesOf(e, Allocated(e)) = AttributesOf(d, Allocated(d))
  BY <1>1 DEF AttributesOf
<1> QED BY <1>2, <1>3 DEF CountedBut

LEMMA LinkingCounted ==
  ASSUME NEW d, Sound(d), NEW x \in Node, CountedBut(d, {x}),
         NEW p \in Parent, NEW a, NEW b
  PROVE  Counted(Linking(d, p, a, x, b))
<1> DEFINE e == Linking(d, p, a, x, b)
<1>1. /\ e.kind = d.kind /\ e.value = d.value /\ e.attributes = d.attributes
      /\ e.currentAllocs = d.currentAllocs /\ e.untracked = d.untracked
      /\ e.parent = [d.parent EXCEPT ![x] = p]
  BY DEF Sound, Linking, Fields
<1> HIDE DEF e
<1>2. p # Null
  BY NodeAssumption
<1>3. Linked(e) \cup {} = Linked(d) \cup {x}
  BY <1>1, <1>2 DEF Linked, Sound, PointersOK
<1>4. e.value \in [Node -> Value \cup {Null}]
  BY <1>1 DEF CountedBut
<1>5. CountedBut(e, {})
  BY <1>1, <1>3, <1>4, SameCount
<1> QED BY <1>5 DEF Counted, e

LEMMA PreambleCounted ==
  ASSUME NEW d, Sound(d), Counted(d), NEW x \in Allocated(d)
  PROVE  CountedBut(InsertChildPreamble(d, x), {x})
<1> DEFINE e == InsertChildPreamble(d, x)
           q == PoolOf(d.kind[x])
<1>0. x \in Node /\ d.kind[x] # "free"
  BY DEF Allocated
<1>1. CASE x \in Linked(d)
  <2>1. e = Unlink(d, x)
    BY <1>1 DEF InsertChildPreamble
  <2>2. Linked(e) = Linked(d) \ {x}
    BY <1>1, <2>1, UnlinkSound
  <2>3. /\ e.kind = d.kind /\ e.value = d.value /\ e.attributes = d.attributes
        /\ e.currentAllocs = d.currentAllocs /\ e.untracked = d.untracked
    BY <2>1 DEF Sound, Unlink, Unlinking, Fields
  <2> HIDE DEF e
  <2>4. Linked(e) \cup {x} = Linked(d) \cup {}
    BY <1>1, <2>2
  <2>5. e.value \in [Node -> Value \cup {Null}]
    BY <2>3 DEF Counted, CountedBut
  <2>6. CountedBut(e, {x})
    BY <2>3, <2>4, <2>5, SameCount DEF Counted
  <2> QED BY <2>6 DEF e
<1>2. CASE x \notin Linked(d)
  <2>1. e = SetTracked(d, x)
    BY <1>2 DEF InsertChildPreamble
  <2>2. /\ e.kind = d.kind /\ e.value = d.value /\ e.attributes = d.attributes
        /\ e.currentAllocs = d.currentAllocs /\ e.parent = d.parent
        /\ e.untracked = [d.untracked EXCEPT ![q] = d.untracked[q] - 1]
    BY <2>1 DEF Sound, SetTracked, Fields
  <2>3. q \in Pool \ {"attribute"}
    BY DEF PoolOf, Pool
  <2> HIDE DEF e, q
  <2>4. Linked(e) = Linked(d) /\ Allocated(e) = Allocated(d)
    BY <2>2 DEF Linked, Allocated
  <2>5. AttributesOf(e, Allocated(e)) = AttributesOf(d, Allocated(d))
    BY <2>2, <2>4 DEF AttributesOf
  <2>6. \A k : NodesIn(e, k) = NodesIn(d, k)
    BY <2>2, <2>4 DEF NodesIn
  <2>7. ASSUME NEW k \in Pool \ {"attribute"}
        PROVE  e.untracked[k] = Cardinality(NodesIn(e, k) \ (Linked(e) \cup {x}))
    <3> DEFINE M == NodesIn(d, k) \ (Linked(d) \cup {})
    <3>1. IsFiniteSet(M) /\ d.untracked[k] = Cardinality(M)
          /\ d.untracked[k] \in Int
      BY <2>7, FinitelyManyNodes DEF Counted, CountedBut
    <3>2. NodesIn(e, k) \ (Linked(e) \cup {x}) = M \ {x}
      BY <2>4, <2>6
    <3>3. x \in M <=> k = q
      BY <1>0, <1>2 DEF NodesIn, Allocated, q
    <3> HIDE DEF M
    <3>4. Cardinality(M \ {x}) =
            IF x \in M THEN Cardinality(M) - 1 ELSE Cardinality(M)
      BY <3>1, FS_RemoveElement
    <3>5. e.untracked[k] = IF k = q THEN d.untracked[k] - 1 ELSE d.untracked[k]
      BY <2>2, <2>3, <2>7 DEF Counted, CountedBut
    <3> QED BY <3>1, <3>2, <3>3, <3>4, <3>5
  <2>8. e.untracked \in [Pool -> Int] /\ e.untracked["attribute"] = 0
    BY <2>2, <2>3 DEF Counted, CountedBut, Pool
  <2>9. CountedBut(e, {x})
    BY <2>2, <2>5, <2>6, <2>7, <2>8 DEF Counted, CountedBut
  <2> QED BY <2>9 DEF e
<1> QED BY <1>1, <1>2

LEMMA NewCounted ==
  ASSUME NEW d, Sound(d), Counted(d), Allocated(d) # Node,
         NEW k \in Kind, NEW v \in Value \cup {Null}
  PROVE  LET e == New(d, k, v)
         IN /\ Counted(e) /\ e.attributes = d.attributes
            /\ Fresh(d) \in Allocated(e) \ Allocated(d)
<1> DEFINE n == Fresh(d)
           e == New(d, k, v)
           q == PoolOf(k)
<1>1. n \in Node /\ d.kind[n] = "free" /\ n \notin Linked(d)
  <2>1. \E m \in Node : d.kind[m] = "free"
    BY DEF Allocated
  <2> QED BY <2>1 DEF Fresh, Sound, IsWellLinked, Linked
<1>2. /\ e.kind = [d.kind EXCEPT ![n] = k]
      /\ e.value = [d.value EXCEPT ![n] = v]
      /\ e.parent = d.parent /\ e.attributes = d.attributes
      /\ e.currentAllocs = [d.currentAllocs EXCEPT ![q] = d.currentAllocs[q] + 1]
      /\ e.untracked = [d.untracked EXCEPT ![q] = d.untracked[q] + 1]
  BY DEF Sound, New, Fields
<1>3. q \in Pool \ {"attribute"} /\ k # "free"
  BY DEF PoolOf, Pool, Kind
<1>4. PoolOf(k) = q
  OBVIOUS
<1> HIDE DEF e, q, n
<1>5. d.kind \in [Node -> Kind \cup {"free"}]
  BY DEF Sound, PointersOK
<1>6. Allocated(e) = Allocated(d) \cup {n} /\ n \notin Allocated(d)
  BY <1>1, <1>2, <1>3, <1>5 DEF Allocated
<1>7. Linked(e) = Linked(d)
  BY <1>2 DEF Linked
<1>8. AttributesOf(e, Allocated(e)) = AttributesOf(d, Allocated(d))
  <2>1. d.attributes[n] = <<>> /\ DOMAIN d.attributes[n] = {}
    BY <1>1 DEF Counted, CountedBut
  <2>2. \A y : y \in AttributesOf(e, Allocated(e))
               <=> y \in AttributesOf(d, Allocated(d))
    BY <1>2, <1>6, <2>1, AttributePlaces
  <2> QED BY <2>2
<1>9. ASSUME NEW j \in Pool \ {"attribute"}
      PROVE  /\ e.currentAllocs[j] = Cardinality(NodesIn(e, j))
             /\ e.untracked[j] =
                  Cardinality(NodesIn(e, j) \ (Linked(e) \cup {}))
  <2> DEFINE M == NodesIn(d, j)
             L == M \ (Linked(d) \cup {})
  <2>1. IsFiniteSet(M) /\ IsFiniteSet(L) /\ n \notin M /\ n \notin L
    BY <1>6, FinitelyManyNodes DEF NodesIn
  <2>2. /\ d.currentAllocs[j] = Cardinality(M) /\ d.currentAllocs[j] \in Int
        /\ d.untracked[j] = Cardinality(L) /\ d.untracked[j] \in Int
    BY DEF Counted, CountedBut
  <2>3. /\ e.currentAllocs[j] = IF j = q THEN d.currentAllocs[j] + 1
                                ELSE d.currentAllocs[j]
        /\ e.untracked[j] = IF j = q THEN d.untracked[j] + 1
                            ELSE d.untracked[j]
    BY <1>2, <1>3 DEF Counted, CountedBut
  <2>4. NodesIn(e, j) = IF j = q THEN M \cup {n} ELSE M
    <3>1. e.kind[n] = k /\ \A m \in Allocated(d) : e.kind[m] = d.kind[m]
      BY <1>1, <1>2, <1>5, <1>6 DEF Allocated
    <3> QED BY <1>4, <1>6, <3>1 DEF NodesIn
  <2> HIDE DEF M
  <2>5. NodesIn(e, j) \ (Linked(e) \cup {}) = IF j = q THEN L \cup {n} ELSE L
    BY <1>1, <1>7, <2>4
  <2> HIDE DEF L
  <2>6. /\ Cardinality(M \cup {n}) = Cardinality(M) + 1
        /\ Cardinality(L \cup {n}) = Cardinality(L) + 1
    BY <2>1, FS_AddElement
  <2> QED BY <2>2, <2>3, <2>4, <2>5, <2>6
<1>10. /\ e.value \in [Node -> Value \cup {Null}]
       /\ e.attributes \in [Node -> Seq(Attribute)]
       /\ e.currentAllocs \in [Pool -> Int] /\ e.untracked \in [Pool -> Int]
       /\ e.currentAllocs["attribute"] =
            Cardinality(AttributesOf(e, Allocated(e)))
       /\ e.untracked["attribute"] = 0
  <2>1. /\ d.value \in [Node -> Value \cup {Null}]
        /\ d.attributes \in [Node -> Seq(Attribute)]
        /\ d.currentAllocs \in [Pool -> Int] /\ d.untracked \in [Pool -> Int]
        /\ d.currentAllocs["attribute"] =
             Cardinality(AttributesOf(d, Allocated(d)))
        /\ d.untracked["attribute"] = 0
    BY DEF Counted, CountedBut
  <2>2. e.value \in [Node -> Value \cup {Null}]
    BY <1>2, <2>1
  <2>3. e.currentAllocs \in [Pool -> Int] /\ e.untracked \in [Pool -> Int]
    BY <1>2, <1>3, <2>1
  <2>4. /\ e.currentAllocs["attribute"] = d.currentAllocs["attribute"]
        /\ e.untracked["attribute"] = 0
    BY <1>2, <1>3, <2>1
  <2> QED BY <1>2, <1>8, <2>1, <2>2, <2>3, <2>4
<1>11. ASSUME NEW m \in Node, e.kind[m] = "free" PROVE e.attributes[m] = <<>>
  <2>1. d.kind[m] = "free"
    BY <1>2, <1>3, <1>5, <1>11
  <2> QED BY <1>2, <2>1 DEF Counted, CountedBut
<1>12. CountedBut(e, {})
  BY <1>9, <1>10, <1>11 DEF CountedBut
<1> QED BY <1>2, <1>6, <1>12 DEF Counted, e, n

LEMMA FreedCounted ==
  ASSUME NEW d, DOMAIN d = Fields, PointersOK(d), NEW X, CountedBut(d, X),
         NEW U \in SUBSET Allocated(d), U \subseteq Linked(d) \cup X,
         X \subseteq U
  PROVE  Counted(Freed(d, U))
<1> DEFINE e == Freed(d, U)
<1>0. /\ d.kind \in [Node -> Kind \cup {"free"}]
      /\ d.parent \in [Node -> Parent \cup {Null}]
      /\ d.value \in [Node -> Value \cup {Null}]
      /\ d.attributes \in [Node -> Seq(Attribute)]
      /\ d.currentAllocs \in [Pool -> Int]
  BY DEF PointersOK, CountedBut
<1>1. /\ e.kind = [m \in Node |-> IF m \in U THEN "free" ELSE d.kind[m]]
      /\ e.value = [m \in Node |-> IF m \in U THEN Null ELSE d.value[m]]
      /\ e.attributes = [m \in Node |-> IF m \in U THEN <<>>
                                        ELSE d.attributes[m]]
      /\ e.parent = [m \in Node |-> IF m \in U THEN Null ELSE d.parent[m]]
      /\ e.currentAllocs = AllocsWithout(d, U) /\ e.untracked = d.untracked
  BY <1>0 DEF Freed, Fields
<1> HIDE DEF e
<1>2. Allocated(e) = Allocated(d) \ U /\ U \subseteq Node
  BY <1>0, <1>1 DEF Allocated
<1>3. Linked(e) = Linked(d) \ U
  BY <1>0, <1>1 DEF Linked
<1>4. ASSUME NEW j \in Pool \ {"attribute"}
      PROVE  /\ e.currentAllocs[j] = Cardinality(NodesIn(e, j))
             /\ e.untracked[j] =
                  Cardinality(NodesIn(e, j) \ (Linked(e) \cup {}))
             /\ e.currentAllocs[j] \in Int
  <2> DEFINE M == NodesIn(d, j)
             G == {n \in U : PoolOf(d.kind[n]) = j}
  <2>1. /\ d.currentAllocs[j] = Cardinality(M) /\ d.currentAllocs[j] \in Int
        /\ d.untracked[j] = Cardinality(M \ (Linked(d) \cup X))
    BY DEF CountedBut
  <2>2. e.currentAllocs[j] = d.currentAllocs[j] - Cardinality(G)
    BY <1>1 DEF AllocsWithout
  <2>3. NodesIn(e, j) = M \ G
    <3>1. \A m \in Allocated(e) : e.kind[m] = d.kind[m]
      BY <1>1, <1>2 DEF Allocated
    <3> QED BY <1>2, <3>1 DEF NodesIn
  <2>4. NodesIn(e, j) \ (Linked(e) \cup {}) = M \ (Linked(d) \cup X)
    <3>1. G = U \cap M
      BY DEF NodesIn
    <3> HIDE DEF G, M
    <3> QED BY <1>3, <2>3, <3>1
  <2>5. IsFiniteSet(M) /\ G \in SUBSET M
    BY FinitelyManyNodes DEF NodesIn
  <2> HIDE DEF M, G
  <2>6. /\ Cardinality(M \ G) = Cardinality(M) - Cardinality(M \cap G)
        /\ M \cap G = G
    BY <2>5, FS_Difference
  <2>7. Cardinality(G) \in Int
    BY <2>5, FS_Subset, FS_CardinalityType
  <2>8. e.untracked[j] = d.untracked[j]
    BY <1>1
  <2>9. Cardinality(M \ G) = Cardinality(M) - Cardinality(G)
    BY <2>6
  <2>10. e.currentAllocs[j] = Cardinality(NodesIn(e, j))
    BY <2>1, <2>2, <2>3, <2>9, Zenon
  <2>11. e.currentAllocs[j] \in Int
    BY <2>1, <2>2, <2>7
  <2>12. e.untracked[j] = Cardinality(NodesIn(e, j) \ (Linked(e) \cup {}))
    BY <2>1, <2>4, <2>8, Zenon
  <2> QED BY <2>10, <2>11, <2>12, Zenon
<1>5. /\ e.currentAllocs["attribute"] =
           Cardinality(AttributesOf(e, Allocated(e)))
      /\ e.currentAllocs["attribute"] \in Int
  <2> DEFINE M == AttributesOf(d, Allocated(d))
             G == AttributesOf(d, U)
  <2>1. "attribute" \in Pool
    BY DEF Pool
  <2>2. e.currentAllocs["attribute"] = d.currentAllocs["attribute"] - Cardinality(G)
    BY <1>1, <2>1 DEF AllocsWithout
  <2>3. d.currentAllocs["attribute"] = Cardinality(M)
        /\ d.currentAllocs["attribute"] \in Int
    BY <1>0, <2>1 DEF CountedBut
  <2>4. AttributesOf(e, Allocated(e)) = M \ G
    <3>1. \A n \in Allocated(d) \ U : e.attributes[n] = d.attributes[n]
      BY <1>1 DEF Allocated
    <3>2. \A y : y \in AttributesOf(e, Allocated(e)) <=> y \in M /\ y \notin G
      BY <1>2, <3>1, AttributePlaces
    <3> QED BY <3>2
  <2>5. G \in SUBSET M
    BY AttributePlaces
  <2>6. IsFiniteSet(M)
    <3>1. Allocated(d) \in SUBSET Node
      BY DEF Allocated
    <3> QED BY <1>0, <3>1, FinitelyManyAttributes
  <2> HIDE DEF M, G
  <2>7. /\ Cardinality(M \ G) = Cardinality(M) - Cardinality(M \cap G)
        /\ M \cap G = G
    BY <2>5, <2>6, FS_Difference
  <2>8. Cardinality(G) \in Int
    BY <2>5, <2>6, FS_Subset, FS_CardinalityType
  <2>9. Cardinality(M \ G) = Cardinality(M) - Cardinality(G)
    BY <2>7
  <2>10. e.currentAllocs["attribute"] =
           Cardinality(AttributesOf(e, Allocated(e)))
    BY <2>2, <2>3, <2>4, <2>9, Zenon
  <2>11. e.currentAllocs["attribute"] \in Int
    BY <2>2, <2>3, <2>8
  <2> QED BY <2>10, <2>11, Zenon
<1>6. e.currentAllocs \in [Pool -> Int]
  <2>1. e.currentAllocs = [j \in Pool |-> e.currentAllocs[j]]
    BY <1>1 DEF AllocsWithout
  <2>2. \A j \in Pool : e.currentAllocs[j] \in Int
    BY <1>4, <1>5
  <2> QED BY <2>1, <2>2
<1>7. /\ e.value \in [Node -> Value \cup {Null}]
      /\ e.attributes \in [Node -> Seq(Attribute)]
      /\ e.untracked \in [Pool -> Int] /\ e.untracked["attribute"] = 0
  <2>1. <<>> \in Seq(Attribute)
    BY EmptySeq
  <2> QED BY <1>0, <1>1, <2>1 DEF CountedBut
<1>8. \A m \in Node : e.kind[m] = "free" => e.attributes[m] = <<>>
  BY <1>1 DEF CountedBut
<1>9. CountedBut(e, {})
  BY <1>4, <1>5, <1>6, <1>7, <1>8 DEF CountedBut
<1> QED BY <1>9 DEF Counted, e

LEMMA AttributesSplit ==
  ASSUME NEW d, NEW e, NEW S, NEW n \in S,
         \A m \in S \ {n} : e.attributes[m] = d.attributes[m]
  PROVE  AttributesOf(e, S) =
           AttributesOf(d, S \ {n}) \cup ({n} \X DOMAIN e.attributes[n])
<1>1. \A y : y \in AttributesOf(e, S)
             <=> \E m \in S : \E i \in DOMAIN e.attributes[m] : y = <<m, i>>
  BY AttributePlaces
<1>2. \A y : y \in AttributesOf(d, S \ {n})
             <=> \E m \in S \ {n} :
                   \E i \in DOMAIN e.attributes[m] : y = <<m, i>>
  BY AttributePlaces
<1>3. \A y : y \in {n} \X DOMAIN e.attributes[n]
             <=> \E i \in DOMAIN e.attributes[n] : y = <<n, i>>
  OBVIOUS
<1> QED BY <1>1, <1>2, <1>3

\* The attributes of one node change, by one place or none.
LEMMA AttributesCounted ==
  ASSUME NEW d, Sound(d), Counted(d), NEW e, NEW n \in Allocated(d),
         NEW s \in Seq(Attribute),
         e.kind = d.kind, e.parent = d.parent, e.value = d.value,
         e.untracked = d.untracked,
         e.attributes = [d.attributes EXCEPT ![n] = s],
         e.currentAllocs = [d.currentAllocs EXCEPT !["attribute"] =
                              @ + Len(s) - Len(d.attributes[n])]
  PROVE  Counted(e)
<1> DEFINE A == AttributesOf(d, Allocated(d) \ {n})
           Old == {n} \X DOMAIN d.attributes[n]
           New1 == {n} \X DOMAIN s
<1>1. /\ d.attributes \in [Node -> Seq(Attribute)]
      /\ d.currentAllocs \in [Pool -> Int] /\ n \in Node
      /\ "attribute" \in Pool /\ d.kind[n] # "free"
  BY DEF Counted, CountedBut, Allocated, Pool
<1>2. Allocated(e) = Allocated(d) /\ Linked(e) = Linked(d)
  BY DEF Allocated, Linked
<1>3. \A k : NodesIn(e, k) = NodesIn(d, k)
  BY <1>2 DEF NodesIn
<1>4. AttributesOf(d, Allocated(d)) = A \cup Old
  BY AttributesSplit
<1>5. AttributesOf(e, Allocated(e)) = A \cup New1
  <2>1. /\ e.attributes[n] = s
        /\ \A m \in Allocated(d) \ {n} : e.attributes[m] = d.attributes[m]
    BY <1>1 DEF Allocated
  <2>2. AttributesOf(e, Allocated(d)) = A \cup ({n} \X DOMAIN e.attributes[n])
    <3>1. \A m \in Allocated(d) \ {n} : e.attributes[m] = d.attributes[m]
      BY <2>1
    <3>2. n \in Allocated(d)
      OBVIOUS
    <3> QED BY ONLY <3>1, <3>2, AttributesSplit
  <2> QED BY <1>2, <2>1, <2>2
<1>6. A \cap Old = {} /\ A \cap New1 = {}
  BY AttributePlaces
<1>7. IsFiniteSet(A)
  <2>1. Allocated(d) \ {n} \in SUBSET Node
    BY DEF Allocated
  <2> QED BY <1>1, <2>1, FinitelyManyAttributes
<1>8. ASSUME NEW t \in Seq(Attribute)
      PROVE  IsFiniteSet({n} \X DOMAIN t) /\ Cardinality({n} \X DOMAIN t) = Len(t)
  <2>1. DOMAIN t = 1..Len(t) /\ Len(t) \in Nat
    BY LenProperties
  <2>2. IsFiniteSet(DOMAIN t) /\ Cardinality(DOMAIN t) = Len(t)
    <3>1. /\ IsFiniteSet(1..Len(t))
          /\ Cardinality(1..Len(t)) =
               IF 1 > Len(t) THEN 0 ELSE Len(t) - 1 + 1
      <4>1. 1 \in Int /\ Len(t) \in Int
        BY <2>1
      <4> QED BY <4>1, FS_Interval, Zenon
    <3> QED BY <2>1, <3>1
  <2>3. IsFiniteSet({n}) /\ Cardinality({n}) = 1
    BY FS_Singleton
  <2>4. /\ IsFiniteSet({n} \X DOMAIN t)
        /\ Cardinality({n} \X DOMAIN t) = Cardinality({n}) * Cardinality(DOMAIN t)
    BY <2>2, <2>3, FS_Product
  <2> QED BY <2>1, <2>2, <2>3, <2>4
<1>9. /\ IsFiniteSet(Old) /\ Cardinality(Old) = Len(d.attributes[n])
      /\ IsFiniteSet(New1) /\ Cardinality(New1) = Len(s)
      /\ Len(d.attributes[n]) \in Nat /\ Len(s) \in Nat
  BY <1>1, <1>8, LenProperties
<1> HIDE DEF A, Old, New1
<1>10. /\ Cardinality(A \cup Old) = Cardinality(A) + Cardinality(Old)
       /\ Cardinality(A \cup New1) = Cardinality(A) + Cardinality(New1)
  <2>1. /\ Cardinality(A \cup Old) =
             Cardinality(A) + Cardinality(Old) - Cardinality(A \cap Old)
        /\ Cardinality(A \cup New1) =
             Cardinality(A) + Cardinality(New1) - Cardinality(A \cap New1)
    BY <1>7, <1>9, FS_Union
  <2>2. Cardinality({}) = 0 /\ Cardinality(A) \in Nat
    BY <1>7, FS_EmptySet, FS_CardinalityType
  <2>3. Cardinality(A \cap Old) = 0 /\ Cardinality(A \cap New1) = 0
    BY <1>6, <2>2
  <2> QED BY <1>9, <2>1, <2>2, <2>3
<1>11. e.currentAllocs["attribute"] = Cardinality(A \cup New1)
  <2>1. d.currentAllocs["attribute"] = Cardinality(A \cup Old)
    BY <1>4 DEF Counted, CountedBut
  <2>2. e.currentAllocs["attribute"] =
          d.currentAllocs["attribute"] + Len(s) - Len(d.attributes[n])
    BY <1>1
  <2>3. Cardinality(A) \in Nat
    BY <1>7, FS_CardinalityType
  <2> QED BY <1>9, <1>10, <2>1, <2>2, <2>3
<1>12. /\ e.attributes \in [Node -> Seq(Attribute)]
       /\ e.currentAllocs \in [Pool -> Int]
       /\ \A j \in Pool \ {"attribute"} : e.currentAllocs[j] = d.currentAllocs[j]
  BY <1>1, <1>9
<1>13. \A m \in Node : e.kind[m] = "free" => e.attributes[m] = <<>>
  BY <1>1 DEF Counted, CountedBut
<1>14. CountedBut(e, {})
  BY <1>2, <1>3, <1>5, <1>11, <1>12, <1>13 DEF Counted, CountedBut
<1> QED BY <1>14 DEF Counted

LEMMA LeastNumber ==
  ASSUME NEW T \in SUBSET Nat, T # {}
  PROVE  \E k \in T : \A j \in T : k <= j
<1>1. PICK k \in T : \A j \in T : ~(<<j, k>> \in OpToRel(<, Nat))
  BY NatLessThanWellFounded, WFMin
<1>2. ASSUME NEW j \in T PROVE k <= j
  <2>1. j \in Nat /\ k \in Nat
    OBVIOUS
  <2>2. j < k => <<j, k>> \in OpToRel(<, Nat)
    BY <2>1 DEF OpToRel
  <2>3. ~(j < k)
    BY <1>1, <2>2, Zenon
  <2> QED BY <2>1, <2>3
<1> QED BY <1>2

LEMMA FoundAttribute ==
  ASSUME NEW d, NEW n, NEW name, d.attributes[n] \in Seq(Attribute)
  PROVE  FindAttribute(d, n, name) \in 0..Len(d.attributes[n])
<1> DEFINE found == {i \in DOMAIN d.attributes[n] :
                       d.attributes[n][i].name = name}
<1>1. /\ DOMAIN d.attributes[n] = 1..Len(d.attributes[n])
      /\ Len(d.attributes[n]) \in Nat
  BY LenProperties
<1>2. CASE found = {}
  BY <1>1, <1>2 DEF FindAttribute
<1>3. CASE found # {}
  <2>1. found \in SUBSET Nat /\ found \subseteq 1..Len(d.attributes[n])
    BY <1>1
  <2>2. FindAttribute(d, n, name) = Min(found)
    BY <1>3 DEF FindAttribute
  <2> HIDE DEF found
  <2>3. \E i \in found : \A j \in found : i <= j
    BY <1>3, <2>1, LeastNumber
  <2>4. Min(found) \in found
    BY <2>3 DEF Min
  <2>5. FindAttribute(d, n, name) \in 1..Len(d.attributes[n])
    BY <2>1, <2>2, <2>4, Zenon
  <2> QED BY <1>1, <2>5
<1> QED BY <1>2, <1>3

LEMMA SetAttributeCounted ==
  ASSUME NEW d, Sound(d), Counted(d), NEW n \in Allocated(d),
         NEW a \in Attribute
  PROVE  Counted(SetAttribute(d, n, a))
<1> DEFINE e == SetAttribute(d, n, a)
           t == d.attributes[n]
           i == FindAttribute(d, n, a.name)
<1>1. /\ d.attributes \in [Node -> Seq(Attribute)] /\ n \in Node
      /\ d.currentAllocs \in [Pool -> Int] /\ "attribute" \in Pool
      /\ t \in Seq(Attribute)
  BY DEF Counted, CountedBut, Allocated, Pool
<1>2. /\ i \in 0..Len(t) /\ Len(t) \in Nat /\ DOMAIN t = 1..Len(t)
  BY <1>1, FoundAttribute, LenProperties
<1>3. CASE i = 0
  <2>1. /\ e.kind = d.kind /\ e.parent = d.parent /\ e.value = d.value
        /\ e.untracked = d.untracked
        /\ e.attributes = [d.attributes EXCEPT ![n] = Append(t, a)]
        /\ e.currentAllocs = [d.currentAllocs EXCEPT !["attribute"] = @ + 1]
    BY <1>3 DEF Sound, SetAttribute, Fields
  <2>2. Append(t, a) \in Seq(Attribute) /\ Len(Append(t, a)) = Len(t) + 1
    BY <1>1, AppendProperties
  <2> HIDE DEF e, t, i
  <2>3. e.currentAllocs = [d.currentAllocs EXCEPT !["attribute"] =
                             @ + Len(Append(t, a)) - Len(d.attributes[n])]
    BY <1>1, <1>2, <2>1, <2>2 DEF t
  <2>4. Counted(e)
    BY <2>1, <2>2, <2>3, AttributesCounted
  <2> QED BY <2>4 DEF e
<1>4. CASE i # 0
  <2> DEFINE s == [t EXCEPT ![i] = a]
  <2>1. /\ e.kind = d.kind /\ e.parent = d.parent /\ e.value = d.value
        /\ e.untracked = d.untracked /\ e.currentAllocs = d.currentAllocs
        /\ e.attributes = [d.attributes EXCEPT ![n] = s]
    BY <1>4 DEF Sound, SetAttribute, Fields
  <2>2. s \in Seq(Attribute) /\ Len(s) = Len(t)
    BY <1>1, <1>2, <1>4, ExceptSeq
  <2> HIDE DEF e, t, i, s
  <2>3. e.currentAllocs = [d.currentAllocs EXCEPT !["attribute"] =
                             @ + Len(s) - Len(d.attributes[n])]
    BY <1>1, <1>2, <2>1, <2>2 DEF t
  <2>4. Counted(e)
    BY <2>1, <2>2, <2>3, AttributesCounted
  <2> QED BY <2>4 DEF e
<1> QED BY <1>3, <1>4

LEMMA DeleteAttributeCounted ==
  ASSUME NEW d, Sound(d), Counted(d), NEW n \in Allocated(d), NEW name
  PROVE  Counted(DeleteAttribute(d, n, name))
<1> DEFINE e == DeleteAttribute(d, n, name)
           t == d.attributes[n]
           i == FindAttribute(d, n, name)
<1>1. /\ d.attributes \in [Node -> Seq(Attribute)] /\ n \in Node
      /\ d.currentAllocs \in [Pool -> Int] /\ "attribute" \in Pool
      /\ t \in Seq(Attribute)
  BY DEF Counted, CountedBut, Allocated, Pool
<1>2. i \in 0..Len(t) /\ Len(t) \in Nat
  BY <1>1, FoundAttribute, LenProperties
<1>3. CASE i = 0
  BY <1>3 DEF DeleteAttribute
<1>4. CASE i # 0
  <2> DEFINE s == RemoveAt(t, i)
  <2>1. /\ e.kind = d.kind /\ e.parent = d.parent /\ e.value = d.value
        /\ e.untracked = d.untracked
        /\ e.attributes = [d.attributes EXCEPT ![n] = s]
        /\ e.currentAllocs = [d.currentAllocs EXCEPT !["attribute"] = @ - 1]
    BY <1>4 DEF Sound, DeleteAttribute, Fields
  <2>2. s \in Seq(Attribute) /\ Len(s) = Len(t) - 1
    <3>1. i \in 1..Len(t) /\ i - 1 \in Nat /\ i + 1 \in Int
      BY <1>2, <1>4
    <3> HIDE DEF i, t
    <3>0. \A j \in 1..Len(t) : t[j] \in Attribute
      BY <1>1, ElementOfSeq
    <3>2. SubSeq(t, 1, i - 1) \in Seq(Attribute) /\ Len(SubSeq(t, 1, i - 1)) = i - 1
      BY <1>2, <3>0, <3>1, SubSeqProperties
    <3>3. /\ SubSeq(t, i + 1, Len(t)) \in Seq(Attribute)
          /\ Len(SubSeq(t, i + 1, Len(t))) = Len(t) - i
      BY <1>2, <3>0, <3>1, SubSeqProperties
    <3>4. /\ s \in Seq(Attribute)
          /\ Len(s) = (i - 1) + (Len(t) - i)
      BY <3>2, <3>3, ConcatProperties DEF RemoveAt
    <3> QED BY <1>2, <3>1, <3>4
  <2> HIDE DEF e, t, i, s
  <2>3. e.currentAllocs = [d.currentAllocs EXCEPT !["attribute"] =
                             @ + Len(s) - Len(d.attributes[n])]
    BY <1>1, <1>2, <2>1, <2>2 DEF t
  <2>4. Counted(e)
    BY <2>1, <2>2, <2>3, AttributesCounted
  <2> QED BY <2>4 DEF e
<1> QED BY <1>3, <1>4

LEMMA InsertCounted ==
  ASSUME NEW d, Sound(d), Counted(d), NEW p \in {Document} \cup Elements(d),
         NEW x \in Allocated(d)
  PROVE  /\ Counted(InsertEndChild(d, p, x))
         /\ Counted(InsertFirstChild(d, p, x))
         /\ \A a : Counted(InsertAfterChild(d, p, a, x))
<1> DEFINE e == InsertChildPreamble(d, x)
<1>1. x \in Node /\ p \in Parent
  BY DEF Allocated, Elements, Parent
<1>2. Sound(e) /\ CountedBut(e, {x})
  BY <1>1, PreambleSound, PreambleCounted
<1> HIDE DEF e
<1>3. \A a, b : Counted(Linking(e, p, a, x, b))
  BY <1>1, <1>2, LinkingCounted
<1>4. Counted(InsertEndChild(d, p, x)) /\ Counted(InsertFirstChild(d, p, x))
  BY <1>3 DEF InsertEndChild, InsertFirstChild, e
<1>5. \A a : Counted(InsertAfterChild(d, p, a, x))
  BY <1>3, <1>4 DEF InsertAfterChild, e
<1> QED BY <1>4, <1>5

LEMMA DeleteNodeCounted ==
  ASSUME NEW d, Sound(d), Counted(d), NEW n \in Allocated(d)
  PROVE  Counted(DeleteNode(d, n))
<1> DEFINE e == InsertChildPreamble(d, n)
           U == Below(e, {n})
<1>1. /\ n \in Node /\ Sound(e) /\ e.kind = d.kind /\ CountedBut(e, {n})
  BY PreambleSound, PreambleCounted DEF Allocated
<1> HIDE DEF e
<1>2. {n} \in SUBSET Node
  BY <1>1
<1>3. {n} \subseteq U /\ \A y \in U \ {n} : y \in Linked(e)
  <2> HIDE DEF U
  <2> QED BY <1>2, BelowClosed DEF U
<1> HIDE DEF U
<1>4. Linked(e) \subseteq Allocated(e) /\ n \in Allocated(e)
  BY <1>1 DEF Sound, IsWellLinked, Allocated, Linked
<1>5. U \in SUBSET Allocated(e) /\ U \subseteq Linked(e) \cup {n}
  BY <1>3, <1>4
<1>6. Counted(Freed(e, U))
  BY <1>1, <1>3, <1>5, FreedCounted DEF Sound
<1> QED BY <1>6 DEF DeleteNode, e, U

LEMMA DeleteChildrenCounted ==
  ASSUME NEW d, Sound(d), Counted(d), NEW p \in Parent
  PROVE  Counted(DeleteChildren(d, p))
<1> DEFINE S == {n \in Node : d.parent[n] = p}
           U == Below(d, S)
           e == [d EXCEPT !.firstChild[p] = Null, !.lastChild[p] = Null]
<1>1. /\ DOMAIN e = Fields /\ PointersOK(e)
      /\ e.kind = d.kind /\ e.value = d.value /\ e.attributes = d.attributes
      /\ e.currentAllocs = d.currentAllocs /\ e.untracked = d.untracked
      /\ e.parent = d.parent
  BY DEF Sound, PointersOK, Fields
<1> HIDE DEF e
<1>2. Linked(e) = Linked(d) /\ Allocated(e) = Allocated(d)
  BY <1>1 DEF Linked, Allocated
<1>3. CountedBut(e, {})
  <2>1. e.value \in [Node -> Value \cup {Null}]
    BY <1>1 DEF Counted, CountedBut
  <2> QED BY <1>1, <1>2, <2>1, SameCount DEF Counted
<1>4. U \subseteq Linked(d)
  <2>1. S \in SUBSET Node /\ S \subseteq Linked(d)
    BY NodeAssumption DEF Linked
  <2> HIDE DEF S
  <2>2. \A y \in U \ S : y \in Linked(d)
    BY <2>1, BelowClosed
  <2> QED BY <2>1, <2>2
<1> HIDE DEF U
<1>5. Linked(d) \subseteq Allocated(d)
  BY DEF Sound, IsWellLinked, Allocated, Linked
<1>6. U \in SUBSET Allocated(e) /\ U \subseteq Linked(e) \cup {} /\ {} \subseteq U
  BY <1>2, <1>4, <1>5
<1>7. Counted(Freed(e, U))
  BY <1>1, <1>3, <1>6, FreedCounted
<1> QED BY <1>7 DEF DeleteChildren, e, U

LEMMA SetTextCounted ==
  ASSUME NEW d, Sound(d), Counted(d), Allocated(d) # Node,
         NEW p \in Elements(d), NEW v \in Value
  PROVE  Counted(SetText(d, p, v))
<1> DEFINE first == d.firstChild[p]
           made == New(d, "text", v)
<1>1. CASE first # Null /\ isText(d.kind[first])
  <2> DEFINE e == SetValue(d, first, v)
  <2>1. /\ e.kind = d.kind /\ e.attributes = d.attributes
        /\ e.currentAllocs = d.currentAllocs /\ e.untracked = d.untracked
        /\ e.parent = d.parent /\ e.value = [d.value EXCEPT ![first] = v]
    BY DEF Sound, SetValue, Fields
  <2> HIDE DEF e
  <2>2. Linked(e) = Linked(d)
    BY <2>1 DEF Linked
  <2>3. e.value \in [Node -> Value \cup {Null}]
    BY <2>1 DEF Counted, CountedBut
  <2>4. CountedBut(e, {})
    BY <2>1, <2>2, <2>3, SameCount DEF Counted
  <2> QED BY <1>1, <2>4 DEF SetText, Counted, e
<1>2. CASE ~(first # Null /\ isText(d.kind[first]))
  <2>1. "text" \in Kind
    BY DEF Kind
  <2>2. Sound(made) /\ p \in {Document} \cup Elements(made)
    BY <2>1, NewSound
  <2>3. Counted(made) /\ Fresh(d) \in Allocated(made)
    BY <2>1, NewCounted
  <2> HIDE DEF made
  <2>4. Counted(InsertFirstChild(made, p, Fresh(d)))
    BY <2>2, <2>3, InsertCounted
  <2> QED BY <1>2, <2>4 DEF SetText, made
<1> QED BY <1>1, <1>2

LEMMA ShallowCloneCounted ==
  ASSUME NEW d, Sound(d), Counted(d), Allocated(d) # Node,
         NEW n \in Allocated(d)
  PROVE  Counted(ShallowClone(d, n))
<1> DEFINE e == New(d, d.kind[n], d.value[n])
           f == ShallowClone(d, n)
           s == d.attributes[n]
           m == Fresh(d)
<1>1. /\ n \in Node /\ d.kind[n] \in Kind /\ d.value[n] \in Value \cup {Null}
      /\ s \in Seq(Attribute)
  BY DEF Allocated, Sound, PointersOK, Counted, CountedBut
<1>2. /\ Sound(e) /\ Counted(e) /\ e.attributes = d.attributes
      /\ m \in Allocated(e) \ Allocated(d)
  BY <1>1, NewSound, NewCounted
<1>3. /\ f.kind = e.kind /\ f.parent = e.parent /\ f.value = e.value
      /\ f.untracked = e.untracked
      /\ f.attributes = [e.attributes EXCEPT ![m] = s]
      /\ f.currentAllocs = [e.currentAllocs EXCEPT !["attribute"] = @ + Len(s)]
  <2>1. f = [e EXCEPT !.attributes[m] = s,
                      !.currentAllocs["attribute"] = @ + Len(s)]
    BY DEF ShallowClone
  <2>2. DOMAIN e = Fields
    BY <1>2 DEF Sound
  <2> HIDE DEF e, f, s, m
  <2> QED BY <2>1, <2>2 DEF Fields
<1> HIDE DEF e, f, m, s
<1>4. Len(e.attributes[m]) = 0
  BY <1>2, EmptySeq DEF Allocated, Counted, CountedBut
<1>5. /\ e.currentAllocs \in [Pool -> Int] /\ "attribute" \in Pool
      /\ Len(s) \in Nat
  BY <1>1, <1>2, LenProperties DEF Counted, CountedBut, Pool
<1>6. f.currentAllocs = [e.currentAllocs EXCEPT !["attribute"] =
                           @ + Len(s) - Len(e.attributes[m])]
  BY <1>3, <1>4, <1>5
<1>7. Counted(f)
  BY <1>1, <1>2, <1>3, <1>6, AttributesCounted
<1> QED BY <1>7 DEF f

-----------------------------------------------------------------------------
(* The document as a client edits it                                        *)

LEMMA EmptySound == Sound(Empty)
<1>1. DOMAIN Empty = Fields
  BY DEF Empty, Fields
<1>2. PointersOK(Empty)
  BY DEF Empty, NoCell, PointersOK
<1>3. IsWellLinked(Empty)
  BY DEF Empty, NoCell, IsWellLinked, Linked
<1> QED BY <1>1, <1>2, <1>3 DEF Sound

LEMMA EditSound ==
  ASSUME Sound(dom), Edit PROVE Sound(dom')
<1>1. CASE MakeNode
  <2>1. PICK c \in Made : Room(c.kind) /\ dom' = New(dom, c.kind, c.value)
    BY <1>1 DEF MakeNode
  <2>2. c.kind \in Kind /\ Allocated(dom) # Node
    BY <2>1, ValueAssumption DEF Room
  <2> QED BY <2>1, <2>2, NewSound
<1>2. CASE InsertEnd
  BY <1>2, InsertEndSound DEF InsertEnd, Holders
<1>3. CASE InsertFirst
  BY <1>3, InsertFirstSound DEF InsertFirst, Holders
<1>4. CASE InsertAfter
  BY <1>4, InsertAfterSound DEF InsertAfter
<1>5. CASE Delete
  <2>1. {Document} \cup Elements(dom) \subseteq Parent
    BY DEF Elements, Parent
  <2> QED BY <1>5, <2>1, DeleteNodeSound, DeleteChildrenSound DEF Delete
<1>6. CASE Write
  <2>1. ASSUME NEW e \in Elements(dom), NEW c \in Made, Room("text"),
               dom' = SetText(dom, e, c.value)
        PROVE  Sound(dom')
    BY <2>1, SetTextSound DEF Room
  <2>2. ASSUME NEW e, NEW a,
               \/ dom' = SetAttribute(dom, e, a)
               \/ dom' = DeleteAttribute(dom, e, a.name)
        PROVE  Sound(dom')
    BY <2>2, DataKeepsPointers, SamePointersSound
  <2> QED BY <1>6, <2>1, <2>2 DEF Write
<1>7. CASE Clone
  <2>1. PICK n \in Allocated(dom) :
          Room(dom.kind[n]) /\ dom' = ShallowClone(dom, n)
    BY <1>7 DEF Clone
  <2>2. dom.kind[n] \in Kind /\ Allocated(dom) # Node
    BY <2>1 DEF Room, Allocated, Sound, PointersOK
  <2> DEFINE e == New(dom, dom.kind[n], dom.value[n])
  <2>3. Sound(e)
    BY <2>2, NewSound
  <2>4. dom' = [e EXCEPT !.attributes[Fresh(dom)] = dom.attributes[n],
                         !.currentAllocs["attribute"] =
                           @ + Len(dom.attributes[n])]
    BY <2>1 DEF ShallowClone
  <2> HIDE DEF e
  <2>5. SamePointers(e, dom')
    BY <2>3, <2>4 DEF Sound, SamePointers, Fields
  <2> QED BY <2>3, <2>5, SamePointersSound
<1> QED BY <1>1, <1>2, <1>3, <1>4, <1>5, <1>6, <1>7 DEF Edit

LEMMA EmptyCounted == Counted(Empty)
<1>1. Allocated(Empty) = {}
  BY DEF Allocated, Empty
<1>2. \A k : NodesIn(Empty, k) = {}
  BY <1>1 DEF NodesIn
<1>3. AttributesOf(Empty, Allocated(Empty)) = {}
  BY <1>1, AttributePlaces
<1>4. <<>> \in Seq(Attribute) /\ Cardinality({}) = 0
  BY EmptySeq, FS_EmptySet
<1>5. /\ Empty.value = [n \in Node |-> Null]
      /\ Empty.attributes = [n \in Node |-> <<>>]
      /\ Empty.currentAllocs = [k \in Pool |-> 0]
      /\ Empty.untracked = [k \in Pool |-> 0]
  BY DEF Empty, NoCell
<1>6. "attribute" \in Pool
  BY DEF Pool
<1>7. \A k : NodesIn(Empty, k) \ (Linked(Empty) \cup {}) = {}
  BY <1>2
<1>8. /\ Empty.value \in [Node -> Value \cup {Null}]
      /\ Empty.attributes \in [Node -> Seq(Attribute)]
      /\ Empty.currentAllocs \in [Pool -> Int]
      /\ Empty.untracked \in [Pool -> Int]
      /\ \A n \in Node : Empty.attributes[n] = <<>>
      /\ \A k \in Pool : Empty.currentAllocs[k] = 0 /\ Empty.untracked[k] = 0
  BY <1>4, <1>5
<1>9. CountedBut(Empty, {})
  BY <1>2, <1>3, <1>4, <1>6, <1>7, <1>8 DEF CountedBut
<1> QED BY <1>9 DEF Counted

LEMMA EditCounted ==
  ASSUME Sound(dom), Counted(dom), Edit PROVE Counted(dom')
<1>0. Elements(dom) \subseteq Allocated(dom)
  BY DEF Elements, Allocated
<1>1. CASE MakeNode
  <2>1. PICK c \in Made : Room(c.kind) /\ dom' = New(dom, c.kind, c.value)
    BY <1>1 DEF MakeNode
  <2>2. c.kind \in Kind /\ c.value \in Value /\ Allocated(dom) # Node
    BY <2>1, ValueAssumption DEF Room
  <2> QED BY <2>1, <2>2, NewCounted
<1>2. CASE InsertEnd
  BY <1>2, InsertCounted DEF InsertEnd, Holders
<1>3. CASE InsertFirst
  BY <1>3, InsertCounted DEF InsertFirst, Holders
<1>4. CASE InsertAfter
  BY <1>4, InsertCounted DEF InsertAfter, Holders
<1>5. CASE Delete
  <2>1. {Document} \cup Elements(dom) \subseteq Parent
    BY DEF Elements, Parent
  <2> QED BY <1>5, <2>1, DeleteNodeCounted, DeleteChildrenCounted DEF Delete
<1>6. CASE Write
  <2>1. ASSUME NEW e \in Elements(dom), NEW c \in Made, Room("text"),
               dom' = SetText(dom, e, c.value)
        PROVE  Counted(dom')
    <3>1. c.value \in Value /\ Allocated(dom) # Node
      BY <2>1, ValueAssumption DEF Room
    <3> QED BY <2>1, <3>1, SetTextCounted
  <2>2. ASSUME NEW e \in Elements(dom), NEW a \in Attributes,
               \/ dom' = SetAttribute(dom, e, a)
               \/ dom' = DeleteAttribute(dom, e, a.name)
        PROVE  Counted(dom')
    <3>1. a \in Attribute /\ e \in Allocated(dom)
      BY <1>0, ValueAssumption
    <3> QED BY <2>2, <3>1, SetAttributeCounted, DeleteAttributeCounted
  <2> QED BY <1>6, <2>1, <2>2 DEF Write
<1>7. CASE Clone
  BY <1>7, ShallowCloneCounted DEF Clone, Room
<1> QED BY <1>1, <1>2, <1>3, <1>4, <1>5, <1>6, <1>7 DEF Edit

(* Whatever a client inserts, moves, deletes and clones, and in whatever     *)
(* order: the children of a node are a doubly linked list that names its     *)
(* ends and its parent, and no list leads to a node that was deleted.        *)
THEOREM ListsStayLinked == Spec => []WellLinked
<1>1. Init => Inv
  BY EmptySound DEF Init, Inv
<1>2. Inv /\ [Edit]_dom => Inv'
  BY EditSound DEF Inv
<1>3. Inv => WellLinked
  BY DEF Inv, Sound, WellLinked
<1> QED BY <1>1, <1>2, <1>3, PTL DEF Spec

CountInv == Sound(dom) /\ Counted(dom)

(* Whatever a client does, a pool has as many cells out as there are nodes   *)
(* or attributes of it, and takes as many for untracked as there are nodes   *)
(* in no list (MemPoolT::Alloc, Free, SetTracked): no operation forgets a    *)
(* subtree, an attribute, or that a node was put into the tree before.       *)
THEOREM PoolsAgree == Spec => []PoolsCount
<1>1. Init => CountInv
  BY EmptySound, EmptyCounted DEF Init, CountInv
<1>2. CountInv /\ [Edit]_dom => CountInv'
  BY EditSound, EditCounted DEF CountInv
<1>3. CountInv => PoolsCount
  BY CountedIsCounted
     DEF CountInv, Sound, PoolsCount, TypeOK, Counted, CountedBut
<1> QED BY <1>1, <1>2, <1>3, PTL DEF Spec

-----------------------------------------------------------------------------
(* The children of a node are a sequence                                    *)

\* s is the list of p.
IsList(d, p, s) ==
  /\ s \in Seq(Node)
  /\ \A i, j \in 1..Len(s) : s[i] = s[j] => i = j
  /\ \A n \in Node : d.parent[n] = p <=> \E i \in 1..Len(s) : s[i] = n
  /\ d.firstChild[p] = IF Len(s) = 0 THEN Null ELSE s[1]
  /\ \A i \in 1..Len(s) :
       d.next[s[i]] = IF i = Len(s) THEN Null ELSE s[i + 1]

\* Walking along next gives that list, and no other.
LEMMA TheList ==
  ASSUME NEW d, NEW p, NEW s, IsList(d, p, s)
  PROVE  ListOf(d, p) = s
<1> DEFINE C == {n \in Node : d.parent[n] = p}
           k == Len(s)
           Walks(f) == f = [i \in 1..k |-> IF i = 1 THEN d.firstChild[p]
                                           ELSE d.next[f[i - 1]]]
<1>1. /\ s \in Seq(Node) /\ k \in Nat /\ DOMAIN s = 1..k
      /\ s = [i \in 1..k |-> s[i]] /\ s \in [1..k -> Node]
  BY LenProperties DEF IsList
<1>2. CASE k = 0
  <2>1. s = <<>> /\ d.firstChild[p] = Null
    BY <1>1, <1>2, EmptySeq DEF IsList
  <2> QED BY <2>1 DEF ListOf
<1>3. CASE k # 0
  <2>1. d.firstChild[p] = s[1] /\ s[1] \in Node
    BY <1>1, <1>3 DEF IsList
  <2>2. Cardinality(C) = k
    <3>1. s \in [1..k -> C]
      BY <1>1 DEF IsList
    <3>2. s \in Bijection(1..k, C)
      BY <3>1 DEF IsList, Bijection, Injection, Surjection, IsInjective
    <3>3. ExistsBijection(1..k, C)
      BY <3>2 DEF ExistsBijection
    <3> HIDE DEF C, k
    <3> QED BY <1>1, <3>3, FS_CountingElements
  <2>3. Walks(s)
    <3>1. ASSUME NEW i \in 1..k
          PROVE  s[i] = IF i = 1 THEN d.firstChild[p] ELSE d.next[s[i - 1]]
      <4>1. CASE i = 1
        BY <2>1, <4>1
      <4>2. CASE i # 1
        <5>1. i - 1 \in 1..k /\ i - 1 # k /\ (i - 1) + 1 = i
          BY <1>1, <4>2
        <5>2. d.next[s[i - 1]] = s[(i - 1) + 1]
          BY <5>1 DEF IsList
        <5> QED BY <4>2, <5>1, <5>2
      <4> QED BY <4>1, <4>2
    <3> QED BY <1>1, <3>1
  <2>4. \A f : Walks(f) => f = s
    <3> SUFFICES ASSUME NEW f, Walks(f) PROVE f = s
      OBVIOUS
    <3>1. /\ f = [i \in 1..k |-> f[i]]
          /\ \A i \in 1..k : f[i] = IF i = 1 THEN d.firstChild[p]
                                    ELSE d.next[f[i - 1]]
      OBVIOUS
    <3>2. \A i \in 1..k : s[i] = IF i = 1 THEN d.firstChild[p]
                                 ELSE d.next[s[i - 1]]
      BY <2>3
    <3> DEFINE T == {i \in 1..k : f[i] # s[i]}
    <3>3. ASSUME T # {} PROVE FALSE
      <4>1. T \in SUBSET Nat
        BY <1>1
      <4> HIDE DEF T
      <4>2. PICK i \in T : \A j \in T : i <= j
        BY <3>3, <4>1, LeastNumber
      <4>3. i \in 1..k /\ f[i] # s[i] /\ \A j \in T : i <= j
        BY <4>2 DEF T
      <4>4. i # 1
        BY <3>1, <3>2, <4>3
      <4>5. i - 1 \in 1..k /\ i - 1 \notin T
        BY <1>1, <4>3, <4>4
      <4>6. f[i - 1] = s[i - 1]
        BY <4>5 DEF T
      <4>7. f[i] = d.next[f[i - 1]] /\ s[i] = d.next[s[i - 1]]
        BY <3>1, <3>2, <4>3, <4>4
      <4> QED BY <4>3, <4>6, <4>7, Zenon
    <3>4. \A i \in 1..k : f[i] = s[i]
      BY <3>3
    <3> HIDE DEF Walks
    <3> QED BY <1>1, <3>1, <3>4
  <2>5. ListOf(d, p) = CHOOSE f : Walks(f)
    <3>1. d.firstChild[p] # Null
      BY <2>1, NullIsNoNode
    <3>2. ListOf(d, p) =
            CHOOSE f : f = [i \in 1..Cardinality(C) |->
                              IF i = 1 THEN d.firstChild[p]
                              ELSE d.next[f[i - 1]]]
      BY <3>1 DEF ListOf
    <3> HIDE DEF C, k
    <3> QED BY <2>2, <3>2
  <2> HIDE DEF Walks
  <2> QED BY <2>3, <2>4, <2>5
<1> QED BY <1>2, <1>3

\* The list that the walk gives is the list.
Listed(d) == \A p \in Parent : IsList(d, p, ListOf(d, p))

LEMMA ListedBy ==
  ASSUME NEW d, \A p \in Parent : \E s : IsList(d, p, s)
  PROVE  Listed(d)
BY TheList DEF Listed

\* Nothing that the list of p is made of has changed.
LEMMA SameList ==
  ASSUME NEW d, NEW e, NEW p, NEW s, IsList(d, p, s),
         e.firstChild[p] = d.firstChild[p],
         \A n \in Node : e.parent[n] = p <=> d.parent[n] = p,
         \A n \in Node : d.parent[n] = p => e.next[n] = d.next[n]
  PROVE  IsList(e, p, s) /\ ListOf(e, p) = ListOf(d, p)
<1>1. /\ s \in Seq(Node) /\ Len(s) \in Nat
      /\ \A i \in 1..Len(s) : s[i] \in Node /\ d.parent[s[i]] = p
  BY LenProperties DEF IsList
<1>2. \A i \in 1..Len(s) : e.next[s[i]] = d.next[s[i]]
  BY <1>1
<1>3. IsList(e, p, s)
  BY <1>2 DEF IsList
<1> QED BY <1>3, TheList

\* Of two nodes of p, the one before is the same; S is who may move.
InOrder(s, t, S) ==
  /\ t \in Seq(Node) /\ IsInjective(t)
  /\ ToSet(t) \ S = ToSet(s) \ S
  /\ \A x, y \in ToSet(s) \ S : Forest!Before(t, x, y) <=> Forest!Before(s, x, y)

KeptBut(d, e, S) == \A p \in Parent : InOrder(ListOf(d, p), ListOf(e, p), S)

LEMMA KeptTwice ==
  ASSUME NEW d, NEW e, NEW f, NEW S, NEW T, NEW U,
         KeptBut(d, e, S), KeptBut(e, f, T), S \subseteq U, T \subseteq U
  PROVE  KeptBut(d, f, U)
<1> SUFFICES ASSUME NEW p \in Parent
             PROVE  InOrder(ListOf(d, p), ListOf(f, p), U)
  BY DEF KeptBut
<1> DEFINE s == ListOf(d, p)
           t == ListOf(e, p)
           u == ListOf(f, p)
<1>1. InOrder(s, t, S) /\ InOrder(t, u, T)
  BY DEF KeptBut
<1> HIDE DEF s, t, u
<1>2. ToSet(u) \ U = ToSet(s) \ U
  BY <1>1 DEF InOrder
<1>3. ASSUME NEW x \in ToSet(s) \ U, NEW y \in ToSet(s) \ U
      PROVE  Forest!Before(u, x, y) <=> Forest!Before(s, x, y)
  <2>1. /\ x \in ToSet(s) \ S /\ y \in ToSet(s) \ S
        /\ x \in ToSet(t) \ T /\ y \in ToSet(t) \ T
    BY <1>1 DEF InOrder
  <2> QED BY <1>1, <2>1 DEF InOrder
<1> QED BY <1>1, <1>2, <1>3 DEF InOrder, s, t, u

\* t is s without its k-th.
Without(s, t, k) ==
  /\ k \in 1..Len(s) /\ Len(s) = Len(t) + 1
  /\ \A i \in 1..Len(t) : t[i] = s[IF i < k THEN i ELSE i + 1]

LEMMA OneLess ==
  ASSUME NEW s \in Seq(Node), NEW t \in Seq(Node), NEW k, Without(s, t, k)
  PROVE  /\ IsInjective(s) => IsInjective(t)
         /\ \A n : n \in ToSet(s) <=> n = s[k] \/ n \in ToSet(t)
         /\ IsInjective(s) => s[k] \notin ToSet(t)
         /\ IsInjective(t) /\ s[k] \notin ToSet(t) => IsInjective(s)
         /\ \A x, y : x # s[k] /\ y # s[k] =>
              (Forest!Before(t, x, y) <=> Forest!Before(s, x, y))
<1> DEFINE up(i) == IF i < k THEN i ELSE i + 1
           down(j) == IF j < k THEN j ELSE j - 1
<1>1. /\ Len(s) \in Nat /\ Len(t) \in Nat /\ k \in 1..Len(s)
      /\ DOMAIN s = 1..Len(s) /\ DOMAIN t = 1..Len(t)
      /\ Len(s) = Len(t) + 1
      /\ \A i \in 1..Len(t) : t[i] = s[up(i)]
  BY LenProperties DEF Without
<1>2. /\ \A i \in 1..Len(t) : up(i) \in 1..Len(s) /\ up(i) # k /\ down(up(i)) = i
      /\ \A j \in 1..Len(s) : j # k => down(j) \in 1..Len(t) /\ up(down(j)) = j
      /\ \A i, j \in 1..Len(t) : i < j <=> up(i) < up(j)
      /\ \A i, j \in 1..Len(s) : i # k /\ j # k => (i < j <=> down(i) < down(j))
  BY <1>1
<1> HIDE DEF up, down
<1>3. \A j \in 1..Len(s) : j # k => s[j] = t[down(j)]
  BY <1>1, <1>2
<1>4. /\ \A n : n \in ToSet(s) <=> \E j \in 1..Len(s) : n = s[j]
      /\ \A n : n \in ToSet(t) <=> \E i \in 1..Len(t) : n = t[i]
  BY <1>1 DEF ToSet
<1>5. IsInjective(s) => IsInjective(t)
  BY <1>1, <1>2 DEF IsInjective
<1>6. ASSUME NEW n PROVE n \in ToSet(s) <=> n = s[k] \/ n \in ToSet(t)
  <2>1. ASSUME NEW j \in 1..Len(s), n = s[j] PROVE n = s[k] \/ n \in ToSet(t)
    BY <1>2, <1>3, <1>4, <2>1
  <2>2. ASSUME NEW i \in 1..Len(t), n = t[i] PROVE n \in ToSet(s)
    BY <1>1, <1>2, <1>4, <2>2
  <2> QED BY <1>1, <1>4, <2>1, <2>2
<1>7. ASSUME IsInjective(s), s[k] \in ToSet(t) PROVE FALSE
  <2>1. PICK i \in 1..Len(t) : s[k] = t[i]
    BY <1>4, <1>7
  <2>2. s[k] = s[up(i)] /\ up(i) \in DOMAIN s /\ k \in DOMAIN s /\ up(i) # k
    BY <1>1, <1>2, <2>1
  <2> QED BY <1>7, <2>2 DEF IsInjective
<1>8. ASSUME IsInjective(t), s[k] \notin ToSet(t) PROVE IsInjective(s)
  <2> SUFFICES ASSUME NEW i \in 1..Len(s), NEW j \in 1..Len(s), s[i] = s[j]
               PROVE  i = j
    BY <1>1 DEF IsInjective
  <2>1. CASE i = k \/ j = k
    BY <1>2, <1>3, <1>4, <1>8, <2>1
  <2>2. CASE i # k /\ j # k
    <3>1. t[down(i)] = t[down(j)] /\ down(i) \in 1..Len(t) /\ down(j) \in 1..Len(t)
      BY <1>2, <1>3, <2>2
    <3>2. down(i) = down(j)
      BY <1>1, <1>8, <3>1 DEF IsInjective
    <3> QED BY <1>2, <2>2, <3>2
  <2> QED BY <2>1, <2>2
<1>9. ASSUME NEW x, NEW y, x # s[k], y # s[k]
      PROVE  Forest!Before(t, x, y) <=> Forest!Before(s, x, y)
  <2>1. ASSUME NEW i \in DOMAIN t, NEW j \in DOMAIN t, i < j, t[i] = x, t[j] = y
        PROVE  Forest!Before(s, x, y)
    <3>1. /\ up(i) \in DOMAIN s /\ up(j) \in DOMAIN s /\ up(i) < up(j)
          /\ s[up(i)] = x /\ s[up(j)] = y
      BY <1>1, <1>2, <2>1
    <3> QED BY <3>1 DEF Forest!Before
  <2>2. ASSUME NEW i \in DOMAIN s, NEW j \in DOMAIN s, i < j, s[i] = x, s[j] = y
        PROVE  Forest!Before(t, x, y)
    <3>1. i # k /\ j # k
      BY <1>9, <2>2
    <3>2. /\ down(i) \in DOMAIN t /\ down(j) \in DOMAIN t /\ down(i) < down(j)
          /\ t[down(i)] = x /\ t[down(j)] = y
      BY <1>1, <1>2, <1>3, <2>2, <3>1
    <3> QED BY <3>2 DEF Forest!Before
  <2> QED BY <2>1, <2>2 DEF Forest!Before
<1> QED BY <1>5, <1>6, <1>7, <1>8, <1>9

LEMMA ListFacts ==
  ASSUME NEW d, NEW p, NEW s, IsList(d, p, s)
  PROVE  /\ s \in Seq(Node) /\ Len(s) \in Nat /\ IsInjective(s)
         /\ DOMAIN s = 1..Len(s)
         /\ \A i \in 1..Len(s) : s[i] \in Node /\ d.parent[s[i]] = p
         /\ ToSet(s) = {n \in Node : d.parent[n] = p}
<1>1. s \in Seq(Node) /\ Len(s) \in Nat /\ DOMAIN s = 1..Len(s)
  BY LenProperties DEF IsList
<1>2. ASSUME NEW i \in 1..Len(s)
      PROVE  s[i] \in Node /\ d.parent[s[i]] = p
  <2>1. s[i] \in Node
    BY <1>1, ElementOfSeq
  <2> QED BY <2>1 DEF IsList
<1>3. IsInjective(s)
  BY <1>1 DEF IsList, IsInjective
<1>4. ToSet(s) = {n \in Node : d.parent[n] = p}
  <2>1. \A n : n \in ToSet(s) <=> \E i \in 1..Len(s) : n = s[i]
    BY <1>1 DEF ToSet
  <2> QED BY <1>2, <2>1 DEF IsList
<1> QED BY <1>1, <1>2, <1>3, <1>4

\* An untouched list is in order.
LEMMA Untouched ==
  ASSUME NEW d, NEW p, NEW s, IsList(d, p, s), NEW S
  PROVE  InOrder(s, s, S)
BY ListFacts DEF InOrder

\* The k-th of the list of p leaves it.
LEMMA ListWithout ==
  ASSUME NEW d, NEW p, NEW s, IsList(d, p, s), NEW k \in 1..Len(s),
         NEW e, p # Null, p \in Parent,
         e.parent = [d.parent EXCEPT ![s[k]] = Null],
         DOMAIN d.parent = Node,
         e.firstChild[p] = IF k = 1 THEN d.next[s[k]] ELSE d.firstChild[p],
         \A n \in Node : e.next[n] =
           IF k # 1 /\ n = s[k - 1] THEN d.next[s[k]] ELSE d.next[n]
  PROVE  \E t : IsList(e, p, t) /\ Without(s, t, k)
<1> DEFINE m == Len(s) - 1
           up(i) == IF i < k THEN i ELSE i + 1
           t == [i \in 1..m |-> s[up(i)]]
<1>1. /\ s \in Seq(Node) /\ Len(s) \in Nat /\ m \in Nat
      /\ \A i \in 1..Len(s) : s[i] \in Node /\ d.parent[s[i]] = p
      /\ \A i, j \in 1..Len(s) : s[i] = s[j] => i = j
  BY ListFacts DEF IsList
<1>2. \A i \in 1..m : up(i) \in 1..Len(s) /\ up(i) # k
  BY <1>1
<1>3. t \in Seq(Node)
  BY <1>1, <1>2, IsASeq
<1>4. Len(t) = m
  BY <1>1, <1>3, LenProperties
<1>5. \A i \in 1..m : t[i] = s[up(i)]
  OBVIOUS
<1> HIDE DEF t
<1>6. Without(s, t, k)
  BY <1>1, <1>4, <1>5 DEF Without
<1>7. \A i, j \in 1..m : t[i] = t[j] => i = j
  BY <1>1, <1>2, <1>5
<1>8. ASSUME NEW n \in Node
      PROVE  e.parent[n] = p <=> \E i \in 1..m : t[i] = n
  <2>1. e.parent[n] = p <=> n # s[k] /\ d.parent[n] = p
    OBVIOUS
  <2>2. d.parent[n] = p <=> \E j \in 1..Len(s) : s[j] = n
    BY DEF IsList
  <2>3. ASSUME NEW j \in 1..Len(s), s[j] = n, n # s[k]
        PROVE  \E i \in 1..m : t[i] = n
    <3>1. CASE j < k
      BY <1>1, <1>5, <2>3, <3>1
    <3>2. CASE j > k
      <4>1. j - 1 \in 1..m /\ up(j - 1) = j
        BY <1>1, <3>2
      <4>2. t[j - 1] = s[j]
        BY <1>5, <4>1
      <4> QED BY <2>3, <4>1, <4>2
    <3> QED BY <1>1, <2>3, <3>1, <3>2
  <2>4. ASSUME NEW i \in 1..m, t[i] = n
        PROVE  n # s[k] /\ \E j \in 1..Len(s) : s[j] = n
    BY <1>1, <1>2, <1>5, <2>4
  <2> QED BY <2>1, <2>2, <2>3, <2>4
<1>9. d.next[s[k]] = IF k = Len(s) THEN Null ELSE s[k + 1]
  BY DEF IsList
<1>10. e.firstChild[p] = IF m = 0 THEN Null ELSE t[1]
  <2>1. d.firstChild[p] = s[1]
    BY <1>1 DEF IsList
  <2>2. CASE k = 1
    <3>1. e.firstChild[p] = d.next[s[k]]
      BY <2>2
    <3>2. m = 0 <=> k = Len(s)
      BY <1>1, <2>2
    <3>3. up(1) = k + 1
      BY <2>2
    <3>4. m # 0 => t[1] = s[k + 1]
      <4>1. m \in Nat
        BY <1>1
      <4>2. m # 0 => 1 \in 1..m
        <5> HIDE DEF m
        <5> QED BY ONLY <4>1
      <4> QED BY <1>5, <3>3, <4>2
    <3> QED BY <1>9, <3>1, <3>2, <3>4
  <2>3. CASE k # 1
    BY <1>1, <1>5, <2>1, <2>3
  <2> QED BY <2>2, <2>3
<1>11. ASSUME NEW i \in 1..m
       PROVE  e.next[t[i]] = IF i = m THEN Null ELSE t[i + 1]
  <2>1. t[i] = s[up(i)] /\ up(i) \in 1..Len(s) /\ t[i] \in Node
    BY <1>1, <1>2, <1>5
  <2>2. d.next[t[i]] = IF up(i) = Len(s) THEN Null ELSE s[up(i) + 1]
    BY <2>1 DEF IsList
  <2>3. i # m => t[i + 1] = s[up(i + 1)]
    <3>1. i # m => i + 1 \in 1..m
      BY <1>1
    <3> QED BY <1>5, <3>1
  <2>4. CASE i = k - 1
    <3>1. k # 1 /\ up(i) = i /\ t[i] = s[k - 1]
      BY <1>1, <2>1, <2>4
    <3>2. e.next[t[i]] = d.next[s[k]]
      BY <2>1, <3>1
    <3>3. i = m <=> k = Len(s)
      BY <1>1, <2>4
    <3>4. up(i + 1) = k + 1
      BY <1>1, <2>4
    <3> QED BY <1>9, <2>3, <3>2, <3>3, <3>4
  <2>5. CASE i # k - 1
    <3>1. up(i) # k - 1
      BY <1>1, <2>5
    <3>2. k # 1 => t[i] # s[k - 1]
      BY <1>1, <2>1, <3>1
    <3>3. e.next[t[i]] = d.next[t[i]]
      BY <2>1, <3>2
    <3>4. /\ i = m <=> up(i) = Len(s)
          /\ up(i + 1) = up(i) + 1
      BY <1>1, <2>5
    <3> QED BY <2>2, <2>3, <3>3, <3>4
  <2> QED BY <2>4, <2>5
<1>12. IsList(e, p, t)
  BY <1>3, <1>4, <1>7, <1>8, <1>10, <1>11 DEF IsList
<1> QED BY <1>6, <1>12

\* A node leaves its list.
LEMMA UnlinkListed ==
  ASSUME NEW d, Sound(d), Listed(d), NEW c \in Linked(d)
  PROVE  Listed(Unlink(d, c)) /\ KeptBut(d, Unlink(d, c), {c})
<1> DEFINE e == Unlink(d, c)
           q == d.parent[c]
           s == ListOf(d, q)
<1>1. /\ q \in Parent /\ c \in Node /\ q # Null
      /\ e.parent = [d.parent EXCEPT ![c] = Null]
      /\ e.firstChild = [d.firstChild EXCEPT
           ![q] = IF d.firstChild[q] = c THEN d.next[c] ELSE d.firstChild[q]]
      /\ \A n \in Node :
           e.next[n] = IF n = d.prev[c] THEN d.next[c] ELSE d.next[n]
  <2>1. q # Null /\ q \in Parent /\ c \in Node
    BY DEF Linked, Sound, PointersOK
  <2>2. /\ e.parent = [d.parent EXCEPT ![c] = Null]
        /\ e.firstChild = [d.firstChild EXCEPT
             ![q] = IF d.firstChild[q] = c THEN d.next[c] ELSE d.firstChild[q]]
        /\ e.next = [n \in Node |->
             IF n = d.prev[c] THEN d.next[c] ELSE d.next[n]]
    BY DEF Sound, Unlink, Unlinking, Fields
  <2> QED BY <2>1, <2>2
<1>2. /\ PointersOK(d) /\ IsWellLinked(d)
  BY DEF Sound
<1> HIDE DEF e, s
<1>3. IsList(d, q, s)
  BY <1>1 DEF Listed, s
<1>4. PICK k \in 1..Len(s) : s[k] = c
  BY <1>1, <1>3 DEF IsList
<1>5. /\ Len(s) \in Nat
      /\ \A i \in 1..Len(s) : s[i] \in Node /\ d.parent[s[i]] = q
  BY <1>3, ListFacts
<1>6. /\ k = 1 => d.prev[c] = Null
      /\ k # 1 => d.prev[c] = s[k - 1]
  <2>1. CASE k = 1
    <3>1. d.firstChild[q] = c
      BY <1>3, <1>4, <1>5, <2>1 DEF IsList
    <3>2. d.firstChild[q] # Null
      BY <1>1, <3>1, NullIsNoNode
    <3> QED BY <1>1, <1>2, <2>1, <3>1, <3>2 DEF IsWellLinked
  <2>2. CASE k # 1
    <3>1. k - 1 \in 1..Len(s) /\ k - 1 # Len(s) /\ (k - 1) + 1 = k
      BY <1>4, <1>5, <2>2
    <3>2. d.next[s[k - 1]] = c
      BY <1>3, <1>4, <3>1 DEF IsList
    <3>3. s[k - 1] \in Linked(d) /\ c # Null
      BY <1>1, <1>5, <3>1, NullIsNoNode DEF Linked
    <3> QED BY <1>2, <2>2, <3>2, <3>3 DEF IsWellLinked
  <2> QED BY <2>1, <2>2
<1>7. d.firstChild[q] = c <=> k = 1
  BY <1>3, <1>4, <1>5 DEF IsList
<1>8. PICK t : IsList(e, q, t) /\ Without(s, t, k)
  <2>1. e.firstChild[q] = IF k = 1 THEN d.next[s[k]] ELSE d.firstChild[q]
    BY <1>1, <1>2, <1>4, <1>7 DEF PointersOK
  <2>2. \A n \in Node : e.next[n] =
          IF k # 1 /\ n = s[k - 1] THEN d.next[s[k]] ELSE d.next[n]
    BY <1>1, <1>4, <1>6, NullIsNoNode
  <2>3. DOMAIN d.parent = Node /\ e.parent = [d.parent EXCEPT ![s[k]] = Null]
    BY <1>1, <1>2, <1>4 DEF PointersOK
  <2> QED BY <1>1, <1>3, <2>1, <2>2, <2>3, ListWithout
<1>9. ASSUME NEW p \in Parent, p # q
      PROVE  IsList(e, p, ListOf(d, p)) /\ ListOf(e, p) = ListOf(d, p)
  <2>1. IsList(d, p, ListOf(d, p)) /\ p # Null
    BY NodeAssumption DEF Listed
  <2>2. e.firstChild[p] = d.firstChild[p]
    BY <1>1, <1>2, <1>9 DEF PointersOK
  <2>3. \A n \in Node : e.parent[n] = p <=> d.parent[n] = p
    BY <1>1, <1>2, <1>9, <2>1 DEF PointersOK
  <2>4. ASSUME NEW n \in Node, d.parent[n] = p PROVE e.next[n] = d.next[n]
    <3>1. n # d.prev[c]
      BY <1>4, <1>5, <1>6, <1>9, <2>4, NullIsNoNode
    <3> QED BY <1>1, <3>1
  <2> QED BY <2>1, <2>2, <2>3, <2>4, SameList
<1>10. Listed(e)
  BY <1>8, <1>9, ListedBy
<1>11. ASSUME NEW p \in Parent
       PROVE  InOrder(ListOf(d, p), ListOf(e, p), {c})
  <2>1. CASE p # q
    <3>1. IsList(d, p, ListOf(d, p))
      BY DEF Listed
    <3> QED BY <1>9, <2>1, <3>1, Untouched
  <2>2. CASE p = q
    <3>1. ListOf(d, p) = s /\ ListOf(e, p) = t
      BY <1>8, <2>2, TheList DEF s
    <3>2. IsInjective(s) /\ s \in Seq(Node) /\ t \in Seq(Node)
      BY <1>3, <1>8, ListFacts
    <3>3. /\ IsInjective(t) /\ c \notin ToSet(t)
          /\ \A n : n \in ToSet(s) <=> n = c \/ n \in ToSet(t)
          /\ \A x, y : x # c /\ y # c =>
               (Forest!Before(t, x, y) <=> Forest!Before(s, x, y))
      BY <1>4, <1>8, <3>2, OneLess
    <3> QED BY <3>1, <3>2, <3>3 DEF InOrder
  <2> QED BY <2>1, <2>2
<1> QED BY <1>10, <1>11 DEF KeptBut, e

\* x goes behind the k-th of the list of p.
LEMMA ListWith ==
  ASSUME NEW d, NEW p, NEW s, IsList(d, p, s), NEW k \in 0..Len(s),
         NEW x \in Node, d.parent[x] # p, NEW e,
         e.parent = [d.parent EXCEPT ![x] = p],
         DOMAIN d.parent = Node,
         e.firstChild[p] = IF k = 0 THEN x ELSE d.firstChild[p],
         e.next[x] = IF k = Len(s) THEN Null ELSE s[k + 1],
         \A n \in Node \ {x} :
           e.next[n] = IF k # 0 /\ n = s[k] THEN x ELSE d.next[n]
  PROVE  \E t : IsList(e, p, t) /\ Without(t, s, k + 1) /\ t[k + 1] = x
<1> DEFINE m == Len(s) + 1
           down(i) == IF i <= k THEN i ELSE i - 1
           t == [i \in 1..m |-> IF i = k + 1 THEN x ELSE s[down(i)]]
<1>1. /\ s \in Seq(Node) /\ Len(s) \in Nat /\ m \in Nat /\ k \in Nat
      /\ k <= Len(s)
      /\ \A i \in 1..Len(s) : s[i] \in Node /\ d.parent[s[i]] = p /\ s[i] # x
      /\ \A i, j \in 1..Len(s) : s[i] = s[j] => i = j
  BY ListFacts DEF IsList
<1>2. \A i \in 1..m : i # k + 1 => down(i) \in 1..Len(s)
  BY <1>1
<1>3. t \in Seq(Node)
  BY <1>1, <1>2, IsASeq
<1>4. Len(t) = m
  BY <1>1, <1>3, LenProperties
<1>5. \A i \in 1..m : t[i] = IF i = k + 1 THEN x ELSE s[down(i)]
  OBVIOUS
<1> HIDE DEF t
<1>6. k + 1 \in 1..m /\ t[k + 1] = x
  BY <1>1, <1>5
<1>7. Without(t, s, k + 1)
  <2>1. ASSUME NEW i \in 1..Len(s)
        PROVE  s[i] = t[IF i < k + 1 THEN i ELSE i + 1]
    <3>1. CASE i < k + 1
      <4>1. i \in 1..m /\ i # k + 1 /\ down(i) = i
        BY <1>1, <3>1
      <4> QED BY <1>5, <3>1, <4>1
    <3>2. CASE ~(i < k + 1)
      <4>1. i + 1 \in 1..m /\ i + 1 # k + 1 /\ down(i + 1) = i
        BY <1>1, <3>2
      <4> QED BY <1>5, <3>2, <4>1
    <3> QED BY <3>1, <3>2
  <2> QED BY <1>1, <1>4, <1>6, <2>1 DEF Without
<1>8. \A i, j \in 1..m : t[i] = t[j] => i = j
  <2> SUFFICES ASSUME NEW i \in 1..m, NEW j \in 1..m, t[i] = t[j]
               PROVE  i = j
    OBVIOUS
  <2>1. CASE i = k + 1 \/ j = k + 1
    BY <1>1, <1>2, <1>5, <2>1
  <2>2. CASE i # k + 1 /\ j # k + 1
    <3>1. down(i) = down(j)
      BY <1>1, <1>2, <1>5, <2>2
    <3> QED BY <1>1, <2>2, <3>1
  <2> QED BY <2>1, <2>2
<1>9. ASSUME NEW n \in Node
      PROVE  e.parent[n] = p <=> \E i \in 1..m : t[i] = n
  <2>1. e.parent[n] = p <=> n = x \/ d.parent[n] = p
    OBVIOUS
  <2>2. d.parent[n] = p <=> \E j \in 1..Len(s) : s[j] = n
    BY DEF IsList
  <2>3. ASSUME NEW j \in 1..Len(s), s[j] = n
        PROVE  \E i \in 1..m : t[i] = n
    <3>1. t[IF j < k + 1 THEN j ELSE j + 1] = n
      BY <1>7, <2>3 DEF Without
    <3>2. (IF j < k + 1 THEN j ELSE j + 1) \in 1..m
      BY <1>1
    <3> QED BY <3>1, <3>2
  <2>4. ASSUME NEW i \in 1..m, t[i] = n
        PROVE  n = x \/ \E j \in 1..Len(s) : s[j] = n
    BY <1>2, <1>5, <2>4
  <2> QED BY <1>6, <2>1, <2>2, <2>3, <2>4
<1>10. e.firstChild[p] = IF m = 0 THEN Null ELSE t[1]
  <2>1. m # 0 /\ 1 \in 1..m
    BY <1>1
  <2>2. CASE k = 0
    BY <1>6, <2>1, <2>2
  <2>3. CASE k # 0
    <3>1. d.firstChild[p] = s[1]
      BY <1>1, <2>3 DEF IsList
    <3>2. 1 # k + 1 /\ down(1) = 1
      BY <1>1, <2>3
    <3> QED BY <1>5, <2>1, <2>3, <3>1, <3>2
  <2> QED BY <2>2, <2>3
<1>11. ASSUME NEW i \in 1..m
       PROVE  e.next[t[i]] = IF i = m THEN Null ELSE t[i + 1]
  <2>0. i # m => i + 1 \in 1..m
    BY <1>1
  <2>1. CASE i = k + 1
    <3>1. i = m <=> k = Len(s)
      BY <1>1, <2>1
    <3>2. i # m => t[i + 1] = s[k + 1]
      <4>1. i + 1 # k + 1 /\ down(i + 1) = k + 1
        BY <1>1, <2>1
      <4> QED BY <1>5, <2>0, <4>1
    <3> QED BY <1>6, <2>1, <3>1, <3>2
  <2>2. CASE i = k
    <3>1. t[i] = s[k] /\ t[i] \in Node \ {x} /\ k # 0
      <4>1. i # k + 1 /\ down(i) = k /\ k # 0 /\ k \in 1..Len(s)
        BY <1>1, <2>2
      <4> QED BY <1>1, <1>5, <4>1
    <3>2. i # m
      BY <1>1, <2>2
    <3> QED BY <1>6, <2>2, <3>1, <3>2
  <2>3. CASE i # k /\ i # k + 1
    <3> DEFINE j == down(i)
    <3>1. t[i] = s[j] /\ j \in 1..Len(s) /\ t[i] \in Node \ {x}
      BY <1>1, <1>2, <1>5, <2>3
    <3>2. j # k /\ (i = m <=> j = Len(s)) /\ down(i + 1) = j + 1 /\ i + 1 # k + 1
      BY <1>1, <2>3
    <3>3. k # 0 => t[i] # s[k]
      BY <1>1, <3>1, <3>2
    <3>4. e.next[t[i]] = d.next[s[j]]
      BY <3>1, <3>3
    <3>5. d.next[s[j]] = IF j = Len(s) THEN Null ELSE s[j + 1]
      BY <3>1 DEF IsList
    <3>6. i # m => t[i + 1] = s[j + 1]
      BY <1>5, <2>0, <3>2
    <3> HIDE DEF j
    <3> QED BY <3>2, <3>4, <3>5, <3>6
  <2> QED BY <2>1, <2>2, <2>3
<1>12. IsList(e, p, t)
  BY <1>3, <1>4, <1>8, <1>9, <1>10, <1>11 DEF IsList
<1> QED BY <1>6, <1>7, <1>12

\* Where the neighbours are in the list
LEMMA AdjacentPlace ==
  ASSUME NEW d, NEW p, NEW s, IsList(d, p, s), NEW a, NEW b,
         Adjacent(d, p, a, b)
  PROVE  \E k \in 0..Len(s) :
           /\ a = Null <=> k = 0
           /\ k # 0 => s[k] = a
           /\ b = IF k = Len(s) THEN Null ELSE s[k + 1]
<1>1. /\ Len(s) \in Nat /\ \A i \in 1..Len(s) : s[i] \in Node
      /\ d.firstChild[p] = IF Len(s) = 0 THEN Null ELSE s[1]
  BY ListFacts DEF IsList
<1>2. CASE a = Null
  <2>1. b = d.firstChild[p]
    BY <1>2 DEF Adjacent
  <2>2. 0 \in 0..Len(s)
    BY <1>1
  <2>3. b = IF 0 = Len(s) THEN Null ELSE s[0 + 1]
    BY <1>1, <2>1
  <2> QED BY <1>2, <2>2, <2>3
<1>3. CASE a # Null
  <2>1. d.next[a] = b /\ d.parent[a] = p /\ a \in Node
    BY <1>3 DEF Adjacent
  <2>2. PICK k \in 1..Len(s) : s[k] = a
    BY <2>1 DEF IsList
  <2>3. b = IF k = Len(s) THEN Null ELSE s[k + 1]
    BY <2>1, <2>2 DEF IsList
  <2>4. k \in 0..Len(s) /\ k # 0
    BY <1>1
  <2> QED BY <1>3, <2>2, <2>3, <2>4
<1> QED BY <1>2, <1>3

\* A node joins a list.
LEMMA LinkingListed ==
  ASSUME NEW d, Sound(d), Listed(d), NEW p \in Parent,
         NEW x \in Node \ Linked(d), NEW a, NEW b, Adjacent(d, p, a, b)
  PROVE  /\ Listed(Linking(d, p, a, x, b))
         /\ KeptBut(d, Linking(d, p, a, x, b), {x})
<1> DEFINE e == Linking(d, p, a, x, b)
           s == ListOf(d, p)
<1>1. /\ p # Null /\ x \in Node /\ d.parent[x] = Null /\ a # x
      /\ PointersOK(d)
  BY NullIsNoNode, NodeAssumption DEF Adjacent, Linked, Sound
<1>2. /\ e.parent = [d.parent EXCEPT ![x] = p]
      /\ e.firstChild = [d.firstChild EXCEPT
           ![p] = IF a = Null THEN x ELSE d.firstChild[p]]
      /\ e.next = [n \in Node |-> CASE n = x -> b [] n = a -> x
                                    [] OTHER -> d.next[n]]
  BY DEF Sound, Linking, Fields
<1> HIDE DEF e, s
<1>3. IsList(d, p, s)
  BY DEF Listed, s
<1>4. PICK k \in 0..Len(s) : /\ a = Null <=> k = 0
                             /\ k # 0 => s[k] = a
                             /\ b = IF k = Len(s) THEN Null ELSE s[k + 1]
  BY <1>3, AdjacentPlace
<1>5. PICK t : IsList(e, p, t) /\ Without(t, s, k + 1) /\ t[k + 1] = x
  <2>1. DOMAIN d.parent = Node /\ d.parent[x] # p
    BY <1>1 DEF PointersOK
  <2>2. e.firstChild[p] = IF k = 0 THEN x ELSE d.firstChild[p]
    BY <1>1, <1>2, <1>4 DEF PointersOK
  <2>3. e.next[x] = IF k = Len(s) THEN Null ELSE s[k + 1]
    BY <1>1, <1>2, <1>4
  <2>4. \A n \in Node \ {x} :
          e.next[n] = IF k # 0 /\ n = s[k] THEN x ELSE d.next[n]
    <3> SUFFICES ASSUME NEW n \in Node \ {x}
                 PROVE  e.next[n] = IF k # 0 /\ n = s[k] THEN x ELSE d.next[n]
      OBVIOUS
    <3>1. e.next[n] = IF n = a THEN x ELSE d.next[n]
      BY <1>2
    <3>2. n = a <=> k # 0 /\ n = s[k]
      BY <1>4, NullIsNoNode
    <3> QED BY <3>1, <3>2
  <2>5. e.parent = [d.parent EXCEPT ![x] = p]
    BY <1>2
  <2>6. k \in 0..Len(s) /\ x \in Node
    OBVIOUS
  <2> QED BY ONLY <1>3, <2>1, <2>2, <2>3, <2>4, <2>5, <2>6, ListWith
<1>6. ASSUME NEW q \in Parent, q # p
      PROVE  IsList(e, q, ListOf(d, q)) /\ ListOf(e, q) = ListOf(d, q)
  <2>1. IsList(d, q, ListOf(d, q)) /\ q # Null
    BY NodeAssumption DEF Listed
  <2>2. e.firstChild[q] = d.firstChild[q]
    BY <1>1, <1>2, <1>6 DEF PointersOK
  <2>3. \A n \in Node : e.parent[n] = q <=> d.parent[n] = q
    BY <1>1, <1>2, <1>6, <2>1 DEF PointersOK
  <2>4. ASSUME NEW n \in Node, d.parent[n] = q PROVE e.next[n] = d.next[n]
    <3>1. n # x
      BY <1>1, <2>1, <2>4
    <3>2. n # a
      BY <1>6, <2>4, NullIsNoNode DEF Adjacent
    <3> QED BY <1>2, <3>1, <3>2
  <2> QED BY <2>1, <2>2, <2>3, <2>4, SameList
<1>7. Listed(e)
  BY <1>5, <1>6, ListedBy
<1>8. ASSUME NEW q \in Parent
      PROVE  InOrder(ListOf(d, q), ListOf(e, q), {x})
  <2>1. CASE q # p
    <3>1. IsList(d, q, ListOf(d, q))
      BY DEF Listed
    <3> QED BY <1>6, <2>1, <3>1, Untouched
  <2>2. CASE q = p
    <3>1. ListOf(d, q) = s /\ ListOf(e, q) = t
      BY <1>5, <2>2, TheList DEF s
    <3>2. s \in Seq(Node) /\ t \in Seq(Node) /\ IsInjective(t)
      BY <1>3, <1>5, ListFacts
    <3>3. /\ \A n : n \in ToSet(t) <=> n = x \/ n \in ToSet(s)
          /\ \A y, z : y # x /\ z # x =>
               (Forest!Before(s, y, z) <=> Forest!Before(t, y, z))
      BY <1>5, <3>2, OneLess
    <3> QED BY <3>1, <3>2, <3>3 DEF InOrder
  <2> QED BY <2>1, <2>2
<1> QED BY <1>7, <1>8 DEF KeptBut, e

\* Nothing that follows pointers sees a difference.
LEMMA SamePointersListed ==
  ASSUME NEW d, Listed(d), NEW e,
         e.parent = d.parent, e.firstChild = d.firstChild, e.next = d.next
  PROVE  /\ Listed(e) /\ \A S : KeptBut(d, e, S)
         /\ \A p : ListOf(e, p) = ListOf(d, p)
<1>1. \A p : ListOf(e, p) = ListOf(d, p)
  BY DEF ListOf
<1>2. Listed(e)
  <2>1. ASSUME NEW p, NEW s, IsList(d, p, s) PROVE IsList(e, p, s)
    BY <2>1 DEF IsList
  <2> QED BY <1>1, <2>1 DEF Listed
<1>3. ASSUME NEW S, NEW p \in Parent
      PROVE  InOrder(ListOf(d, p), ListOf(e, p), S)
  BY <1>1, Untouched DEF Listed
<1> QED BY <1>1, <1>2, <1>3 DEF KeptBut

LEMMA CutListed ==
  ASSUME NEW d, Sound(d), Listed(d), NEW e, NEW U, NEW Q, IsCut(d, e, U, Q)
  PROVE  /\ Listed(e) /\ KeptBut(d, e, U)
         /\ \A p \in Q : ListOf(e, p) = <<>>
<1>0. /\ U \in SUBSET Node /\ Q \in SUBSET Parent
      /\ \A m \in Linked(d) : d.parent[m] \in Q <=> m \in U
      /\ e.parent = [n \in Node |-> IF n \in U THEN Null ELSE d.parent[n]]
      /\ e.next = [n \in Node |-> IF n \in U THEN Null ELSE d.next[n]]
      /\ e.firstChild =
           [q \in Parent |-> IF q \in Q THEN Null ELSE d.firstChild[q]]
  BY DEF IsCut
<1>1. ASSUME NEW p \in Q
      PROVE  /\ IsList(e, p, <<>>) /\ ListOf(e, p) = <<>>
             /\ ToSet(ListOf(d, p)) \subseteq U
  <2>1. p \in Parent /\ p # Null
    BY <1>0, NodeAssumption
  <2>2. \A n \in Node : e.parent[n] # p
    BY <1>0, <2>1 DEF Linked
  <2>3. IsList(e, p, <<>>)
    BY <1>0, <2>1, <2>2, EmptySeq DEF IsList
  <2>4. ToSet(ListOf(d, p)) = {n \in Node : d.parent[n] = p}
    BY <2>1, ListFacts DEF Listed
  <2>5. ToSet(ListOf(d, p)) \subseteq U
    BY <1>0, <2>1, <2>4 DEF Linked
  <2> QED BY <2>3, <2>5, TheList
<1>2. ASSUME NEW p \in Parent, p \notin Q
      PROVE  IsList(e, p, ListOf(d, p)) /\ ListOf(e, p) = ListOf(d, p)
  <2>1. IsList(d, p, ListOf(d, p)) /\ p # Null
    BY NodeAssumption DEF Listed
  <2>2. \A n \in Node : d.parent[n] = p => n \notin U
    BY <1>0, <1>2, <2>1 DEF Linked
  <2>3. e.firstChild[p] = d.firstChild[p]
    BY <1>0, <1>2
  <2>4. \A n \in Node : e.parent[n] = p <=> d.parent[n] = p
    BY <1>0, <2>1, <2>2
  <2>5. \A n \in Node : d.parent[n] = p => e.next[n] = d.next[n]
    BY <1>0, <2>2
  <2> QED BY <2>1, <2>3, <2>4, <2>5, SameList
<1>3. Listed(e)
  BY <1>1, <1>2, ListedBy
<1>4. ASSUME NEW p \in Parent
      PROVE  InOrder(ListOf(d, p), ListOf(e, p), U)
  <2>1. CASE p \in Q
    <3>1. /\ <<>> \in Seq(Node) /\ IsInjective(<<>>)
          /\ ToSet(<<>>) = {}
      BY EmptySeq DEF IsInjective, ToSet
    <3> QED BY <1>1, <2>1, <3>1 DEF InOrder
  <2>2. CASE p \notin Q
    <3>1. IsList(d, p, ListOf(d, p))
      BY DEF Listed
    <3> QED BY <1>2, <2>2, <3>1, Untouched
  <2> QED BY <2>1, <2>2
<1> QED BY <1>1, <1>3, <1>4 DEF KeptBut

-----------------------------------------------------------------------------
(* Every insertion puts one node in one place                               *)

LEMMA PreambleListed ==
  ASSUME NEW d, Sound(d), Listed(d), NEW x \in Node
  PROVE  LET e == InsertChildPreamble(d, x)
         IN Listed(e) /\ KeptBut(d, e, {x})
<1>1. CASE x \in Linked(d)
  BY <1>1, UnlinkListed DEF InsertChildPreamble
<1>2. CASE x \notin Linked(d)
  <2> DEFINE e == SetTracked(d, x)
  <2>1. e.parent = d.parent /\ e.firstChild = d.firstChild /\ e.next = d.next
    BY DataKeepsPointers DEF SamePointers
  <2> HIDE DEF e
  <2>2. Listed(e) /\ KeptBut(d, e, {x})
    BY <2>1, SamePointersListed
  <2> QED BY <1>2, <2>2 DEF InsertChildPreamble, e
<1> QED BY <1>1, <1>2

\* What the client sees of a node
SameContent(d, e) ==
  e.kind = d.kind /\ e.value = d.value /\ e.attributes = d.attributes

\* x is below p now, and nothing else has moved or changed.
Placed(d, e, p, x) ==
  /\ Listed(e) /\ KeptBut(d, e, {x}) /\ SameContent(d, e)
  /\ \A q \in Parent : x \in ToSet(ListOf(e, q)) <=> q = p

LEMMA PreambleContent ==
  ASSUME NEW d, Sound(d), NEW x
  PROVE  SameContent(d, InsertChildPreamble(d, x))
BY DEF InsertChildPreamble, SetTracked, Unlink, Unlinking, SameContent, Sound,
       Fields

\* The links around x say where it is in its list.
LEMMA PlaceInList ==
  ASSUME NEW d, NEW p, NEW s, IsList(d, p, s), NEW x \in Node, d.parent[x] = p
  PROVE  /\ d.firstChild[p] = x => Forest!IsFirst(x, s)
         /\ d.next[x] = Null => Forest!IsLast(x, s)
         /\ \A a \in Node : d.parent[a] = p /\ d.next[a] = x =>
              Forest!IsBehind(x, a, s)
<1>1. /\ Len(s) \in Nat /\ DOMAIN s = 1..Len(s)
      /\ \A i \in 1..Len(s) : s[i] \in Node
  BY ListFacts
<1>2. PICK k \in 1..Len(s) : s[k] = x
  BY DEF IsList
<1>3. x # Null
  BY NullIsNoNode
<1>4. d.firstChild[p] = x => Forest!IsFirst(x, s)
  <2>1. d.firstChild[p] = IF Len(s) = 0 THEN Null ELSE s[1]
    BY DEF IsList
  <2> QED BY <1>3, <2>1 DEF Forest!IsFirst
<1>5. ASSUME d.next[x] = Null PROVE Forest!IsLast(x, s)
  <2>1. k = Len(s)
    <3>1. CASE k # Len(s)
      <4>1. k + 1 \in 1..Len(s)
        BY <1>1, <3>1
      <4>2. d.next[x] = s[k + 1]
        BY <1>2, <3>1 DEF IsList
      <4> QED BY <1>1, <1>5, <4>1, <4>2, NullIsNoNode
    <3> QED BY <3>1
  <2> QED BY <1>2, <2>1 DEF Forest!IsLast
<1>6. ASSUME NEW a \in Node, d.parent[a] = p, d.next[a] = x
      PROVE  Forest!IsBehind(x, a, s)
  <2>1. PICK i \in 1..Len(s) : s[i] = a
    BY <1>6 DEF IsList
  <2>2. i # Len(s) /\ s[i + 1] = x
    BY <1>3, <1>6, <2>1 DEF IsList
  <2>3. i < Len(s)
    <3>1. Len(s) \in Nat
      BY <1>1
    <3> QED BY <2>2, <3>1
  <2> QED BY <1>1, <2>1, <2>2, <2>3 DEF Forest!IsBehind
<1> QED BY <1>4, <1>5, <1>6

LEMMA LinkingPlaces ==
  ASSUME NEW d, Sound(d), Listed(d), NEW x \in Node, NEW p \in Parent,
         NEW a, NEW b, Adjacent(InsertChildPreamble(d, x), p, a, b)
  PROVE  LET f == Linking(InsertChildPreamble(d, x), p, a, x, b)
         IN /\ Placed(d, f, p, x)
            /\ a = Null => Forest!IsFirst(x, ListOf(f, p))
            /\ b = Null => Forest!IsLast(x, ListOf(f, p))
            /\ a # Null => Forest!IsBehind(x, a, ListOf(f, p))
<1> DEFINE e == InsertChildPreamble(d, x)
           f == Linking(e, p, a, x, b)
<1>1. Sound(e) /\ x \notin Linked(e) /\ Listed(e) /\ KeptBut(d, e, {x})
  BY PreambleSound, PreambleListed
<1>2. SameContent(d, e)
  BY PreambleContent
<1> HIDE DEF e
<1>3. Listed(f) /\ KeptBut(e, f, {x})
  BY <1>1, LinkingListed DEF e
<1>4. SameContent(e, f) /\ f.parent = [e.parent EXCEPT ![x] = p]
  BY <1>1 DEF Linking, SameContent, Sound, Fields
<1>5. f.parent[x] = p
  BY <1>1, <1>4 DEF Sound, PointersOK
<1>10. /\ a = Null => f.firstChild[p] = x
       /\ f.next[x] = b
       /\ a # Null => a \in Node /\ f.parent[a] = p /\ f.next[a] = x
  <2>1. /\ f.firstChild = [e.firstChild EXCEPT
             ![p] = IF a = Null THEN x ELSE e.firstChild[p]]
        /\ f.next = [n \in Node |-> CASE n = x -> b [] n = a -> x
                                      [] OTHER -> e.next[n]]
    BY <1>1 DEF Linking, Sound, Fields
  <2>2. DOMAIN e.firstChild = Parent /\ DOMAIN e.parent = Node
    BY <1>1 DEF Sound, PointersOK
  <2>3. a # Null => a \in Node /\ e.parent[a] = p
    BY DEF Adjacent, e
  <2>4. a # Null => a # x
    BY <1>1, <2>3, NodeAssumption DEF Linked
  <2> HIDE DEF f
  <2>5. a = Null => f.firstChild[p] = x
    BY <2>1, <2>2
  <2>6. f.next[x] = b
    BY <2>1, <2>4, NullIsNoNode
  <2>7. ASSUME a # Null PROVE f.parent[a] = p /\ f.next[a] = x
    BY <1>4, <2>1, <2>2, <2>3, <2>4, <2>7
  <2> QED BY <2>3, <2>5, <2>6, <2>7
<1> HIDE DEF f
<1>6. KeptBut(d, f, {x})
  BY <1>1, <1>3, KeptTwice
<1>7. ASSUME NEW q \in Parent
      PROVE  x \in ToSet(ListOf(f, q)) <=> q = p
  <2>1. ToSet(ListOf(f, q)) = {n \in Node : f.parent[n] = q}
    BY <1>3, ListFacts DEF Listed
  <2> QED BY <1>5, <2>1
<1>8. SameContent(d, f)
  BY <1>2, <1>4 DEF SameContent
<1>9. Placed(d, f, p, x)
  BY <1>3, <1>6, <1>7, <1>8 DEF Placed
<1>11. /\ a = Null => Forest!IsFirst(x, ListOf(f, p))
       /\ b = Null => Forest!IsLast(x, ListOf(f, p))
       /\ a # Null => Forest!IsBehind(x, a, ListOf(f, p))
  <2>1. IsList(f, p, ListOf(f, p))
    BY <1>3 DEF Listed
  <2> QED BY <1>5, <1>10, <2>1, PlaceInList
<1> QED BY <1>9, <1>11 DEF e, f

LEMMA EndsAdjacent ==
  ASSUME NEW e, Sound(e), NEW p \in Parent
  PROVE  /\ Adjacent(e, p, e.lastChild[p], Null)
         /\ Adjacent(e, p, Null, e.firstChild[p])
         /\ \A a \in Linked(e) : e.parent[a] = p => Adjacent(e, p, a, e.next[a])
<1>1. /\ Adjacent(e, p, e.lastChild[p], Null)
      /\ Adjacent(e, p, Null, e.firstChild[p])
  BY NullIsNoNode DEF Adjacent, Sound, PointersOK, IsWellLinked
<1>2. ASSUME NEW a \in Linked(e), e.parent[a] = p
      PROVE  Adjacent(e, p, a, e.next[a])
  <2>1. a \in Node /\ a # Null
    BY NullIsNoNode DEF Linked
  <2> QED BY <1>2, <2>1 DEF Adjacent, Sound, PointersOK, IsWellLinked
<1> QED BY <1>1, <1>2

LEMMA InsertsPlace ==
  ASSUME NEW d, Sound(d), Listed(d), NEW x \in Node, NEW p \in Parent
  PROVE  /\ LET f == InsertEndChild(d, p, x)
            IN Placed(d, f, p, x) /\ Forest!IsLast(x, ListOf(f, p))
         /\ LET f == InsertFirstChild(d, p, x)
            IN Placed(d, f, p, x) /\ Forest!IsFirst(x, ListOf(f, p))
<1> DEFINE e == InsertChildPreamble(d, x)
           g == Linking(e, p, e.lastChild[p], x, Null)
           h == Linking(e, p, Null, x, e.firstChild[p])
<1>1. Sound(e)
  BY PreambleSound
<1>2. /\ Adjacent(e, p, e.lastChild[p], Null)
      /\ Adjacent(e, p, Null, e.firstChild[p])
  BY <1>1, EndsAdjacent
<1>3. Placed(d, g, p, x) /\ Forest!IsLast(x, ListOf(g, p))
  BY <1>2, LinkingPlaces
<1>4. Placed(d, h, p, x) /\ Forest!IsFirst(x, ListOf(h, p))
  BY <1>2, LinkingPlaces
<1>5. InsertEndChild(d, p, x) = g /\ InsertFirstChild(d, p, x) = h
  BY DEF InsertEndChild, InsertFirstChild
<1> HIDE DEF e, g, h
<1> QED BY <1>3, <1>4, <1>5

\* Behind the last one is at the end.
LEMMA InsertAfterPlaces ==
  ASSUME NEW d, Sound(d), Listed(d), NEW x \in Node, NEW p \in Parent,
         NEW a \in Linked(d) \ {x}, d.parent[a] = p
  PROVE  LET f == InsertAfterChild(d, p, a, x)
         IN Placed(d, f, p, x) /\ Forest!IsBehind(x, a, ListOf(f, p))
<1> DEFINE e == InsertChildPreamble(d, x)
           b == IF d.next[a] = Null THEN Null ELSE e.next[a]
           f == Linking(e, p, a, x, b)
<1>1. /\ Sound(e) /\ Linked(e) = Linked(d) \ {x}
      /\ \A n \in Node \ {x} : e.parent[n] = d.parent[n]
  BY PreambleSound
<1>2. a \in Node /\ a # Null /\ a \in Linked(e) /\ e.parent[a] = p
  BY <1>1, NullIsNoNode DEF Linked
<1>3. d.next[a] = Null => e.next[a] = Null /\ e.lastChild[p] = a
  <2> SUFFICES ASSUME d.next[a] = Null
               PROVE  e.next[a] = Null /\ e.lastChild[p] = a
    OBVIOUS
  <2>1. e.next[a] = Null
    BY <1>2, PreambleNext
  <2> QED BY <1>1, <1>2, <2>1 DEF Sound, IsWellLinked
<1>4. Adjacent(e, p, a, b)
  BY <1>1, <1>2, <1>3, EndsAdjacent
<1>5. Placed(d, f, p, x) /\ Forest!IsBehind(x, a, ListOf(f, p))
  BY <1>2, <1>4, LinkingPlaces
<1>6. InsertAfterChild(d, p, a, x) = f
  BY <1>3 DEF InsertAfterChild, InsertEndChild
<1> HIDE DEF e, f, b
<1> QED BY <1>5, <1>6

-----------------------------------------------------------------------------
(* What the client sees of the nodes                                        *)

Valued(d) == \A n \in Allocated(d) : d.value[n] \in Value

SameNode(d, e, n) ==
  /\ e.kind[n] = d.kind[n] /\ e.value[n] = d.value[n]
  /\ e.attributes[n] = d.attributes[n]

\* Of the nodes, n alone has been given a content, or keeps the one it has.
Filled(d, e, n) ==
  /\ e.kind[n] # "free" /\ e.value[n] \in Value
  /\ \A m \in Node \ {n} : SameNode(d, e, m)

\* The nodes U have gone, with their lists and from all others.
Gone(d, e, U) ==
  /\ Listed(e) /\ KeptBut(d, e, U)
  /\ \A p \in U : ListOf(e, p) = <<>>
  /\ \A m \in U : e.parent[m] = Null /\ e.kind[m] = "free"
  /\ \A m \in Node \ U : SameNode(d, e, m)

LEMMA ContentOfNode ==
  ASSUME NEW d, Sound(d), Counted(d), Valued(d), NEW n \in Node
  PROVE  IF d.kind[n] = "free" THEN NodeOf(d, n) = Null
         ELSE NodeOf(d, n) \in NodeContent /\ NodeOf(d, n) # Null
<1>1. CASE d.kind[n] = "free"
  BY <1>1 DEF NodeOf
<1>2. CASE d.kind[n] # "free"
  <2>1. d.kind[n] \in Kind /\ d.value[n] \in Value
        /\ d.attributes[n] \in Seq(Attribute)
    BY <1>2 DEF Sound, PointersOK, Valued, Allocated, Counted, CountedBut
  <2>2. NodeOf(d, n) \in NodeContent
    BY <1>2, <2>1 DEF NodeOf, NodeContent
  <2> QED BY <1>2, <2>2, ContentAssumption
<1> QED BY <1>1, <1>2

LEMMA NewFills ==
  ASSUME NEW d, Sound(d), Counted(d), Listed(d), Allocated(d) # Node,
         NEW k \in Kind, NEW v \in Value
  PROVE  /\ Filled(d, New(d, k, v), Fresh(d))
         /\ Fresh(d) \in Node /\ d.kind[Fresh(d)] = "free"
         /\ Listed(New(d, k, v)) /\ KeptBut(d, New(d, k, v), {})
         /\ \A p : ListOf(New(d, k, v), p) = ListOf(d, p)
         /\ New(d, k, v).kind[Fresh(d)] = k /\ New(d, k, v).value[Fresh(d)] = v
<1> DEFINE n == Fresh(d)
           e == New(d, k, v)
<1>1. n \in Node /\ d.kind[n] = "free"
  <2>1. \E m \in Node : d.kind[m] = "free"
    BY DEF Allocated
  <2> QED BY <2>1 DEF Fresh
<1>2. /\ e.kind = [d.kind EXCEPT ![n] = k]
      /\ e.value = [d.value EXCEPT ![n] = v]
      /\ e.attributes = d.attributes
      /\ e.parent = d.parent /\ e.firstChild = d.firstChild /\ e.next = d.next
  BY DEF Sound, New, Fields
<1> HIDE DEF n, e
<1>3. /\ e.kind[n] = k /\ e.value[n] = v
      /\ \A m \in Node \ {n} : SameNode(d, e, m)
  BY <1>1, <1>2 DEF SameNode, Sound, PointersOK, Counted, CountedBut
<1>4. k # "free"
  BY DEF Kind
<1>5. /\ Listed(e) /\ KeptBut(d, e, {})
      /\ \A p : ListOf(e, p) = ListOf(d, p)
  BY <1>2, SamePointersListed
<1>6. Filled(d, e, n)
  BY <1>3, <1>4 DEF Filled
<1> QED BY <1>1, <1>3, <1>5, <1>6 DEF n, e

LEMMA CloneFills ==
  ASSUME NEW d, Sound(d), Counted(d), Listed(d), Valued(d),
         Allocated(d) # Node, NEW n \in Allocated(d)
  PROVE  LET e == ShallowClone(d, n)
         IN /\ Filled(d, e, Fresh(d)) /\ Listed(e)
            /\ Fresh(d) \in Node \ Allocated(d)
            /\ NodeOf(e, Fresh(d)) = NodeOf(d, n)
            /\ \A p : ListOf(e, p) = ListOf(d, p)
<1> DEFINE m == Fresh(d)
           c == New(d, d.kind[n], d.value[n])
           e == ShallowClone(d, n)
<1>1. /\ d.kind[n] \in Kind /\ d.value[n] \in Value /\ n \in Node
      /\ d.kind[n] # "free"
  BY DEF Allocated, Sound, PointersOK, Valued
<1>2. /\ Filled(d, c, m) /\ m \in Node /\ Listed(c) /\ Sound(c) /\ Counted(c)
      /\ \A p : ListOf(c, p) = ListOf(d, p)
      /\ c.kind[m] = d.kind[n] /\ c.value[m] = d.value[n] /\ d.kind[m] = "free"
  BY <1>1, NewFills, NewSound, NewCounted
<1>3. /\ e.kind = c.kind /\ e.value = c.value
      /\ e.attributes = [c.attributes EXCEPT ![m] = d.attributes[n]]
      /\ e.parent = c.parent /\ e.firstChild = c.firstChild /\ e.next = c.next
  <2>1. e = [c EXCEPT !.attributes[m] = d.attributes[n],
                      !.currentAllocs["attribute"] = @ + Len(d.attributes[n])]
    BY DEF ShallowClone
  <2>2. DOMAIN c = Fields
    BY <1>2 DEF Sound
  <2> HIDE DEF c, e, m
  <2> QED BY <2>1, <2>2 DEF Fields
<1> HIDE DEF m, c, e
<1>4. Listed(e) /\ \A p : ListOf(e, p) = ListOf(c, p)
  BY <1>2, <1>3, SamePointersListed
<1>5. \A i \in Node \ {m} : e.attributes[i] = c.attributes[i]
  BY <1>2, <1>3 DEF Counted, CountedBut
<1>6. Filled(d, e, m)
  BY <1>2, <1>3, <1>5 DEF Filled, SameNode
<1>7. e.attributes[m] = d.attributes[n]
  BY <1>2, <1>3 DEF Counted, CountedBut
<1>8. NodeOf(e, m) = NodeOf(d, n)
  BY <1>1, <1>2, <1>3, <1>7 DEF NodeOf
<1>9. m \in Node \ Allocated(d)
  BY <1>2 DEF Allocated
<1> QED BY <1>2, <1>4, <1>6, <1>8, <1>9 DEF m, e

\* SetValue, SetAttribute and DeleteAttribute: the content of one node
LEMMA WritesFill ==
  ASSUME NEW d, Sound(d), Counted(d), Listed(d), Valued(d),
         NEW n \in Allocated(d), NEW e, SamePointers(d, e),
         \A m \in Node \ {n} : SameNode(d, e, m), e.value[n] \in Value
  PROVE  /\ Filled(d, e, n) /\ Listed(e)
         /\ \A p : ListOf(e, p) = ListOf(d, p)
<1>1. Listed(e) /\ \A p : ListOf(e, p) = ListOf(d, p)
  BY SamePointersListed DEF SamePointers
<1>2. e.kind[n] # "free"
  BY DEF SamePointers, Allocated
<1> QED BY <1>1, <1>2 DEF Filled

LEMMA AttributesFill ==
  ASSUME NEW d, Sound(d), Counted(d), Listed(d), Valued(d),
         NEW n \in Allocated(d), NEW a, NEW e,
         e = SetAttribute(d, n, a) \/ e = DeleteAttribute(d, n, a)
  PROVE  /\ Filled(d, e, n) /\ Listed(e)
         /\ \A p : ListOf(e, p) = ListOf(d, p)
<1>1. SamePointers(d, e)
  BY DataKeepsPointers
<1>2. n \in Node /\ d.attributes \in [Node -> Seq(Attribute)]
  BY DEF Allocated, Counted, CountedBut
<1>3. e.value = d.value /\ \A m \in Node \ {n} : e.attributes[m] = d.attributes[m]
  <2>1. CASE e = SetAttribute(d, n, a)
    BY <1>2, <2>1 DEF SetAttribute, Sound, Fields
  <2>2. CASE e = DeleteAttribute(d, n, a)
    BY <1>2, <2>2 DEF DeleteAttribute, Sound, Fields
  <2> QED BY <2>1, <2>2
<1>4. \A m \in Node \ {n} : SameNode(d, e, m)
  BY <1>1, <1>3 DEF SameNode, SamePointers
<1>5. e.value[n] \in Value
  BY <1>3 DEF Valued
<1> QED BY <1>1, <1>4, <1>5, WritesFill

\* A text that was there gets the new value; a new one goes to the front.
TextSet(d, e, p) ==
  \/ /\ d.firstChild[p] \in Allocated(d)
     /\ Filled(d, e, d.firstChild[p])
     /\ \A q : ListOf(e, q) = ListOf(d, q)
  \/ \E n \in Node \ Allocated(d) :
       /\ Filled(d, e, n) /\ KeptBut(d, e, {n})
       /\ \A q \in Parent : n \in ToSet(ListOf(e, q)) <=> q = p
       /\ Forest!IsFirst(n, ListOf(e, p))

LEMMA SetTextFills ==
  ASSUME NEW d, Sound(d), Counted(d), Listed(d), Valued(d),
         Allocated(d) # Node, NEW p \in Elements(d), NEW v \in Value,
         NEW e, e = SetText(d, p, v)
  PROVE  Listed(e) /\ TextSet(d, e, p)
<1> DEFINE first == d.firstChild[p]
           made == New(d, "text", v)
<1>0. p \in Parent /\ "text" \in Kind
  BY DEF Elements, Parent, Kind
<1>1. CASE first # Null /\ isText(d.kind[first])
  <2>1. e = SetValue(d, first, v)
    BY <1>1 DEF SetText
  <2>2. first \in Node /\ first \in Allocated(d)
    BY <1>0, <1>1 DEF Sound, PointersOK, isText, Allocated
  <2>3. SamePointers(d, SetValue(d, first, v))
    BY DataKeepsPointers
  <2> HIDE DEF first
  <2>4. /\ e.attributes = d.attributes /\ e.kind = d.kind
        /\ e.value = [d.value EXCEPT ![first] = v]
    BY <2>1 DEF SetValue, Sound, Fields
  <2>5. /\ e.value[first] = v
        /\ \A m \in Node \ {first} : SameNode(d, e, m)
    BY <2>2, <2>4 DEF SameNode, Counted, CountedBut
  <2>6. /\ Filled(d, e, first) /\ Listed(e)
        /\ \A q : ListOf(e, q) = ListOf(d, q)
    BY <2>1, <2>2, <2>3, <2>5, WritesFill
  <2> QED BY <2>2, <2>6 DEF TextSet, first
<1>2. CASE ~(first # Null /\ isText(d.kind[first]))
  <2> DEFINE n == Fresh(d)
  <2>1. e = InsertFirstChild(made, p, n)
    BY <1>2 DEF SetText
  <2>2. /\ Sound(made) /\ Filled(d, made, n) /\ Listed(made)
        /\ KeptBut(d, made, {}) /\ n \in Node /\ n \notin Allocated(d)
    BY <1>0, NewSound, NewFills DEF Allocated
  <2> HIDE DEF made, n
  <2>3. Placed(made, e, p, n) /\ Forest!IsFirst(n, ListOf(e, p))
    BY <1>0, <2>1, <2>2, InsertsPlace
  <2>4. Listed(e) /\ KeptBut(d, e, {n})
    BY <2>2, <2>3, KeptTwice DEF Placed
  <2>5. Filled(d, e, n)
    BY <2>2, <2>3 DEF Filled, Placed, SameContent, SameNode
  <2> QED BY <2>2, <2>3, <2>4, <2>5 DEF Placed, TextSet
<1> QED BY <1>1, <1>2

LEMMA FreedNodes ==
  ASSUME NEW d, Sound(d), d.value \in [Node -> Value \cup {Null}],
         d.attributes \in [Node -> Seq(Attribute)], NEW U \in SUBSET Node
  PROVE  /\ \A m \in U : Freed(d, U).kind[m] = "free"
         /\ \A m \in Node \ U : SameNode(d, Freed(d, U), m)
<1> DEFINE e == Freed(d, U)
<1>1. /\ e.kind = [m \in Node |-> IF m \in U THEN "free" ELSE d.kind[m]]
      /\ e.value = [m \in Node |-> IF m \in U THEN Null ELSE d.value[m]]
      /\ e.attributes = [m \in Node |-> IF m \in U THEN <<>>
                                        ELSE d.attributes[m]]
  BY DEF Sound, PointersOK, Freed, Fields
<1> HIDE DEF e
<1> QED BY <1>1 DEF SameNode, e

\* A delete of which the nodes U go
LEMMA CutGone ==
  ASSUME NEW d, NEW e, NEW f, NEW X, NEW U, NEW Q,
         Sound(e), Listed(e), KeptBut(d, e, X), X \subseteq U,
         IsCut(e, f, U, Q),
         \A m \in Node \ U : SameNode(d, f, m)
  PROVE  Gone(d, f, U)
<1>1. Listed(f) /\ KeptBut(e, f, U) /\ \A p \in Q : ListOf(f, p) = <<>>
  BY CutListed
<1>2. KeptBut(d, f, U)
  BY <1>1, KeptTwice
<1>3. /\ U \in SUBSET Node /\ U \subseteq Q
      /\ f.kind = [n \in Node |-> IF n \in U THEN "free" ELSE e.kind[n]]
      /\ f.parent = [n \in Node |-> IF n \in U THEN Null ELSE e.parent[n]]
  BY DEF IsCut
<1>4. \A m \in U : f.parent[m] = Null /\ f.kind[m] = "free"
  BY <1>3
<1> QED BY <1>1, <1>2, <1>3, <1>4 DEF Gone

LEMMA DeleteNodeGone ==
  ASSUME NEW d, Sound(d), Counted(d), Listed(d), NEW n \in Node
  PROVE  Gone(d, DeleteNode(d, n), Below(InsertChildPreamble(d, n), {n}))
<1> DEFINE e == InsertChildPreamble(d, n)
           U == Below(e, {n})
           f == DeleteNode(d, n)
<1>1. Sound(e) /\ n \in U /\ IsCut(e, f, U, U)
  BY DeleteNodeCut
<1>2. Listed(e) /\ KeptBut(d, e, {n})
  BY PreambleListed
<1>3. SameContent(d, e)
  BY PreambleContent
<1>4. f = Freed(e, U)
  BY DEF DeleteNode
<1> HIDE DEF e, f, U
<1>5. U \in SUBSET Node /\ {n} \subseteq U
  BY <1>1 DEF IsCut
<1>6. /\ e.value \in [Node -> Value \cup {Null}]
      /\ e.attributes \in [Node -> Seq(Attribute)]
  BY <1>3 DEF SameContent, Counted, CountedBut
<1>7. \A m \in Node \ U : SameNode(e, f, m)
  BY <1>1, <1>4, <1>5, <1>6, FreedNodes
<1>8. \A m \in Node \ U : SameNode(d, f, m)
  BY <1>3, <1>7 DEF SameNode, SameContent
<1>9. Gone(d, f, U)
  BY <1>1, <1>2, <1>5, <1>8, CutGone
<1> QED BY <1>9 DEF e, f, U

LEMMA DeleteChildrenGone ==
  ASSUME NEW d, Sound(d), Counted(d), Listed(d), NEW p \in Parent
  PROVE  Gone(d, DeleteChildren(d, p), Below(d, {n \in Node : d.parent[n] = p}))
<1> DEFINE U == Below(d, {n \in Node : d.parent[n] = p})
           c == [d EXCEPT !.firstChild[p] = Null, !.lastChild[p] = Null]
           f == DeleteChildren(d, p)
<1>1. IsCut(d, f, U, U \cup {p})
  BY DeleteChildrenCut
<1>2. f = Freed(c, U)
  BY DEF DeleteChildren
<1>3. /\ c.kind = d.kind /\ c.value = d.value /\ c.attributes = d.attributes
      /\ DOMAIN c = Fields
  BY DEF Sound, Fields
<1> HIDE DEF f, U
<1>4. U \in SUBSET Node
  BY <1>1 DEF IsCut
<1>5. \A m \in Node \ U : SameNode(d, f, m)
  <2>1. /\ f.kind = [m \in Node |-> IF m \in U THEN "free" ELSE d.kind[m]]
        /\ f.value = [m \in Node |-> IF m \in U THEN Null ELSE d.value[m]]
        /\ f.attributes = [m \in Node |-> IF m \in U THEN <<>>
                                          ELSE d.attributes[m]]
    <3> HIDE DEF c
    <3>1. /\ DOMAIN c.kind = Node /\ DOMAIN c.value = Node
          /\ DOMAIN c.attributes = Node
      BY <1>3 DEF Sound, PointersOK, Counted, CountedBut
    <3> QED BY <1>2, <1>3, <3>1 DEF Freed, Fields
  <2> QED BY <2>1 DEF SameNode
<1>6. KeptBut(d, d, {}) /\ {} \subseteq U
  <2>1. \A q \in Parent : InOrder(ListOf(d, q), ListOf(d, q), {})
    BY Untouched DEF Listed
  <2> QED BY <2>1 DEF KeptBut
<1>7. Gone(d, f, U)
  BY <1>1, <1>5, <1>6, CutGone
<1> QED BY <1>7 DEF f, U

-----------------------------------------------------------------------------
(* Every operation is one of the forest                                     *)

ForestInv == Sound(dom) /\ Counted(dom) /\ Listed(dom) /\ Valued(dom)

LEMMA ForestView ==
  ASSUME ForestInv
  PROVE  /\ Forest!Parent = Parent /\ Forest!Alive = Allocated(dom)
         /\ \A n \in Node : NodeOf(dom, n) = Null <=> n \notin Allocated(dom)
<1>1. \A n \in Node : NodeOf(dom, n) = Null <=> n \notin Allocated(dom)
  BY ContentOfNode DEF ForestInv, Allocated
<1>2. Forest!Alive = Allocated(dom)
  BY <1>1 DEF Forest!Alive, Allocated
<1>3. Forest!Parent = Parent
  BY DEF Forest!Parent, Parent
<1> QED BY <1>1, <1>2, <1>3

\* The subtrees of the forest are those that the links make; e is the document
\* when nodes of S have left their lists.
LEMMA SameBelow ==
  ASSUME ForestInv, NEW S \in SUBSET Allocated(dom), NEW e,
         Linked(e) \subseteq Linked(dom), Linked(dom) \ Linked(e) \subseteq S,
         \A m \in Linked(e) : e.parent[m] = dom.parent[m]
  PROVE  Forest!Below(S) = Below(e, S)
<1> DEFINE A == Allocated(dom)
           W == Forest!Below(S)
           U == Below(e, S)
           kids(n) == {y \in Node : dom.parent[y] = n}
           Shut(T) == S \subseteq T /\ \A n \in T : kids(n) \subseteq T
<1>1. \A n \in A : ToSet(ListOf(dom, n)) = kids(n)
  <2>1. A \subseteq Parent
    BY DEF Allocated, Parent
  <2> QED BY <2>1, ListFacts DEF ForestInv, Listed
<1>2. \A x : x \in W <=> x \in A /\ \A T \in SUBSET A : Shut(T) => x \in T
  <2> DEFINE lists == [p \in Parent |-> ListOf(dom, p)]
             under == [n \in A |-> Forest!ToSet(lists[n])]
  <2>1. W = {x \in A : \A T \in SUBSET A :
               (S \subseteq T /\ \A n \in T : under[n] \subseteq T) => x \in T}
    BY ForestView, Zenon DEF Forest!Below
  <2>2. \A n \in A : under[n] = kids(n)
    <3>1. A \subseteq Parent
      BY DEF Allocated, Parent
    <3>2. \A n \in A : lists[n] = ListOf(dom, n)
      BY <3>1
    <3>3. \A s : Forest!ToSet(s) = ToSet(s)
      BY DEF Forest!ToSet, ToSet
    <3> QED BY <1>1, <3>2, <3>3
  <2>3. \A T \in SUBSET A :
          (\A n \in T : under[n] \subseteq T) <=> \A n \in T : kids(n) \subseteq T
    <3> HIDE DEF under, kids, A
    <3> QED BY <2>2
  <2> HIDE DEF W, A, kids, under
  <2> QED BY <2>1, <2>3
<1>3. /\ U \in SUBSET Node /\ S \subseteq U
      /\ \A m \in Linked(e) : e.parent[m] \in U => m \in U
      /\ \A y \in U \ S : y \in Linked(e) /\ e.parent[y] \in U
  <2>1. S \in SUBSET Node
    BY DEF Allocated
  <2> HIDE DEF U
  <2> QED BY <2>1, BelowClosed DEF U
<1>4. \A x : x \in U <=> /\ x \in S \cup Linked(e)
                         /\ \A T \in SUBSET (S \cup Linked(e)) :
                              (S \subseteq T /\ \A n \in Linked(e) :
                                 e.parent[n] \in T => n \in T) => x \in T
  BY DEF Below
<1>5. Linked(dom) \subseteq A
  BY DEF ForestInv, Sound, IsWellLinked, Linked, Allocated
<1> HIDE DEF W, U
<1>6. ASSUME NEW x \in W PROVE x \in U
  <2>1. U \in SUBSET A
    BY <1>3, <1>5
  <2>2. ASSUME NEW n \in U, NEW y \in kids(n) PROVE y \in U
    <3>1. y \in Linked(dom) /\ dom.parent[y] = n
      BY <1>3, NodeAssumption DEF Linked, Parent
    <3> QED BY <1>3, <3>1
  <2>3. Shut(U)
    BY <1>3, <2>2
  <2> QED BY <1>2, <2>1, <2>3
<1>7. ASSUME NEW x \in U PROVE x \in W
  <2>1. /\ S \subseteq W
        /\ \A n \in W : kids(n) \subseteq W
    <3>1. S \subseteq W
      BY <1>2
    <3>2. ASSUME NEW n \in W, NEW y \in kids(n) PROVE y \in W
      <4>1. n \in A /\ y \in A
        <5>1. n \in A /\ n # Null
          BY <1>2, NullIsNoNode DEF Allocated
        <5>2. y \in Linked(dom)
          BY <5>1 DEF Linked
        <5> QED BY <1>5, <5>1, <5>2
      <4>2. ASSUME NEW T \in SUBSET A, Shut(T) PROVE y \in T
        BY <1>2, <4>2
      <4> QED BY <1>2, <4>1, <4>2
    <3> QED BY <3>1, <3>2
  <2> DEFINE T == W \cap (S \cup Linked(e))
  <2>2. \A m \in Linked(e) : e.parent[m] \in T => m \in T
    <3> SUFFICES ASSUME NEW m \in Linked(e), e.parent[m] \in W
                 PROVE  m \in W
      OBVIOUS
    <3>1. m \in kids(e.parent[m])
      BY DEF Linked
    <3> QED BY <2>1, <3>1
  <2>3. S \subseteq T /\ T \in SUBSET (S \cup Linked(e))
    BY <2>1
  <2> HIDE DEF T
  <2>4. x \in T
    BY <1>4, <2>2, <2>3
  <2> QED BY <2>4 DEF T
<1> QED BY <1>6, <1>7 DEF W, U

LEMMA KeptMaps ==
  ASSUME NEW S, KeptBut(dom, dom', S)
  PROVE  Forest!KeepAllBut(S)
<1>1. \A s : Forest!ToSet(s) = ToSet(s)
  BY DEF Forest!ToSet, ToSet
<1>2. \A s : Forest!IsInjective(s) <=> IsInjective(s)
  BY DEF Forest!IsInjective, IsInjective
<1>3. ASSUME NEW p \in Parent
      PROVE  LET old == ListOf(dom, p)
                 new == ListOf(dom', p)
             IN /\ new \in Seq(Node) /\ Forest!IsInjective(new)
                /\ Forest!ToSet(new) \ S = Forest!ToSet(old) \ S
                /\ \A x, y \in Forest!ToSet(old) \ S :
                     Forest!Before(new, x, y) <=> Forest!Before(old, x, y)
  BY <1>1, <1>2 DEF KeptBut, InOrder
<1>4. Forest!Parent = Parent
  BY DEF Forest!Parent, Parent
<1> QED BY <1>3, <1>4 DEF Forest!KeepAllBut

LEMMA PlaceMaps ==
  ASSUME NEW p \in Parent, NEW x \in Node, KeptBut(dom, dom', {x}),
         \A q \in Parent : x \in ToSet(ListOf(dom', q)) <=> q = p
  PROVE  Forest!Place(p, x)
<1>1. Forest!KeepAllBut({x})
  BY KeptMaps
<1> QED BY <1>1 DEF Forest!Place, Forest!Parent, Parent, Forest!ToSet, ToSet

LEMMA SameListsMap ==
  ASSUME \A p : ListOf(dom', p) = ListOf(dom, p)
  PROVE  UNCHANGED [p \in Parent |-> ListOf(dom, p)]
OBVIOUS

LEMMA SameNodesMap ==
  ASSUME \A n \in Node : SameNode(dom, dom', n)
  PROVE  /\ \A n \in Node : NodeOf(dom', n) = NodeOf(dom, n)
         /\ UNCHANGED [n \in Node |-> NodeOf(dom, n)]
<1>1. \A n \in Node : NodeOf(dom', n) = NodeOf(dom, n)
  BY DEF SameNode, NodeOf
<1> QED BY <1>1

LEMMA FilledMaps ==
  ASSUME ForestInv, Sound(dom'), Counted(dom'), NEW n \in Node,
         Filled(dom, dom', n)
  PROVE  Valued(dom') /\ Forest!Fill(n)
<1>1. Valued(dom')
  BY DEF Valued, Filled, SameNode, ForestInv, Allocated
<1>2. \A m \in Node \ {n} : NodeOf(dom', m) = NodeOf(dom, m)
  BY DEF Filled, SameNode, NodeOf
<1>3. NodeOf(dom', n) \in NodeContent
  <2>1. PICK u : u = dom'
    OBVIOUS
  <2>2. Sound(u) /\ Counted(u) /\ Valued(u) /\ u.kind[n] # "free"
    BY <1>1, <2>1 DEF Filled
  <2>3. NodeOf(u, n) \in NodeContent
    BY <2>2, ContentOfNode
  <2> QED BY <2>1, <2>3
<1> DEFINE old == [m \in Node |-> NodeOf(dom, m)]
           new == [m \in Node |-> NodeOf(dom', m)]
<1>4. new[n] \in NodeContent
  BY <1>3
<1>5. new = [old EXCEPT ![n] = new[n]]
  BY <1>2
<1>6. Forest!Fill(n)
  BY <1>4, <1>5 DEF Forest!Fill
<1> QED BY <1>1, <1>6

\* A step that writes one node and moves none
LEMMA FillStep ==
  ASSUME ForestInv, Sound(dom'), Counted(dom'), NEW n \in Node,
         Filled(dom, dom', n), \A p : ListOf(dom', p) = ListOf(dom, p)
  PROVE  /\ Valued(dom')
         /\ n \in Allocated(dom) => Forest!SetContent(n)
         /\ n \notin Allocated(dom) => Forest!NewNode(n)
<1>1. UNCHANGED [p \in Parent |-> ListOf(dom, p)]
  BY SameListsMap
<1>2. Valued(dom') /\ Forest!Fill(n)
  BY FilledMaps
<1> QED BY <1>1, <1>2, ForestView DEF Forest!SetContent, Forest!NewNode

\* A step that moves one node
LEMMA PlaceStep ==
  ASSUME ForestInv, NEW x \in Allocated(dom),
         NEW p \in {Document} \cup Elements(dom), Placed(dom, dom', p, x)
  PROVE  /\ Valued(dom') /\ Forest!Place(p, x)
         /\ UNCHANGED [n \in Node |-> NodeOf(dom, n)]
<1>1. x \in Node /\ p \in Parent
  BY DEF Allocated, Elements, Parent
<1>2. UNCHANGED [n \in Node |-> NodeOf(dom, n)]
  BY SameNodesMap DEF Placed, SameContent, SameNode
<1>3. Forest!Place(p, x)
  BY <1>1, PlaceMaps DEF Placed
<1>4. Valued(dom')
  BY DEF Placed, SameContent, Valued, Allocated, ForestInv
<1> QED BY <1>2, <1>3, <1>4

LEMMA InsertStep ==
  ASSUME ForestInv, NEW x \in Allocated(dom),
         NEW p \in {Document} \cup Elements(dom)
  PROVE  /\ dom' = InsertEndChild(dom, p, x) =>
              Listed(dom') /\ Valued(dom') /\ Forest!InsertEndChild(p, x)
         /\ dom' = InsertFirstChild(dom, p, x) =>
              Listed(dom') /\ Valued(dom') /\ Forest!InsertFirstChild(p, x)
<1>0. x \in Node /\ p \in Parent /\ Sound(dom) /\ Listed(dom)
  BY DEF Allocated, Elements, Parent, ForestInv
<1>1. ASSUME dom' = InsertEndChild(dom, p, x)
      PROVE  Listed(dom') /\ Valued(dom') /\ Forest!InsertEndChild(p, x)
  <2>1. Placed(dom, dom', p, x) /\ Forest!IsLast(x, ListOf(dom', p))
    BY <1>0, <1>1, InsertsPlace
  <2>2. /\ Valued(dom') /\ Forest!Place(p, x)
        /\ UNCHANGED [n \in Node |-> NodeOf(dom, n)]
    BY <2>1, PlaceStep
  <2>3. [q \in Parent |-> ListOf(dom', q)][p] = ListOf(dom', p)
    BY <1>0
  <2> QED BY <2>1, <2>2, <2>3 DEF Forest!InsertEndChild, Placed
<1>2. ASSUME dom' = InsertFirstChild(dom, p, x)
      PROVE  Listed(dom') /\ Valued(dom') /\ Forest!InsertFirstChild(p, x)
  <2>1. Placed(dom, dom', p, x) /\ Forest!IsFirst(x, ListOf(dom', p))
    BY <1>0, <1>2, InsertsPlace
  <2>2. /\ Valued(dom') /\ Forest!Place(p, x)
        /\ UNCHANGED [n \in Node |-> NodeOf(dom, n)]
    BY <2>1, PlaceStep
  <2>3. [q \in Parent |-> ListOf(dom', q)][p] = ListOf(dom', p)
    BY <1>0
  <2> QED BY <2>1, <2>2, <2>3 DEF Forest!InsertFirstChild, Placed
<1> QED BY <1>1, <1>2

LEMMA InsertAfterStep ==
  ASSUME ForestInv, NEW x \in Allocated(dom), NEW a \in Linked(dom) \ {x},
         NEW p \in {Document} \cup Elements(dom), dom.parent[a] = p,
         dom' = InsertAfterChild(dom, p, a, x)
  PROVE  Listed(dom') /\ Valued(dom') /\ Forest!InsertAfterChild(p, a, x)
<1>0. x \in Node /\ p \in Parent /\ Sound(dom) /\ Listed(dom)
  BY DEF Allocated, Elements, Parent, ForestInv
<1>1. Placed(dom, dom', p, x) /\ Forest!IsBehind(x, a, ListOf(dom', p))
  BY <1>0, InsertAfterPlaces
<1>2. /\ Valued(dom') /\ Forest!Place(p, x)
      /\ UNCHANGED [n \in Node |-> NodeOf(dom, n)]
  BY <1>1, PlaceStep
<1>3. [q \in Parent |-> ListOf(dom', q)][p] = ListOf(dom', p)
  BY <1>0
<1> QED BY <1>1, <1>2, <1>3 DEF Forest!InsertAfterChild, Placed

LEMMA CloneStep ==
  ASSUME ForestInv, Sound(dom'), Counted(dom'), NEW n \in Allocated(dom),
         Room(dom.kind[n]), dom' = ShallowClone(dom, n)
  PROVE  /\ Listed(dom') /\ Valued(dom') /\ Fresh(dom) \in Node
         /\ Forest!ShallowClone(n, Fresh(dom))
<1> DEFINE m == Fresh(dom)
           old == [i \in Node |-> NodeOf(dom, i)]
           new == [i \in Node |-> NodeOf(dom', i)]
<1>1. /\ Filled(dom, dom', m) /\ Listed(dom') /\ m \in Node \ Allocated(dom)
      /\ NodeOf(dom', m) = NodeOf(dom, n)
      /\ \A p : ListOf(dom', p) = ListOf(dom, p)
  BY CloneFills DEF Room, ForestInv
<1>2. UNCHANGED [p \in Parent |-> ListOf(dom, p)]
  BY <1>1, SameListsMap
<1>3. Valued(dom')
  BY <1>1, FilledMaps
<1>4. n \in Node /\ \A i \in Node \ {m} : NodeOf(dom', i) = NodeOf(dom, i)
  BY <1>1 DEF Filled, SameNode, NodeOf, Allocated
<1>5. new = [old EXCEPT ![m] = old[n]]
  BY <1>1, <1>4
<1>6. m \notin Forest!Alive
  BY <1>1, ForestView
<1> QED BY <1>1, <1>2, <1>3, <1>5, <1>6 DEF Forest!ShallowClone

\* A step that deletes S and all below
LEMMA DeleteStep ==
  ASSUME ForestInv, NEW S \in SUBSET Allocated(dom), NEW U,
         S \subseteq U, U \in SUBSET Node,
         U = Forest!Below(S), Gone(dom, dom', U)
  PROVE  Valued(dom') /\ Forest!Delete(S)
<1>1. /\ Listed(dom') /\ KeptBut(dom, dom', U)
      /\ \A p \in U : ListOf(dom', p) = <<>>
      /\ \A m \in U : dom'.parent[m] = Null /\ dom'.kind[m] = "free"
      /\ \A m \in Node \ U : SameNode(dom, dom', m)
  BY DEF Gone
<1>2. \A m \in Node :
        NodeOf(dom', m) = IF m \in U THEN Null ELSE NodeOf(dom, m)
  BY <1>1 DEF NodeOf, SameNode
<1>3. [m \in Node |-> NodeOf(dom', m)] =
        [m \in Node |-> IF m \in U THEN Null
                        ELSE [i \in Node |-> NodeOf(dom, i)][m]]
  BY <1>2
<1>4. ASSUME NEW p \in Parent
      PROVE  IF p \in U THEN ListOf(dom', p) = <<>>
             ELSE Forest!ToSet(ListOf(dom', p)) \cap U = {}
  <2>1. PICK u : u = dom'
    OBVIOUS
  <2>2. ToSet(ListOf(u, p)) = {n \in Node : u.parent[n] = p}
    BY <1>1, <2>1, ListFacts DEF Listed
  <2>3. p # Null
    BY NodeAssumption
  <2>4. ToSet(ListOf(dom', p)) \cap U = {}
    BY <1>1, <2>1, <2>2, <2>3
  <2> QED BY <1>1, <2>4 DEF Forest!ToSet, ToSet
<1>5. Forest!KeepAllBut(U)
  BY <1>1, KeptMaps
<1>6. Valued(dom')
  BY <1>1 DEF Valued, Allocated, SameNode, ForestInv
<1>7. Forest!Parent = Parent
  BY DEF Forest!Parent, Parent
<1>8. Forest!Delete(S)
  BY <1>3, <1>4, <1>5, <1>7 DEF Forest!Delete
<1> QED BY <1>6, <1>8

LEMMA DeleteNodeStep ==
  ASSUME ForestInv, NEW n \in Allocated(dom), dom' = DeleteNode(dom, n)
  PROVE  Listed(dom') /\ Valued(dom') /\ Forest!DeleteNode(n)
<1> DEFINE e == InsertChildPreamble(dom, n)
           U == Below(e, {n})
<1>1. n \in Node /\ {n} \in SUBSET Allocated(dom) /\ {n} \in SUBSET Node
  BY DEF Allocated
<1>2. Gone(dom, dom', U)
  BY <1>1, DeleteNodeGone DEF ForestInv
<1>3. /\ Linked(e) = Linked(dom) \ {n}
      /\ \A m \in Node \ {n} : e.parent[m] = dom.parent[m]
  BY <1>1, PreambleSound DEF ForestInv
<1> HIDE DEF e
<1>4. \A m \in Linked(e) : e.parent[m] = dom.parent[m]
  BY <1>3 DEF Linked
<1>5. U = Forest!Below({n})
  BY <1>1, <1>3, <1>4, SameBelow
<1>6. U \in SUBSET Node /\ {n} \subseteq U
  BY <1>1, BelowClosed
<1> HIDE DEF U
<1>7. Valued(dom') /\ Forest!Delete({n})
  BY <1>1, <1>2, <1>5, <1>6, DeleteStep
<1> QED BY <1>2, <1>7 DEF Gone, Forest!DeleteNode

LEMMA DeleteChildrenStep ==
  ASSUME ForestInv, NEW p \in {Document} \cup Elements(dom),
         dom' = DeleteChildren(dom, p)
  PROVE  Listed(dom') /\ Valued(dom') /\ Forest!DeleteChildren(p)
<1> DEFINE S == {n \in Node : dom.parent[n] = p}
           U == Below(dom, S)
<1>1. p \in Parent /\ p \in Allocated(dom) \cup {Document}
  BY DEF Elements, Parent, Allocated
<1>2. S \in SUBSET Allocated(dom) /\ S \in SUBSET Node
  BY <1>1, NodeAssumption
     DEF ForestInv, Sound, IsWellLinked, Linked, Allocated
<1>3. Gone(dom, dom', U)
  BY <1>1, DeleteChildrenGone DEF ForestInv
<1>4. S = ToSet(ListOf(dom, p))
  BY <1>1, ListFacts DEF ForestInv, Listed
<1> HIDE DEF S
<1>5. U = Forest!Below(S)
  BY <1>2, SameBelow
<1>6. U \in SUBSET Node /\ S \subseteq U
  BY <1>2, BelowClosed
<1> HIDE DEF U
<1>7. Valued(dom') /\ Forest!Delete(S)
  BY <1>2, <1>3, <1>5, <1>6, DeleteStep
<1>8. S = Forest!ToSet([q \in Parent |-> ListOf(dom, q)][p])
  BY <1>1, <1>4 DEF Forest!ToSet, ToSet
<1> QED BY <1>3, <1>7, <1>8 DEF Gone, Forest!DeleteChildren

LEMMA SetTextStep ==
  ASSUME ForestInv, Sound(dom'), Counted(dom'), Allocated(dom) # Node,
         NEW p \in Elements(dom), NEW v \in Value, dom' = SetText(dom, p, v)
  PROVE  Listed(dom') /\ Valued(dom') /\ Forest!SetText(p)
<1> DEFINE first == dom.firstChild[p]
<1>0. p \in Parent
  BY DEF Elements, Parent
<1>1. /\ Listed(dom')
      /\ \/ /\ first \in Allocated(dom) /\ Filled(dom, dom', first)
            /\ \A q : ListOf(dom', q) = ListOf(dom, q)
         \/ \E n \in Node \ Allocated(dom) :
              /\ Filled(dom, dom', n) /\ KeptBut(dom, dom', {n})
              /\ \A q \in Parent : n \in ToSet(ListOf(dom', q)) <=> q = p
              /\ Forest!IsFirst(n, ListOf(dom', p))
  <2>1. PICK e : e = dom'
    OBVIOUS
  <2>2. Sound(dom) /\ Counted(dom) /\ Listed(dom) /\ Valued(dom)
    BY DEF ForestInv
  <2>3. Listed(e) /\ TextSet(dom, e, p)
    BY <2>1, <2>2, SetTextFills
  <2> QED BY <2>1, <2>3 DEF TextSet
<1>2. ASSUME first \in Allocated(dom), Filled(dom, dom', first),
             \A q : ListOf(dom', q) = ListOf(dom, q)
      PROVE  Valued(dom') /\ Forest!SetText(p)
  <2>1. first \in Node /\ first # Null
    BY <1>2, NullIsNoNode DEF Allocated
  <2>2. Valued(dom') /\ Forest!SetContent(first)
    BY <1>2, <2>1, FillStep
  <2>3. ListOf(dom, p) # <<>> /\ ListOf(dom, p)[1] = first
    <3>1. IsList(dom, p, ListOf(dom, p))
      BY <1>0 DEF ForestInv, Listed
    <3>2. Len(ListOf(dom, p)) # 0
      BY <2>1, <3>1 DEF IsList
    <3> QED BY <3>1, <3>2, EmptySeq DEF IsList
  <2>4. [q \in Parent |-> ListOf(dom, q)][p] = ListOf(dom, p)
    BY <1>0
  <2> QED BY <2>2, <2>3, <2>4 DEF Forest!SetText
<1>3. ASSUME NEW n \in Node \ Allocated(dom),
             Filled(dom, dom', n), KeptBut(dom, dom', {n}),
             \A q \in Parent : n \in ToSet(ListOf(dom', q)) <=> q = p,
             Forest!IsFirst(n, ListOf(dom', p))
      PROVE  Valued(dom') /\ Forest!SetText(p)
  <2>1. Forest!Place(p, n)
    BY <1>0, <1>3, PlaceMaps
  <2>2. Valued(dom') /\ Forest!Fill(n)
    BY <1>3, FilledMaps
  <2>3. [q \in Parent |-> ListOf(dom', q)][p] = ListOf(dom', p)
    BY <1>0
  <2>4. n \in Node \ Forest!Alive
    BY ForestView
  <2> QED BY <1>3, <2>1, <2>2, <2>3, <2>4 DEF Forest!SetText
<1> QED BY <1>1, <1>2, <1>3

LEMMA EditForest ==
  ASSUME ForestInv, Edit
  PROVE  ForestInv' /\ Forest!Next
<1>0. /\ Sound(dom) /\ Counted(dom) /\ Listed(dom) /\ Valued(dom)
      /\ Sound(dom') /\ Counted(dom')
  BY EditSound, EditCounted DEF ForestInv
<1>1. SUFFICES Listed(dom') /\ Valued(dom') /\ Forest!Next
  BY <1>0 DEF ForestInv
<1>2. /\ Forest!Alive = Allocated(dom)
      /\ \A p \in {Document} \cup Elements(dom) :
           p \in Allocated(dom) \cup {Document}
  BY ForestView DEF Elements, Allocated
<1>3. CASE MakeNode
  <2>1. PICK c \in Made : Room(c.kind) /\ dom' = New(dom, c.kind, c.value)
    BY <1>3 DEF MakeNode
  <2>2. c.kind \in Kind /\ c.value \in Value /\ Allocated(dom) # Node
    BY <2>1, ValueAssumption DEF Room
  <2>3. /\ Filled(dom, dom', Fresh(dom)) /\ Listed(dom')
        /\ Fresh(dom) \in Node /\ Fresh(dom) \notin Allocated(dom)
        /\ \A p : ListOf(dom', p) = ListOf(dom, p)
    BY <1>0, <2>1, <2>2, NewFills DEF Allocated
  <2>4. Valued(dom') /\ Forest!NewNode(Fresh(dom))
    BY <1>0, <2>3, FillStep
  <2> QED BY <2>3, <2>4 DEF Forest!Next
<1>4. CASE InsertEnd
  <2>1. PICK x \in Allocated(dom) : \E p \in {Document} \cup Elements(dom) :
          dom' = InsertEndChild(dom, p, x)
    BY <1>4 DEF InsertEnd, Holders
  <2> QED BY <1>2, <2>1, InsertStep DEF Forest!Next
<1>5. CASE InsertFirst
  <2>1. PICK x \in Allocated(dom) : \E p \in {Document} \cup Elements(dom) :
          dom' = InsertFirstChild(dom, p, x)
    BY <1>5 DEF InsertFirst, Holders
  <2> QED BY <1>2, <2>1, InsertStep DEF Forest!Next
<1>6. CASE InsertAfter
  <2>0. PICK x \in Allocated(dom) : \E a \in Linked(dom) \ {x} :
          /\ dom.parent[a] \in {Document} \cup Elements(dom)
          /\ dom' = InsertAfterChild(dom, dom.parent[a], a, x)
    BY <1>6 DEF InsertAfter, Holders
  <2>1. PICK a \in Linked(dom) \ {x} :
          /\ dom.parent[a] \in {Document} \cup Elements(dom)
          /\ dom' = InsertAfterChild(dom, dom.parent[a], a, x)
    BY <2>0
  <2>2. a \in Allocated(dom)
    BY <1>0 DEF Sound, IsWellLinked, Linked, Allocated
  <2>3. /\ Listed(dom') /\ Valued(dom')
        /\ Forest!InsertAfterChild(dom.parent[a], a, x)
    BY <2>1, InsertAfterStep
  <2> QED BY <1>2, <2>1, <2>2, <2>3 DEF Forest!Next
<1>7. CASE Delete
  <2>1. ASSUME NEW n \in Allocated(dom), dom' = DeleteNode(dom, n)
        PROVE  Listed(dom') /\ Valued(dom') /\ Forest!Next
    BY <1>2, <2>1, DeleteNodeStep DEF Forest!Next
  <2>2. ASSUME NEW p \in {Document} \cup Elements(dom),
               dom' = DeleteChildren(dom, p)
        PROVE  Listed(dom') /\ Valued(dom') /\ Forest!Next
    BY <1>2, <2>2, DeleteChildrenStep DEF Forest!Next
  <2> QED BY <1>7, <2>1, <2>2 DEF Delete
<1>8. CASE Write
  <2>1. ASSUME NEW e \in Elements(dom), NEW c \in Made, Room("text"),
               dom' = SetText(dom, e, c.value)
        PROVE  Listed(dom') /\ Valued(dom') /\ Forest!Next
    <3>1. c.value \in Value /\ Allocated(dom) # Node
      BY <2>1, ValueAssumption DEF Room
    <3>2. Listed(dom') /\ Valued(dom') /\ Forest!SetText(e)
      BY <1>0, <2>1, <3>1, SetTextStep
    <3> QED BY <1>2, <3>2 DEF Forest!Next
  <2>2. ASSUME NEW e \in Elements(dom), NEW a,
               dom' = SetAttribute(dom, e, a) \/ dom' = DeleteAttribute(dom, e, a)
        PROVE  Listed(dom') /\ Valued(dom') /\ Forest!Next
    <3>1. e \in Allocated(dom) /\ e \in Node
      BY DEF Elements, Allocated
    <3>2. /\ Filled(dom, dom', e) /\ Listed(dom')
          /\ \A p : ListOf(dom', p) = ListOf(dom, p)
      BY <1>0, <2>2, <3>1, AttributesFill
    <3>3. Valued(dom') /\ Forest!SetContent(e)
      BY <1>0, <3>1, <3>2, FillStep
    <3> QED BY <1>2, <3>1, <3>2, <3>3 DEF Forest!Next
  <2> QED BY <1>8, <2>1, <2>2 DEF Write
<1>9. CASE Clone
  <2>1. PICK n \in Allocated(dom) :
          Room(dom.kind[n]) /\ dom' = ShallowClone(dom, n)
    BY <1>9 DEF Clone
  <2>2. /\ Listed(dom') /\ Valued(dom') /\ Fresh(dom) \in Node
        /\ Forest!ShallowClone(n, Fresh(dom))
    BY <1>0, <2>1, CloneStep
  <2> QED BY <1>2, <2>1, <2>2 DEF Forest!Next
<1> QED BY <1>3, <1>4, <1>5, <1>6, <1>7, <1>8, <1>9 DEF Edit

LEMMA NamesAreKept ==
  ASSUME ForestInv, ForestInv'
  PROVE  DoesAsNamed
<1>0. Sound(dom') /\ Counted(dom')
  BY DEF ForestInv
<1>1. \A x \in Allocated(dom) : Holders(x) \subseteq {Document} \cup Elements(dom)
  BY DEF Holders
<1>2. ASSUME NEW x \in Allocated(dom), NEW p \in Holders(x)
      PROVE  /\ dom' = InsertEndChild(dom, p, x) => Forest!InsertEndChild(p, x)
             /\ dom' = InsertFirstChild(dom, p, x) =>
                  Forest!InsertFirstChild(p, x)
             /\ \A a \in Linked(dom) \ {x} :
                  dom.parent[a] = p /\ dom' = InsertAfterChild(dom, p, a, x) =>
                    Forest!InsertAfterChild(p, a, x)
  <2>1. p \in {Document} \cup Elements(dom)
    BY <1>1
  <2> QED BY <2>1, InsertStep, InsertAfterStep
<1>3. ASSUME NEW n \in Allocated(dom)
      PROVE  /\ dom' = DeleteNode(dom, n) => Forest!DeleteNode(n)
             /\ Room(dom.kind[n]) /\ dom' = ShallowClone(dom, n) =>
                  Forest!ShallowClone(n, Fresh(dom))
  BY <1>0, DeleteNodeStep, CloneStep
<1>4. ASSUME NEW e \in Elements(dom), NEW c \in Made, Room("text"),
             dom' = SetText(dom, e, c.value)
      PROVE  Forest!SetText(e)
  <2>1. c.value \in Value /\ Allocated(dom) # Node
    BY <1>4, ValueAssumption DEF Room
  <2> QED BY <1>0, <1>4, <2>1, SetTextStep
<1> QED BY <1>2, <1>3, <1>4, DeleteChildrenStep DEF DoesAsNamed

LEMMA EmptyForest ==
  ASSUME Init PROVE ForestInv /\ Forest!Init
<1>1. dom = Empty
  BY DEF Init
<1>2. /\ \A n \in Node : Empty.kind[n] = "free" /\ Empty.parent[n] = Null
      /\ \A p \in Parent : Empty.firstChild[p] = Null
  BY DEF Empty, NoCell
<1>3. \A p \in Parent : IsList(Empty, p, <<>>) /\ ListOf(Empty, p) = <<>>
  <2> SUFFICES ASSUME NEW p \in Parent
               PROVE  IsList(Empty, p, <<>>) /\ ListOf(Empty, p) = <<>>
    OBVIOUS
  <2>1. p # Null
    BY NodeAssumption
  <2>2. IsList(Empty, p, <<>>)
    BY <1>2, <2>1, EmptySeq DEF IsList
  <2> QED BY <2>2, TheList
<1>4. Listed(Empty) /\ Valued(Empty)
  BY <1>2, <1>3 DEF Listed, Valued, Allocated
<1>5. ForestInv
  BY <1>1, <1>4, EmptySound, EmptyCounted DEF ForestInv
<1>6. \A n \in Node : NodeOf(dom, n) = Null
  BY <1>1, <1>2 DEF NodeOf
<1>7. Forest!Parent = Parent
  BY DEF Forest!Parent, Parent
<1>8. Forest!Init
  BY <1>1, <1>3, <1>6, <1>7 DEF Forest!Init
<1> QED BY <1>5, <1>8

(* Whatever a client does to the pointers, it sees a forest of ordered       *)
(* nodes, and InsertFirstChild, InsertEndChild and InsertAfterChild put the  *)
(* node first, last or behind the given one below the given parent, SetText  *)
(* writes or makes the first child, ShallowClone copies the content of its   *)
(* node, DeleteNode and DeleteChildren take all that is below; of no other   *)
(* node the content, the parent or the order among its siblings changes.     *)
THEOREM DomIsForest == Spec => ImplementsForest
<1>1. Init => ForestInv /\ Forest!Init
  BY EmptyForest
<1>2. ForestInv /\ [Edit]_dom => ForestInv' /\ [Forest!Next]_Forest!vars
  <2>1. CASE Edit
    BY <2>1, EditForest
  <2>2. CASE UNCHANGED dom
    BY <2>2 DEF ForestInv, Forest!vars
  <2> QED BY <2>1, <2>2
<1>3. ForestInv /\ ForestInv' => DoesAsNamed
  BY NamesAreKept
<1> QED BY <1>1, <1>2, <1>3, PTL DEF Spec, ImplementsForest, Forest!Spec

-----------------------------------------------------------------------------
(* Places in a text                                                         *)

LEMMA LeastOf ==
  ASSUME NEW T \in SUBSET Nat, T # {}
  PROVE  Min(T) \in T /\ \A j \in T : Min(T) <= j
<1>1. \E k \in T : \A j \in T : k <= j
  BY LeastNumber
<1> QED BY <1>1 DEF Min

LEMMA SameEnd ==
  ASSUME NEW m \in Nat, NEW n \in Nat, 1..m = 1..n PROVE m = n
<1>1. (m \in 1..m <=> m \in 1..n) /\ (n \in 1..m <=> n \in 1..n)
  OBVIOUS
<1> QED BY <1>1

LEMMA SkipGoesOn ==
  ASSUME NEW t \in Value, NEW p \in Nat \ {0}, NEW C
  PROVE  /\ Skip(t, p, C) \in Nat /\ Skip(t, p, C) >= p
         /\ p <= Len(t) + 1 => Skip(t, p, C) <= Len(t) + 1
         /\ \A i \in p..Skip(t, p, C) - 1 : i \in 1..Len(t) /\ t[i] \in C
         /\ Skip(t, p, C) <= Len(t) => t[Skip(t, p, C)] \notin C
<1>0. Len(t) \in Nat
  BY LenProperties DEF Value
<1>1. CASE AtEnd(t, p)
  BY <1>0, <1>1 DEF Skip, AtEnd
<1>2. CASE ~AtEnd(t, p)
  <2> DEFINE T == {i \in p..Len(t) + 1 : AtEnd(t, i) \/ t[i] \notin C}
  <2>1. p <= Len(t)
    BY <1>0, <1>2 DEF AtEnd
  <2>2. T \in SUBSET Nat /\ Len(t) + 1 \in T
    BY <1>0, <2>1 DEF AtEnd
  <2>3. Skip(t, p, C) = Min(T)
    BY <1>2 DEF Skip
  <2>4. Min(T) \in T /\ \A j \in T : Min(T) <= j
    <3> HIDE DEF T
    <3> QED BY <2>2, LeastOf
  <2>5. Min(T) \in p..Len(t) + 1 /\ (AtEnd(t, Min(T)) \/ t[Min(T)] \notin C)
    BY <2>4
  <2>6. ASSUME NEW i \in p..Min(T) - 1 PROVE i \in 1..Len(t) /\ t[i] \in C
    <3>1. i \in p..Len(t) + 1 /\ i < Min(T) /\ i \in 1..Len(t) /\ i \in Nat
      BY <1>0, <2>5
    <3>2. i \notin T
      <4> HIDE DEF T
      <4> QED BY <2>4, <2>5, <3>1
    <3> QED BY <3>1, <3>2
  <2> HIDE DEF T
  <2> QED BY <1>0, <2>1, <2>3, <2>5, <2>6 DEF AtEnd
<1> QED BY <1>1, <1>2

LEMMA NameGoesOn ==
  ASSUME NEW t \in Value, NEW p \in Nat \ {0}
  PROVE  /\ ParseName(t, p) \in Nat /\ ParseName(t, p) >= p
         /\ ParseName(t, p) # p => ParseName(t, p) <= Len(t) + 1
<1>0. Len(t) \in Nat
  BY LenProperties DEF Value
<1> QED BY <1>0, SkipGoesOn DEF ParseName, AtEnd

LEMMA TextIsFound ==
  ASSUME NEW t \in Value, NEW p \in Nat \ {0}, NEW end,
         ParseText(t, p, end) # 0
  PROVE  LET q == ParseText(t, p, end)
         IN /\ q \in p..Len(t) /\ Starts(t, q, end)
            /\ \A i \in p..q - 1 : ~Starts(t, i, end)
<1> DEFINE F == {q \in p..Len(t) : Starts(t, q, end)}
<1>0. Len(t) \in Nat
  BY LenProperties DEF Value
<1>1. F \in SUBSET Nat
  BY <1>0
<1>2. F # {} /\ ParseText(t, p, end) = Min(F)
  BY DEF ParseText
<1>3. Min(F) \in F /\ \A j \in F : Min(F) <= j
  <2> HIDE DEF F
  <2> QED BY <1>1, <1>2, LeastOf
<1>4. ASSUME NEW i \in p..Min(F) - 1 PROVE ~Starts(t, i, end)
  <2>1. Min(F) \in p..Len(t)
    BY <1>3
  <2>2. i \in p..Len(t) /\ i < Min(F) /\ i \in Nat
    BY <1>0, <2>1
  <2>3. i \notin F
    <3> HIDE DEF F
    <3> QED BY <1>3, <2>1, <2>2
  <2> QED BY <2>2, <2>3
<1> QED BY <1>2, <1>3, <1>4

LEMMA PartOfText ==
  ASSUME NEW t \in Value, NEW i \in Nat \ {0}, NEW j \in Int, j <= Len(t)
  PROVE  SubSeq(t, i, j) \in Value
<1>0. Len(t) \in Nat
  BY LenProperties DEF Value
<1>1. \A k \in i..j : t[k] \in Symbol
  BY <1>0, ElementOfSeq DEF Value
<1> QED BY <1>1, SubSeqProperties DEF Value

LEMMA NewlineIsSymbol ==
  ASSUME NEW c \in Symbol PROVE AsNewline(c) \in Symbol
<1>1. "\n" \in Symbol
  BY MarkupAssumption DEF Markup, Blank, LineEnd
<1> QED BY <1>1 DEF AsNewline

LEMMA UnescapedIsSymbol ==
  ASSUME NEW c \in Symbol
  PROVE  /\ Unescaped(c) \in Symbol
         /\ \/ /\ Unescaped(c) \in DOMAIN entities
               /\ entities[Unescaped(c)] = c
            \/ /\ Unescaped(c) = AsNewline(c)
               /\ \A e \in DOMAIN entities : entities[e] # c
<1>1. DOMAIN entities \subseteq Symbol
  BY MarkupAssumption DEF Markup
<1> QED BY <1>1, NewlineIsSymbol DEF Unescaped

LEMMA NormalizedIsText ==
  ASSUME NEW v \in Value
  PROVE  /\ Normalized(v) \in Value /\ Len(Normalized(v)) = Len(v)
         /\ \A i \in 1..Len(v) : Normalized(v)[i] = AsNewline(v[i])
<1>1. Len(v) \in Nat /\ DOMAIN v = 1..Len(v)
  BY LenProperties DEF Value
<1>2. \A i \in 1..Len(v) : AsNewline(v[i]) \in Symbol
  BY ElementOfSeq, NewlineIsSymbol DEF Value
<1>3. Normalized(v) = [i \in 1..Len(v) |-> AsNewline(v[i])]
  BY <1>1 DEF Normalized
<1>4. Normalized(v) \in Seq(Symbol)
  BY <1>1, <1>2, <1>3, IsASeq
<1>5. Len(Normalized(v)) = Len(v)
  <2>1. /\ DOMAIN Normalized(v) = 1..Len(Normalized(v))
        /\ Len(Normalized(v)) \in Nat
    BY <1>4, LenProperties
  <2>2. DOMAIN Normalized(v) = 1..Len(v)
    BY <1>3
  <2> QED BY <1>1, <2>1, <2>2, SameEnd
<1> QED BY <1>3, <1>4, <1>5 DEF Value

LEMMA DecodedIsText ==
  ASSUME NEW v \in Value
  PROVE  /\ GetStr(v) \in Value /\ Len(GetStr(v)) = Len(v)
         /\ \A i \in 1..Len(v) : GetStr(v)[i] = Unescaped(v[i])
<1>1. Len(v) \in Nat /\ DOMAIN v = 1..Len(v)
  BY LenProperties DEF Value
<1>2. \A i \in 1..Len(v) : v[i] \in Symbol
  BY ElementOfSeq DEF Value
<1>3. \A i \in 1..Len(v) : Unescaped(v[i]) \in Symbol
  BY <1>2, UnescapedIsSymbol
<1>4. GetStr(v) = [i \in 1..Len(v) |-> Unescaped(v[i])]
  BY <1>1 DEF GetStr
<1>5. GetStr(v) \in Seq(Symbol)
  BY <1>1, <1>3, <1>4, IsASeq
<1>6. Len(GetStr(v)) = Len(v)
  <2>1. DOMAIN GetStr(v) = 1..Len(GetStr(v)) /\ Len(GetStr(v)) \in Nat
    BY <1>5, LenProperties
  <2>2. DOMAIN GetStr(v) = 1..Len(v)
    BY <1>4
  <2> QED BY <1>1, <2>1, <2>2, SameEnd
<1> QED BY <1>4, <1>5, <1>6 DEF Value

-----------------------------------------------------------------------------
(* The document that is being made                                          *)

\* P are the nodes that are in no list yet, and all other nodes are below these
\* or the document.
Hanging(d, P) ==
  /\ Sound(d)
  /\ Counted(d)
  /\ P \subseteq Allocated(d)
  /\ Linked(d) = Allocated(d) \ P
  /\ \A T \in SUBSET Node :
       /\ P \subseteq T
       /\ \A n \in Linked(d) : d.parent[n] \in T \cup {Document} => n \in T
       => Allocated(d) \subseteq T

LEMMA EmptyHangs == Hanging(Empty, {})
<1>1. Allocated(Empty) = {} /\ Linked(Empty) = {}
  BY DEF Allocated, Linked, Empty, NoCell
<1> QED BY <1>1, EmptySound, EmptyCounted DEF Hanging

LEMMA HangingIsAll ==
  ASSUME NEW d, Hanging(d, {})
  PROVE  IsWellLinked(d) /\ IsCounted(d) /\ InTree(d) = Allocated(d)
<1> DEFINE S == {n \in Node : d.parent[n] = Document}
           T == Below(d, S)
<1>1. /\ T \in SUBSET Node /\ S \subseteq T
      /\ \A m \in Linked(d) : d.parent[m] \in T => m \in T
      /\ \A y \in T \ S : y \in Linked(d)
  BY BelowClosed
<1>2. S \subseteq Linked(d)
  BY NullIsNoNode DEF Linked
<1>3. T \subseteq Allocated(d)
  BY <1>1, <1>2 DEF Hanging
<1>4. ASSUME NEW n \in Linked(d), d.parent[n] \in T \cup {Document}
      PROVE  n \in T
  <2>1. n \in Node
    BY DEF Linked
  <2> QED BY <1>1, <1>4, <2>1
<1> HIDE DEF T
<1>5. Allocated(d) \subseteq T
  BY <1>1, <1>4 DEF Hanging
<1>6. InTree(d) = T
  BY DEF InTree, T
<1> QED BY <1>3, <1>5, <1>6, CountedIsCounted DEF Hanging, Sound

\* What a new node changes
LEMMA NewFields ==
  ASSUME NEW d, Sound(d), Allocated(d) # Node, NEW k \in Kind, NEW v
  PROVE  LET n == Fresh(d)
             e == New(d, k, v)
         IN /\ n \in Node /\ d.kind[n] = "free"
            /\ e.kind = [d.kind EXCEPT ![n] = k]
            /\ e.value = [d.value EXCEPT ![n] = v]
            /\ e.attributes = d.attributes /\ e.parent = d.parent
            /\ e.firstChild = d.firstChild /\ e.lastChild = d.lastChild
            /\ e.prev = d.prev /\ e.next = d.next
            /\ Allocated(e) = Allocated(d) \cup {n}
            /\ Linked(e) = Linked(d)
            /\ n \notin Allocated(d) /\ n \notin Linked(d)
            /\ \A m \in Node : d.parent[m] # n
<1> DEFINE n == Fresh(d)
           e == New(d, k, v)
<1>1. n \in Node /\ d.kind[n] = "free"
  <2>1. \E m \in Node : d.kind[m] = "free"
    BY DEF Allocated
  <2> QED BY <2>1 DEF Fresh
<1>2. /\ e.kind = [d.kind EXCEPT ![n] = k]
      /\ e.value = [d.value EXCEPT ![n] = v]
      /\ e.attributes = d.attributes /\ e.parent = d.parent
      /\ e.firstChild = d.firstChild /\ e.lastChild = d.lastChild
      /\ e.prev = d.prev /\ e.next = d.next
  BY DEF Sound, New, Fields
<1> HIDE DEF n, e
<1>3. d.kind \in [Node -> Kind \cup {"free"}] /\ k # "free"
  BY DEF Sound, PointersOK, Kind
<1>4. Allocated(e) = Allocated(d) \cup {n} /\ n \notin Allocated(d)
  BY <1>1, <1>2, <1>3 DEF Allocated
<1>5. Linked(e) = Linked(d)
  BY <1>2 DEF Linked
<1>6. n \notin Linked(d)
  BY <1>1 DEF Sound, IsWellLinked
<1>7. ASSUME NEW m \in Node PROVE d.parent[m] # n
  <2>1. m \in Linked(d) => d.parent[m] \in {Document} \cup Elements(d)
    BY DEF Sound, IsWellLinked
  <2> QED BY <1>1, <2>1, NullIsNoNode DEF Linked, Elements
<1> QED BY <1>1, <1>2, <1>4, <1>5, <1>6, <1>7 DEF n, e

\* Putting a node in no list behind the others of p
LEMMA InsertFields ==
  ASSUME NEW d, Sound(d), NEW p \in {Document} \cup Elements(d),
         NEW x \in Allocated(d) \ Linked(d)
  PROVE  LET e == InsertEndChild(d, p, x)
         IN /\ e.kind = d.kind /\ e.value = d.value
            /\ e.attributes = d.attributes
            /\ e.parent = [d.parent EXCEPT ![x] = p]
            /\ e.next[x] = Null
            /\ Allocated(e) = Allocated(d)
            /\ Linked(e) = Linked(d) \cup {x}
            /\ Elements(e) = Elements(d)
<1> DEFINE c == SetTracked(d, x)
           last == d.lastChild[p]
           e == Linking(c, p, last, x, Null)
<1>1. x \in Node /\ p \in Parent /\ p # Null
  BY NullIsNoNode DEF Allocated, Elements, Parent
<1>2. /\ DOMAIN c = Fields
      /\ c.kind = d.kind /\ c.value = d.value /\ c.attributes = d.attributes
      /\ c.parent = d.parent /\ c.lastChild = d.lastChild
  BY DEF Sound, SetTracked, Fields
<1>3. InsertEndChild(d, p, x) = e
  BY <1>2 DEF InsertEndChild, InsertChildPreamble
<1> HIDE DEF c
<1>4. /\ e.kind = c.kind /\ e.value = c.value /\ e.attributes = c.attributes
      /\ e.parent = [c.parent EXCEPT ![x] = p]
  BY <1>2 DEF Linking, Fields
<1>5. e.next[x] = Null
  <2>1. e.next = [n \in Node |-> CASE n = x -> Null [] n = last -> x
                                   [] OTHER -> c.next[n]]
    BY <1>2 DEF Linking, Fields
  <2>2. last # x
    <3>1. last # Null => last \in Linked(d)
      BY <1>1 DEF Sound, PointersOK, IsWellLinked, Linked
    <3> QED BY <1>1, <3>1, NullIsNoNode
  <2> HIDE DEF e, last
  <2> QED BY <1>1, <2>1, <2>2
<1> HIDE DEF e
<1>6. Allocated(e) = Allocated(d) /\ Elements(e) = Elements(d)
  BY <1>2, <1>4 DEF Allocated, Elements
<1>7. Linked(e) = Linked(d) \cup {x}
  BY <1>1, <1>2, <1>4 DEF Linked, Sound, PointersOK
<1> QED BY <1>2, <1>3, <1>4, <1>5, <1>6, <1>7

\* e is d with the new node n, which is in no list and has none.
Began(d, e, P, n, k, v) ==
  /\ Hanging(e, P \cup {n}) /\ n \notin P
  /\ n \in Node /\ d.kind[n] = "free"
  /\ \A m \in Node : d.parent[m] # n
  /\ Allocated(e) = Allocated(d) \cup {n} /\ e.attributes = d.attributes
  /\ e.attributes[n] = <<>>
  /\ \A m \in Node :
       /\ e.kind[m] = IF m = n THEN k ELSE d.kind[m]
       /\ e.value[m] = IF m = n THEN v ELSE d.value[m]
       /\ e.parent[m] = d.parent[m]

LEMMA NewHangs ==
  ASSUME NEW d, NEW P, Hanging(d, P), Allocated(d) # Node, NEW k \in Kind,
         NEW v \in Value
  PROVE  Began(d, New(d, k, v), P, Fresh(d), k, v)
<1> DEFINE n == Fresh(d)
           e == New(d, k, v)
<1>1. Sound(d) /\ Counted(d)
  BY DEF Hanging
<1>0. /\ n \in Node /\ d.kind[n] = "free"
      /\ \A m \in Node : d.parent[m] # n
      /\ e.kind = [d.kind EXCEPT ![n] = k]
      /\ e.value = [d.value EXCEPT ![n] = v]
      /\ e.attributes = d.attributes
  BY <1>1, NewFields
<1>2. /\ n \in Node /\ Allocated(e) = Allocated(d) \cup {n}
      /\ Linked(e) = Linked(d) /\ n \notin Allocated(d) /\ e.parent = d.parent
  BY <1>1, NewFields
<1>3. Sound(e) /\ Counted(e)
  BY <1>1, NewSound, NewCounted
<1> HIDE DEF n, e
<1>4. ASSUME NEW T \in SUBSET Node, P \cup {n} \subseteq T,
             \A m \in Linked(e) : e.parent[m] \in T \cup {Document} => m \in T
      PROVE  Allocated(e) \subseteq T
  BY <1>2, <1>4 DEF Hanging
<1>5. P \cup {n} \subseteq Allocated(e) /\ n \notin P
      /\ Linked(e) = Allocated(e) \ (P \cup {n})
  BY <1>2 DEF Hanging
<1>6. Hanging(e, P \cup {n})
  BY <1>3, <1>4, <1>5 DEF Hanging
<1>7. /\ d.kind \in [Node -> Kind \cup {"free"}]
      /\ d.parent \in [Node -> Parent \cup {Null}]
      /\ d.value \in [Node -> Value \cup {Null}]
  BY DEF Hanging, Sound, PointersOK, Counted, CountedBut
<1>8. e.attributes[n] = <<>>
  BY <1>0, <1>1 DEF Counted, CountedBut
<1> QED BY <1>0, <1>7, <1>8, <1>2, <1>5, <1>6 DEF Began, n, e

LEMMA InsertHangs ==
  ASSUME NEW d, NEW P, Hanging(d, P), NEW x \in P,
         NEW p \in {Document} \cup Elements(d), p \in {Document} \cup (P \ {x})
  PROVE  Hanging(InsertEndChild(d, p, x), P \ {x})
<1> DEFINE e == InsertEndChild(d, p, x)
<1>1. Sound(d) /\ Counted(d) /\ x \in Allocated(d) \ Linked(d)
  BY DEF Hanging
<1>2. /\ e.parent = [d.parent EXCEPT ![x] = p]
      /\ Allocated(e) = Allocated(d) /\ Linked(e) = Linked(d) \cup {x}
  BY <1>1, InsertFields
<1>3. Sound(e) /\ Counted(e)
  BY <1>1, InsertEndSound, InsertCounted
<1> HIDE DEF e
<1>4. ASSUME NEW T \in SUBSET Node, P \ {x} \subseteq T,
             \A m \in Linked(e) : e.parent[m] \in T \cup {Document} => m \in T
      PROVE  Allocated(e) \subseteq T
  <2>1. d.parent \in [Node -> Parent \cup {Null}] /\ x \in Node
    BY <1>1 DEF Sound, PointersOK, Allocated
  <2>2. x \in T
    BY <1>2, <1>4, <2>1
  <2>3. \A m \in Linked(d) : d.parent[m] \in T \cup {Document} => m \in T
    BY <1>1, <1>2, <1>4, <2>1 DEF Linked
  <2> QED BY <1>2, <1>4, <2>2, <2>3 DEF Hanging
<1>5. P \ {x} \subseteq Allocated(e) /\ Linked(e) = Allocated(e) \ (P \ {x})
  BY <1>1, <1>2 DEF Hanging
<1>6. Hanging(e, P \ {x})
  BY <1>3, <1>4, <1>5 DEF Hanging
<1> QED BY <1>6 DEF e

LEMMA AttributeHangs ==
  ASSUME NEW d, NEW P, Hanging(d, P), NEW n \in Allocated(d),
         NEW a \in Attribute
  PROVE  LET e == SetAttribute(d, n, a)
         IN /\ Hanging(e, P) /\ e.parent = d.parent /\ e.kind = d.kind
            /\ e.value = d.value
<1> DEFINE e == SetAttribute(d, n, a)
<1>1. Sound(d) /\ Counted(d)
  BY DEF Hanging
<1>2. SamePointers(d, e) /\ Sound(e) /\ Counted(e)
  BY <1>1, DataKeepsPointers, SamePointersSound, SetAttributeCounted
<1>3. e.value = d.value
  BY <1>1 DEF SetAttribute, Sound, Fields
<1> HIDE DEF e
<1>4. /\ Linked(e) = Linked(d) /\ Allocated(e) = Allocated(d)
      /\ e.parent = d.parent /\ e.kind = d.kind
  BY <1>2 DEF SamePointers, Linked, Allocated
<1>5. Hanging(e, P)
  BY <1>2, <1>4 DEF Hanging
<1> QED BY <1>3, <1>4, <1>5 DEF e

\* What a node with nothing below it leaves behind
LEMMA DropFields ==
  ASSUME NEW d, Sound(d), Counted(d), NEW x \in Allocated(d) \ Linked(d),
         \A m \in Node : d.parent[m] # x
  PROVE  LET e == Dropped(d, x)
         IN /\ Sound(e) /\ Counted(e)
            /\ e.kind = [d.kind EXCEPT ![x] = "free"]
            /\ e.value = [d.value EXCEPT ![x] = Null]
            /\ e.parent = d.parent
            /\ Allocated(e) = Allocated(d) \ {x} /\ Linked(e) = Linked(d)
<1> DEFINE c == SetTracked(d, x)
           X == {x}
           e == Freed(c, X)
<1>1. x \in Node /\ d.kind[x] # "free" /\ d.parent[x] = Null
  BY DEF Allocated, Linked
<1>2. SamePointers(d, c) /\ Sound(c)
  BY DataKeepsPointers, SamePointersSound
<1>3. CountedBut(c, {x})
  BY PreambleCounted DEF InsertChildPreamble
<1>4. c.value = d.value /\ c.attributes = d.attributes
  BY DEF SetTracked, Sound, Fields
<1> HIDE DEF c
<1>5. /\ DOMAIN e = Fields
      /\ e.kind = [m \in Node |-> IF m \in X THEN "free" ELSE c.kind[m]]
      /\ e.value = [m \in Node |-> IF m \in X THEN Null ELSE c.value[m]]
      /\ e.parent = [m \in Node |-> IF m \in X THEN Null ELSE c.parent[m]]
      /\ e.prev = [m \in Node |-> IF m \in X THEN Null ELSE c.prev[m]]
      /\ e.next = [m \in Node |-> IF m \in X THEN Null ELSE c.next[m]]
      /\ e.firstChild =
           [m \in Parent |-> IF m \in X THEN Null ELSE c.firstChild[m]]
      /\ e.lastChild =
           [m \in Parent |-> IF m \in X THEN Null ELSE c.lastChild[m]]
  <2>1. c.value \in [Node -> Value \cup {Null}]
    BY <1>3 DEF CountedBut
  <2> HIDE DEF X
  <2> QED BY <1>2, <2>1 DEF Freed, Sound, PointersOK, Fields
<1> HIDE DEF e
<1>6. IsCut(c, e, X, X)
  <2>1. \A m \in Linked(c) : c.parent[m] \in X <=> m \in X
    BY <1>1, <1>2 DEF SamePointers, Linked
  <2>2. X \in SUBSET Node /\ X \in SUBSET Parent /\ X \subseteq X
    BY <1>1 DEF Parent
  <2> HIDE DEF X
  <2> QED BY <1>5, <2>1, <2>2 DEF IsCut
<1>7. Sound(e)
  BY <1>2, <1>6, CutSound
<1>8. Counted(e)
  <2>1. X \in SUBSET Allocated(c) /\ X \subseteq Linked(c) \cup {x}
        /\ {x} \subseteq X
    BY <1>1, <1>2 DEF SamePointers, Allocated
  <2> HIDE DEF X
  <2> QED BY <1>2, <1>3, <2>1, FreedCounted DEF Sound, e
<1>9. /\ e.kind = [d.kind EXCEPT ![x] = "free"]
      /\ e.value = [d.value EXCEPT ![x] = Null]
      /\ e.parent = d.parent
  BY <1>1, <1>2, <1>4, <1>5 DEF SamePointers, Sound, PointersOK, Counted,
     CountedBut
<1>10. Allocated(e) = Allocated(d) \ {x} /\ Linked(e) = Linked(d)
  BY <1>1, <1>9 DEF Allocated, Linked, Sound, PointersOK
<1> QED BY <1>7, <1>8, <1>9, <1>10 DEF Dropped, c, e

LEMMA DropHangs ==
  ASSUME NEW d, NEW P, Hanging(d, P), NEW x \in P,
         \A m \in Node : d.parent[m] # x
  PROVE  Hanging(Dropped(d, x), P \ {x})
<1> DEFINE e == Dropped(d, x)
<1>1. Sound(d) /\ Counted(d) /\ x \in Allocated(d) \ Linked(d)
  BY DEF Hanging
<1>2. /\ Sound(e) /\ Counted(e) /\ e.parent = d.parent
      /\ Allocated(e) = Allocated(d) \ {x} /\ Linked(e) = Linked(d)
  BY <1>1, DropFields
<1> HIDE DEF e
<1>3. ASSUME NEW T \in SUBSET Node, P \ {x} \subseteq T,
             \A m \in Linked(e) : e.parent[m] \in T \cup {Document} => m \in T
      PROVE  Allocated(e) \subseteq T
  <2>1. x \in Node /\ x # Document
    BY <1>1, NullIsNoNode DEF Allocated
  <2>2. T \cup {x} \in SUBSET Node /\ P \subseteq T \cup {x}
    BY <1>3, <2>1
  <2>3. \A m \in Linked(d) :
          d.parent[m] \in (T \cup {x}) \cup {Document} => m \in T \cup {x}
    BY <1>2, <1>3, <2>1 DEF Linked
  <2>4. Allocated(d) \subseteq T \cup {x}
    BY <2>2, <2>3 DEF Hanging
  <2> QED BY <1>2, <2>4
<1>4. P \ {x} \subseteq Allocated(e) /\ Linked(e) = Allocated(e) \ (P \ {x})
  BY <1>1, <1>2 DEF Hanging
<1>5. Hanging(e, P \ {x})
  BY <1>2, <1>3, <1>4 DEF Hanging
<1> QED BY <1>5 DEF e

\* e is d with the new node n in the list of p, and nothing below it.
GotChild(d, e, P, n, k, v, p) ==
  /\ Hanging(e, P) /\ P \subseteq Elements(e)
  /\ n \in Node /\ d.kind[n] = "free" /\ n \notin P
  /\ \A m \in Node : d.parent[m] # n
  /\ Allocated(e) = Allocated(d) \cup {n} /\ e.attributes = d.attributes
  /\ e.attributes[n] = <<>>
  /\ \A m \in Node :
       /\ e.kind[m] = IF m = n THEN k ELSE d.kind[m]
       /\ e.value[m] = IF m = n THEN v ELSE d.value[m]
       /\ e.parent[m] = IF m = n THEN p ELSE d.parent[m]

LEMMA ChildHangs ==
  ASSUME NEW d, NEW P, Hanging(d, P), Allocated(d) # Node, NEW k \in Kind,
         NEW v \in Value, P \subseteq Elements(d), NEW p \in {Document} \cup P
  PROVE  GotChild(d, InsertEndChild(New(d, k, v), p, Fresh(d)), P, Fresh(d), k,
                  v, p)
<1> DEFINE n == Fresh(d)
           c == New(d, k, v)
           e == InsertEndChild(c, p, n)
<1>1. Sound(d) /\ Counted(d)
  BY DEF Hanging
<1>2. /\ n \in Node /\ d.kind[n] = "free"
      /\ \A m \in Node : d.parent[m] # n
      /\ \A m \in Node :
           /\ c.kind[m] = IF m = n THEN k ELSE d.kind[m]
           /\ c.value[m] = IF m = n THEN v ELSE d.value[m]
           /\ c.parent[m] = d.parent[m]
      /\ Hanging(c, P \cup {n}) /\ n \notin P
      /\ Allocated(c) = Allocated(d) \cup {n} /\ c.attributes = d.attributes
      /\ c.attributes[n] = <<>>
  <2>1. Began(d, c, P, n, k, v)
    BY NewHangs
  <2> HIDE DEF c, n
  <2> QED BY <2>1 DEF Began
<1>3. Hanging(c, P \cup {n}) /\ n \notin P
  BY <1>2
<1>4. P \subseteq Elements(c)
  <2>1. Elements(d) \subseteq Elements(c)
    BY <1>1, NewSound
  <2> QED BY <2>1
<1> HIDE DEF n, c
<1>5. Hanging(e, (P \cup {n}) \ {n})
  <2>1. p \in {Document} \cup Elements(c)
        /\ p \in {Document} \cup ((P \cup {n}) \ {n})
    BY <1>3, <1>4
  <2> HIDE DEF e
  <2> QED BY <1>3, <2>1, InsertHangs DEF e
<1>6. (P \cup {n}) \ {n} = P
  BY <1>3
<1>7. /\ e.kind = c.kind /\ e.value = c.value /\ e.attributes = c.attributes
      /\ Allocated(e) = Allocated(c)
      /\ e.parent = [c.parent EXCEPT ![n] = p]
      /\ Elements(e) = Elements(c)
  <2>1. Sound(c) /\ n \in Allocated(c) \ Linked(c)
    BY <1>3 DEF Hanging
  <2>2. p \in {Document} \cup Elements(c)
    BY <1>4
  <2> HIDE DEF e
  <2> QED BY <2>1, <2>2, InsertFields DEF e
<1> HIDE DEF e
<1>8. c.parent \in [Node -> Parent \cup {Null}]
  BY <1>3 DEF Hanging, Sound, PointersOK
<1> QED BY <1>2, <1>8, <1>3, <1>4, <1>5, <1>6, <1>7 DEF GotChild, n, c, e

\* In e the node x with nothing below it has gone from d, and h is in the list
\* of p.
Ended(d, e, P, x, h, p) ==
  /\ Hanging(e, P \ {x, h}) /\ P \ {x, h} \subseteq Elements(e)
  /\ \A m \in Node :
       /\ e.kind[m] = IF m = x THEN "free" ELSE d.kind[m]
       /\ e.value[m] = IF m = x THEN Null ELSE d.value[m]
       /\ e.parent[m] = IF m = h THEN p ELSE d.parent[m]

LEMMA EndTagHangs ==
  ASSUME NEW d, NEW P, Hanging(d, P), P \subseteq Elements(d), NEW x \in P,
         \A m \in Node : d.parent[m] # x, NEW h \in P \ {x},
         NEW p \in {Document} \cup (P \ {x, h})
  PROVE  Ended(d, InsertEndChild(Dropped(d, x), p, h), P, x, h, p)
<1> DEFINE c == Dropped(d, x)
           e == InsertEndChild(c, p, h)
<1>1. /\ Sound(d) /\ Counted(d) /\ x \in Allocated(d) \ Linked(d)
  BY DEF Hanging
<1>2. /\ c.kind = [d.kind EXCEPT ![x] = "free"]
      /\ c.value = [d.value EXCEPT ![x] = Null]
      /\ c.parent = d.parent
  BY <1>1, DropFields
<1>3. Hanging(c, P \ {x})
  BY DropHangs
<1> HIDE DEF c
<1>4. P \ {x} \subseteq Elements(c)
  BY <1>1, <1>2 DEF Elements, Sound, PointersOK
<1>5. p \in {Document} \cup Elements(c) /\ p \in {Document} \cup ((P \ {x}) \ {h})
  BY <1>4
<1>6. Hanging(e, (P \ {x}) \ {h})
  BY <1>3, <1>5, InsertHangs
<1>7. /\ e.kind = c.kind /\ e.value = c.value
      /\ e.parent = [c.parent EXCEPT ![h] = p]
      /\ Elements(e) = Elements(c)
  <2>1. Sound(c) /\ h \in Allocated(c) \ Linked(c)
    BY <1>3 DEF Hanging
  <2> HIDE DEF e
  <2> QED BY <1>5, <2>1, InsertFields DEF e
<1>8. (P \ {x}) \ {h} = P \ {x, h}
  OBVIOUS
<1> HIDE DEF e
<1>9. /\ d.kind \in [Node -> Kind \cup {"free"}]
      /\ d.parent \in [Node -> Parent \cup {Null}]
      /\ d.value \in [Node -> Value \cup {Null}]
  <2>1. Sound(d) /\ Counted(d)
    BY <1>1
  <2>2. PointersOK(d)
    BY ONLY <2>1 DEF Sound
  <2>3. CountedBut(d, {})
    BY ONLY <2>1 DEF Counted
  <2>4. d.kind \in [Node -> Kind \cup {"free"}] /\ d.parent \in [Node -> Parent \cup {Null}]
    BY ONLY <2>2 DEF PointersOK
  <2> QED BY ONLY <2>2, <2>3, <2>4 DEF PointersOK, CountedBut
<1> QED BY <1>2, <1>9, <1>4, <1>6, <1>7, <1>8 DEF Ended, c, e

-----------------------------------------------------------------------------
(* What the parser finds in a text                                          *)

LEMMA HeaderFacts ==
  /\ DOMAIN Header = 1..5
  /\ \A i \in 1..5 :
       /\ Header[i].kind \in Kind \ {"text"}
       /\ Header[i].kind = "element" <=> i = 5
       /\ Len(Header[i].start) \in 1..3
       /\ Header[i].start[1] = "<"
  /\ Header[5].start = <<"<">>
  /\ \A k \in Kind \ {"text"} : Len(HeaderOf(k).end) \in 1..2
<1>1. /\ DOMAIN Header = 1..5
      /\ \A i \in 1..5 :
           /\ Header[i].kind \in Kind \ {"text"}
           /\ Header[i].kind = "element" <=> i = 5
           /\ Len(Header[i].start) \in 1..3
           /\ Header[i].start[1] = "<"
           /\ Len(Header[i].end) \in 1..2
      /\ Header[5].start = <<"<">>
      /\ \A k \in Kind \ {"text"} : \E i \in 1..5 : Header[i].kind = k
  BY DEF Header, Kind
<1>2. ASSUME NEW k \in Kind \ {"text"} PROVE Len(HeaderOf(k).end) \in 1..2
  <2>1. \E h \in ToSet(Header) : h.kind = k
    BY <1>1 DEF ToSet
  <2>2. HeaderOf(k) \in ToSet(Header)
    BY <2>1 DEF HeaderOf
  <2> QED BY <1>1, <2>2 DEF ToSet
<1> QED BY <1>1, <1>2

LEMMA IdentifyFacts ==
  ASSUME NEW t \in Value, NEW p \in Nat \ {0}
  PROVE  LET h == Identify(t, p)
             q == SkipWhiteSpace(t, p)
         IN /\ q \in Nat /\ q >= p
            /\ h.kind \in Kind \cup {"none"} /\ h.p \in Nat /\ h.p >= p
            /\ h.kind = "none" <=> AtEnd(t, q)
            /\ h.kind = "text" => h.p = p /\ t[q] # "<"
            /\ h.kind \notin {"none", "text"} => h.p > p
            /\ h.kind = "element" => q <= Len(t) /\ t[q] = "<" /\ h.p = q + 1
<1> DEFINE h == Identify(t, p)
           q == SkipWhiteSpace(t, p)
           F == {i \in DOMAIN Header : Starts(t, q, Header[i].start)}
<1>0. Len(t) \in Nat
  BY LenProperties DEF Value
<1>1. q \in Nat /\ q >= p
  BY SkipGoesOn DEF SkipWhiteSpace
<1> HIDE DEF q
<1>2. CASE AtEnd(t, q)
  BY <1>1, <1>2 DEF Identify, Kind, q
<1>3. CASE ~AtEnd(t, q) /\ F = {}
  <2>1. h = [kind |-> "text", p |-> p]
    BY <1>3 DEF Identify, q
  <2>2. t[q] # "<"
    <3>1. ~Starts(t, q, <<"<">>)
      BY <1>3, HeaderFacts
    <3> QED BY <1>0, <1>1, <1>3, <3>1 DEF Starts, AtEnd
  <2>3. h.kind = "text" /\ h.p = p
    BY <2>1
  <2> HIDE DEF h
  <2> QED BY <1>1, <1>3, <2>2, <2>3 DEF Kind, h, q
<1>4. CASE ~AtEnd(t, q) /\ F # {}
  <2>1. F \in SUBSET Nat
    BY HeaderFacts
  <2>2. Min(F) \in F
    <3> HIDE DEF F
    <3> QED BY <1>4, <2>1, LeastOf
  <2>3. h = [kind |-> Header[Min(F)].kind, p |-> q + Len(Header[Min(F)].start)]
    BY <1>4 DEF Identify, q
  <2> DEFINE i == Min(F)
  <2>4. i \in 1..5 /\ Starts(t, q, Header[i].start)
    BY <2>2, HeaderFacts
  <2> HIDE DEF F, i
  <2>5. /\ h.kind = Header[i].kind /\ h.p = q + Len(Header[i].start)
    BY <2>3 DEF i
  <2> HIDE DEF h
  <2>6. h.kind \in Kind \ {"text"} /\ h.p > p /\ h.p \in Nat
    BY <1>1, <2>4, <2>5, HeaderFacts
  <2>7. h.kind = "element" => q <= Len(t) /\ t[q] = "<" /\ h.p = q + 1
    <3>1. h.kind = "element" => Header[i].start = <<"<">>
      BY <2>4, <2>5, HeaderFacts
    <3>2. ASSUME h.kind = "element" PROVE Starts(t, q, <<"<">>) /\ h.p = q + 1
      <4>1. Starts(t, q, <<"<">>) /\ h.p = q + Len(<<"<">>)
        BY <2>4, <2>5, <3>1, <3>2
      <4> QED BY <1>1, <4>1
    <3> QED BY <1>0, <1>1, <1>4, <3>2 DEF Starts, AtEnd
  <2> QED BY <1>1, <1>4, <2>6, <2>7 DEF Kind, h, q
<1> QED BY <1>2, <1>3, <1>4

LEMMA ContentFacts ==
  ASSUME NEW t \in Value, NEW p \in Nat \ {0}, NEW k \in Kind,
         ContentAt(t, k, p).p # 0
  PROVE  LET c == ContentAt(t, k, p)
         IN /\ c.p \in Nat /\ c.p >= p /\ c.value \in Value
            /\ k = "text" => c.p <= Len(t) /\ t[c.p] = "<"
            /\ k # "text" => c.p > p
<1> DEFINE c == ContentAt(t, k, p)
           end == IF k = "text" THEN <<"<">> ELSE HeaderOf(k).end
           q == ParseText(t, p, end)
<1>0. Len(t) \in Nat
  BY LenProperties DEF Value
<1>1. q # 0
  BY DEF ContentAt
<1>2. q \in p..Len(t) /\ Starts(t, q, end)
  <2> HIDE DEF end
  <2> QED BY <1>1, TextIsFound
<1> HIDE DEF q
<1>3. SubSeq(t, p, q - 1) \in Value
  BY <1>0, <1>2, PartOfText
<1>4. CASE k = "text"
  <2>1. c.p = q /\ c.value = GetStr(SubSeq(t, p, q - 1))
    BY <1>1, <1>4 DEF ContentAt, q
  <2>2. t[q] = "<"
    BY <1>2, <1>4 DEF Starts
  <2> QED BY <1>0, <1>2, <1>3, <1>4, <2>1, <2>2, DecodedIsText
<1>5. CASE k # "text"
  <2>1. c.p = q + Len(end) /\ c.value = Normalized(SubSeq(t, p, q - 1))
    BY <1>1, <1>5 DEF ContentAt, q
  <2>2. Len(end) \in 1..2
    BY <1>5, HeaderFacts
  <2> HIDE DEF end, c
  <2>3. c.p \in Nat /\ c.p > p
    <3>1. PICK j \in 1..2 : c.p = q + j
      BY <2>1, <2>2
    <3>2. p \in Nat /\ q \in p..Len(t)
      BY <1>2
    <3> QED BY ONLY <1>0, <3>1, <3>2
  <2> QED BY <1>3, <1>5, <2>1, <2>3, NormalizedIsText DEF c
<1> QED BY <1>4, <1>5

LEMMA AttributeFacts ==
  ASSUME NEW t \in Value, NEW p \in Nat \ {0}, AttributeAt(t, p).p # 0
  PROVE  LET r == AttributeAt(t, p)
         IN r.p \in Nat /\ r.p > p /\ r.a \in Attribute
<1> DEFINE name == ParseName(t, p)
           eq == SkipWhiteSpace(t, name)
           quote == SkipWhiteSpace(t, eq + 1)
           close == ParseText(t, quote + 1, <<t[quote]>>)
           n == SubSeq(t, p, name - 1)
           v == SubSeq(t, quote + 1, close - 1)
<1>0. Len(t) \in Nat
  BY LenProperties DEF Value
<1>1. name \in Nat /\ name >= p
  BY NameGoesOn
<1>2. eq \in Nat /\ eq >= name
  BY <1>1, SkipGoesOn DEF SkipWhiteSpace
<1>3. quote \in Nat /\ quote >= eq + 1
  BY <1>1, <1>2, SkipGoesOn DEF SkipWhiteSpace
<1>4. AttributeAt(t, p) = Quoted(t, n, quote) /\ Starts(t, eq, <<"=">>)
  BY DEF AttributeAt, NoAttribute
<1> HIDE DEF quote, n
<1>5. /\ close # 0
      /\ Quoted(t, n, quote) =
           [p |-> close + 1, a |-> [name |-> n, value |-> GetStr(v)]]
  <2> DEFINE none == AtEnd(t, quote) \/ t[quote] \notin {"\"", "'"}
             found == IF none THEN 0 ELSE close
  <2>1. Quoted(t, n, quote) =
          IF found = 0 THEN NoAttribute
          ELSE [p |-> found + 1,
                a |-> [name |-> n,
                       value |-> GetStr(SubSeq(t, quote + 1, found - 1))]]
    BY DEF Quoted
  <2>2. found # 0
    <3> HIDE DEF found
    <3> QED BY <1>4, <2>1 DEF NoAttribute
  <2>3. found = close
    BY <2>2
  <2> HIDE DEF found, close
  <2> QED BY <2>1, <2>2, <2>3 DEF v
<1>6. close \in quote + 1..Len(t)
  BY <1>3, <1>5, TextIsFound
<1>7. n \in Value
  <2>1. eq <= Len(t)
    BY <1>0, <1>2, <1>4 DEF Starts
  <2> QED BY <1>0, <1>1, <1>2, <2>1, PartOfText DEF n
<1> HIDE DEF close
<1>8. GetStr(v) \in Value
  BY <1>0, <1>3, <1>6, PartOfText, DecodedIsText
<1>9. [name |-> n, value |-> GetStr(v)] \in Attribute
  BY <1>7, <1>8 DEF Attribute
<1> HIDE DEF v
<1> QED BY <1>1, <1>2, <1>3, <1>4, <1>5, <1>6, <1>9

-----------------------------------------------------------------------------
(* The invariant of the parser                                              *)

Unfinished == ToSet(open) \cup (IF tag = Null THEN {} ELSE {tag})

ParserInv ==
  /\ charBuffer \in Value /\ place \in Nat \ {0}
  /\ parsing \in {"idle", "children", "attributes", "done", "failed"}
  /\ open \in Seq(Node) /\ IsInjective(open)
  /\ IF parsing = "attributes"
     THEN /\ tag \in Node \ ToSet(open)
          /\ \A m \in Node : parsed.parent[m] # tag
     ELSE tag = Null
  /\ parsing \notin {"children", "attributes"} => open = <<>>
  /\ parsing = "idle" => parsed = Empty
  /\ Unfinished \subseteq Elements(parsed)
  /\ Hanging(parsed, Unfinished)

LEMMA StackFacts ==
  ASSUME NEW s \in Seq(Node), IsInjective(s)
  PROVE  /\ Innermost(s) \in {Document} \cup ToSet(s)
         /\ ToSet(s) \subseteq Node
         /\ s = <<>> => ToSet(s) = {}
         /\ s # <<>> =>
              LET r == SubSeq(s, 1, Len(s) - 1)
              IN /\ Innermost(s) \in ToSet(s)
                 /\ r \in Seq(Node) /\ IsInjective(r)
                 /\ ToSet(r) = ToSet(s) \ {Innermost(s)}
         /\ \A x \in Node \ ToSet(s) :
              /\ Append(s, x) \in Seq(Node) /\ IsInjective(Append(s, x))
              /\ ToSet(Append(s, x)) = ToSet(s) \cup {x}
<1>1. /\ Len(s) \in Nat /\ DOMAIN s = 1..Len(s)
      /\ \A i \in 1..Len(s) : s[i] \in Node
  BY LenProperties, ElementOfSeq
<1>2. ToSet(s) \subseteq Node /\ (s = <<>> => ToSet(s) = {})
  BY <1>1 DEF ToSet
<1>3. ASSUME s # <<>>
      PROVE  LET r == SubSeq(s, 1, Len(s) - 1)
             IN /\ Innermost(s) \in ToSet(s)
                /\ r \in Seq(Node) /\ IsInjective(r)
                /\ ToSet(r) = ToSet(s) \ {Innermost(s)}
  <2> DEFINE r == SubSeq(s, 1, Len(s) - 1)
  <2>1. Len(s) \in Nat \ {0}
    BY <1>3, EmptySeq
  <2>2. /\ r \in Seq(Node) /\ Len(r) = Len(s) - 1 /\ DOMAIN r = 1..Len(s) - 1
        /\ \A i \in 1..Len(s) - 1 : r[i] = s[i]
    <3>1. \A i \in 1..Len(s) - 1 : s[i] \in Node
      BY <1>1, <2>1
    <3>2. r \in Seq(Node) /\ Len(r) = Len(s) - 1
          /\ \A i \in 1..Len(s) - 1 : r[i] = s[i]
      <4> DEFINE m == Len(s) - 1
      <4>1. m \in Nat /\ 1 <= m + 1
        BY <2>1
      <4> HIDE DEF m
      <4>2. SubSeq(s, 1, m) \in Seq(Node)
            /\ Len(SubSeq(s, 1, m)) = (IF 1 <= m THEN m - 1 + 1 ELSE 0)
            /\ \A i \in 1..m - 1 + 1 : SubSeq(s, 1, m)[i] = s[1 + i - 1]
        BY <3>1, <4>1, SubSeqProperties, SMTT(20) DEF m
      <4>3. 1..m - 1 + 1 = 1..m /\ \A i \in 1..m : 1 + i - 1 = i
        BY <4>1
      <4>4. Len(SubSeq(s, 1, m)) = m
        BY <4>1, <4>2
      <4>5. \A i \in 1..m : SubSeq(s, 1, m)[i] = s[i]
        <5> TAKE i \in 1..m
        <5>1. i \in 1..m - 1 + 1 /\ 1 + i - 1 = i
          BY <4>3
        <5> HIDE <4>3
        <5> QED BY <4>2, <5>1
      <4> QED BY <4>2, <4>4, <4>5 DEF m
    <3> QED BY <3>2, LenProperties
  <2>3. Innermost(s) = s[Len(s)] /\ Len(s) \in DOMAIN s
    BY <1>1, <1>3, <2>1 DEF Innermost
  <2> HIDE DEF r
  <2>4. ToSet(r) = ToSet(s) \ {s[Len(s)]}
    <3>1. \A i \in 1..Len(s) - 1 : i \in 1..Len(s) /\ i # Len(s)
      BY <2>1
    <3>2. \A i \in 1..Len(s) : i # Len(s) => i \in 1..Len(s) - 1
      BY <2>1
    <3>3. \A i \in 1..Len(s) - 1 : s[i] # s[Len(s)]
      BY <1>1, <2>3, <3>1 DEF IsInjective
    <3>4. ToSet(s) = {s[i] : i \in 1..Len(s)}
          /\ ToSet(r) = {s[i] : i \in 1..Len(s) - 1}
      BY <1>1, <2>2 DEF ToSet
    <3> QED BY <3>1, <3>2, <3>3, <3>4
  <2>5. IsInjective(r)
    BY <1>1, <2>1, <2>2 DEF IsInjective
  <2>6. Innermost(s) \in ToSet(s)
    BY <2>3 DEF ToSet
  <2> QED BY <2>2, <2>3, <2>4, <2>5, <2>6 DEF r
<1>4. ASSUME NEW x \in Node \ ToSet(s)
      PROVE  /\ Append(s, x) \in Seq(Node) /\ IsInjective(Append(s, x))
             /\ ToSet(Append(s, x)) = ToSet(s) \cup {x}
  <2> DEFINE r == Append(s, x)
  <2>1. /\ r \in Seq(Node) /\ DOMAIN r = 1..Len(s) + 1
        /\ \A i \in 1..Len(s) : r[i] = s[i]
        /\ r[Len(s) + 1] = x
    <3>1. r \in Seq(Node) /\ Len(r) = Len(s) + 1
      BY AppendProperties
    <3>2. DOMAIN r = 1..Len(s) + 1
      BY <3>1, LenProperties
    <3> QED BY <3>1, <3>2, AppendProperties
  <2> HIDE DEF r
  <2>2. \A i \in 1..Len(s) : s[i] # x
    BY <1>1, <1>4 DEF ToSet
  <2>3. \A i \in 1..Len(s) + 1 : i \in 1..Len(s) \/ i = Len(s) + 1
    BY <1>1
  <2>4. \A i \in 1..Len(s) : i \in 1..Len(s) + 1
    BY <1>1
  <2>5. Len(s) + 1 \in 1..Len(s) + 1
    BY <1>1
  <2>6. IsInjective(r)
    BY <1>1, <2>1, <2>2, <2>3 DEF IsInjective
  <2>7. ToSet(r) = ToSet(s) \cup {x}
    BY <1>1, <2>1, <2>3, <2>4, <2>5 DEF ToSet
  <2> QED BY <2>1, <2>6, <2>7 DEF r
<1>5. Innermost(s) \in {Document} \cup ToSet(s)
  BY <1>3 DEF Innermost
<1> QED BY <1>2, <1>3, <1>4, <1>5

LEMMA FailKeeps ==
  ASSUME ParserInv, Fail PROVE ParserInv'
<1>1. Unfinished' = {}
  BY DEF Unfinished, Fail, ToSet
<1>2. Hanging(parsed', {})
  BY EmptyHangs DEF Fail
<1>3. open' \in Seq(Node) /\ IsInjective(open')
  BY DEF Fail, IsInjective
<1> QED BY <1>1, <1>2, <1>3 DEF ParserInv, Fail

LEMMA ParseKeeps ==
  ASSUME ParserInv, NEW t \in Value, Parse(t) PROVE ParserInv'
<1>1. /\ parsing = "idle" /\ tag = Null /\ open = <<>>
      /\ UNCHANGED <<parsed, open, tag, closing>>
  BY DEF ParserInv, Parse
<1>2. charBuffer' \in Value
  <2> DEFINE N == {i \in DOMAIN t : t[i] = NUL}
  <2>0. Len(t) \in Nat /\ DOMAIN t = 1..Len(t)
    BY LenProperties DEF Value
  <2>1. CASE N = {}
    BY <2>1 DEF Parse, UptoNUL
  <2>2. CASE N # {}
    <3>1. N \in SUBSET Nat
      BY <2>0
    <3>2. Min(N) \in N
      <4> HIDE DEF N
      <4> QED BY <2>2, <3>1, LeastOf
    <3>3. charBuffer' = SubSeq(t, 1, Min(N) - 1)
      BY <2>2 DEF Parse, UptoNUL
    <3>4. Min(N) \in 1..Len(t)
      BY <2>0, <3>2
    <3> HIDE DEF N
    <3> QED BY <2>0, <3>3, <3>4, PartOfText
  <2> QED BY <2>1, <2>2
<1>3. place' \in Nat \ {0}
  BY <1>2, SkipGoesOn DEF Parse, SkipWhiteSpace
<1>4. parsing' \in {"failed", "children"}
  BY DEF Parse
<1>5. Unfinished' = Unfinished /\ parsed' = parsed
  BY <1>1 DEF Unfinished
<1> QED BY <1>1, <1>2, <1>3, <1>4, <1>5 DEF ParserInv

\* Where the parser is in its loop over the children of the holder
LEMMA InChildren ==
  ASSUME ParserInv, parsing = "children"
  PROVE  /\ tag = Null /\ Unfinished = ToSet(open)
         /\ Hanging(parsed, ToSet(open)) /\ ToSet(open) \subseteq Elements(parsed)
         /\ holder \in {Document} \cup ToSet(open)
<1>1. tag = Null
  BY DEF ParserInv
<1>2. Unfinished = ToSet(open)
  BY <1>1 DEF Unfinished
<1>3. holder \in {Document} \cup ToSet(open)
  BY StackFacts DEF ParserInv, holder
<1> QED BY <1>1, <1>2, <1>3 DEF ParserInv

LEMMA ParseEndKeeps ==
  ASSUME ParserInv, ParseEnd PROVE ParserInv' /\ Advances
<1>1. CASE open # <<>>
  BY <1>1, FailKeeps DEF ParseEnd, Fail, Advances
<1>2. CASE open = <<>>
  <2>1. /\ parsing' = "done" /\ parsing = "children"
        /\ UNCHANGED <<charBuffer, place, parsed, open, tag>>
    BY <1>2 DEF ParseEnd, InLoop
  <2>2. Unfinished' = Unfinished
    BY <2>1 DEF Unfinished
  <2> QED BY <1>2, <2>1, <2>2 DEF ParserInv, Advances
<1> QED BY <1>1, <1>2

LEMMA ParseMarkedKeeps ==
  ASSUME ParserInv, ParseMarked PROVE ParserInv' /\ Advances
<1> DEFINE k == Next.kind
           c == ContentAt(charBuffer, k, Next.p)
           fails == c.p = 0 \/ (k = "declaration" /\ ~WellLocated(parsed, holder))
<1>1. CASE fails
  BY <1>1, FailKeeps DEF ParseMarked, Fail, Advances
<1>2. CASE ~fails
  <2>1. /\ parsing = "children" /\ k \in Kind \ {"element"}
        /\ Allocated(parsed) # Node
    BY DEF ParseMarked, InLoop, HasCell, Kind
  <2>2. /\ parsed' = InsertEndChild(New(parsed, k, c.value), holder,
                                    Fresh(parsed))
        /\ place' = c.p
        /\ UNCHANGED <<charBuffer, open, tag, closing, parsing>>
    BY <1>2 DEF ParseMarked
  <2>3. /\ Next.p \in Nat \ {0} /\ Next.p >= place
        /\ k = "text" => Next.p = place
        /\ k = "text" => charBuffer[SkipWhiteSpace(charBuffer, place)] # "<"
        /\ k # "text" => Next.p > place
    BY <2>1, IdentifyFacts DEF ParserInv, Next, Kind
  <2>4. /\ c.p \in Nat \ {0} /\ c.p >= Next.p /\ c.value \in Value
        /\ k = "text" => c.p <= Len(charBuffer) /\ charBuffer[c.p] = "<"
    BY <1>2, <2>1, <2>3, ContentFacts DEF ParserInv
  <2> HIDE DEF c, k
  <2>5. place' > place
    <3>1. CASE k # "text"
      BY <2>2, <2>3, <2>4, <3>1 DEF ParserInv
    <3>2. ASSUME k = "text", c.p = place PROVE FALSE
      <4>1. charBuffer[place] = "<" /\ place <= Len(charBuffer)
        BY <2>4, <3>2
      <4>2. SkipWhiteSpace(charBuffer, place) = place
        <5> DEFINE q == SkipWhiteSpace(charBuffer, place)
        <5>1. /\ q \in Nat /\ q >= place
              /\ \A i \in place..q - 1 : charBuffer[i] \in Blank
          BY SkipGoesOn DEF ParserInv, SkipWhiteSpace
        <5> HIDE DEF q
        <5>2. q # place => place \in place..q - 1
          BY <5>1 DEF ParserInv
        <5> QED BY <4>1, <5>1, <5>2 DEF Blank, LineEnd, q
      <4> QED BY <2>3, <3>2, <4>1, <4>2
    <3> QED BY <2>2, <2>3, <2>4, <3>1, <3>2 DEF ParserInv
  <2>6. Hanging(parsed', ToSet(open)) /\ ToSet(open) \subseteq Elements(parsed')
    <3>1. GotChild(parsed, parsed', ToSet(open), Fresh(parsed), k, c.value,
                   holder)
      BY <2>1, <2>2, <2>4, InChildren, ChildHangs
    <3> QED BY <3>1 DEF GotChild
  <2>7. Unfinished' = ToSet(open)
    BY <2>1, <2>2, InChildren DEF Unfinished
  <2> QED BY <2>1, <2>2, <2>4, <2>5, <2>6, <2>7 DEF ParserInv, Advances
<1> QED BY <1>1, <1>2

LEMMA ParseElementKeeps ==
  ASSUME ParserInv, ParseElement PROVE ParserInv' /\ Advances
<1> DEFINE p == SkipWhiteSpace(charBuffer, Next.p)
           start == IF Starts(charBuffer, p, <<"/">>) THEN p + 1 ELSE p
           end == ParseName(charBuffer, start)
           v == SubSeq(charBuffer, start, end - 1)
<1>1. CASE end = start
  BY <1>1, FailKeeps DEF ParseElement, Fail, Advances
<1>2. CASE end # start
  <2>1. /\ parsing = "children" /\ Next.kind = "element"
        /\ Allocated(parsed) # Node
    BY DEF ParseElement, InLoop, HasCell
  <2>2. /\ parsed' = New(parsed, "element", v)
        /\ tag' = Fresh(parsed) /\ place' = end /\ parsing' = "attributes"
        /\ UNCHANGED <<charBuffer, open>>
    BY <1>2 DEF ParseElement
  <2>3. Next.p \in Nat \ {0} /\ Next.p > place
    <3>1. charBuffer \in Value /\ place \in Nat \ {0}
      BY DEF ParserInv
    <3> QED BY ONLY <2>1, <3>1, IdentifyFacts DEF Next
  <2>4. p \in Nat /\ p >= Next.p
    BY <2>3, SkipGoesOn DEF ParserInv, SkipWhiteSpace
  <2> HIDE DEF p
  <2>5. start \in Nat \ {0} /\ start > place
    BY <2>3, <2>4 DEF ParserInv
  <2> HIDE DEF start
  <2>6. end \in Nat /\ end >= start /\ end <= Len(charBuffer) + 1
    BY <1>2, <2>5, NameGoesOn DEF ParserInv
  <2> HIDE DEF end
  <2>7. v \in Value
    <3>0. Len(charBuffer) \in Nat
      BY LenProperties DEF ParserInv, Value
    <3> QED BY <2>5, <2>6, <3>0, PartOfText DEF ParserInv
  <2> HIDE DEF v
  <2> DEFINE n == Fresh(parsed)
  <2>8. "element" \in Kind
    BY DEF Kind
  <2>9. Began(parsed, parsed', ToSet(open), n, "element", v)
    BY <2>1, <2>2, <2>7, <2>8, InChildren, NewHangs
  <2>10. n \in Node /\ n \notin ToSet(open)
    BY <2>9 DEF Began
  <2> HIDE DEF n
  <2>11. Unfinished' = ToSet(open) \cup {n}
    BY <2>2, <2>10, NullIsNoNode DEF Unfinished, n
  <2>12. ToSet(open) \cup {n} \subseteq Elements(parsed')
    BY <2>1, <2>9, InChildren DEF Began, Elements
  <2>13. place' > place /\ place' \in Nat \ {0}
    BY <2>2, <2>5, <2>6 DEF ParserInv
  <2> QED BY <2>2, <2>9, <2>10, <2>11, <2>12, <2>13 DEF ParserInv, Advances, n,
         Began
<1> QED BY <1>1, <1>2

\* Where the parser is in its loop over the attributes of a tag
LEMMA InAttributes ==
  ASSUME ParserInv, InTag
  PROVE  /\ tag \in Node \ ToSet(open) /\ tag # Null
         /\ Unfinished = ToSet(open) \cup {tag}
         /\ Unfinished \subseteq Elements(parsed) /\ Hanging(parsed, Unfinished)
         /\ \A m \in Node : parsed.parent[m] # tag
         /\ holder \in {Document} \cup ToSet(open)
         /\ Here \in Nat \ {0} /\ Here >= place
<1>1. tag \in Node \ ToSet(open) /\ tag # Null
  BY NullIsNoNode DEF ParserInv, InTag
<1>2. Unfinished = ToSet(open) \cup {tag}
  BY <1>1 DEF Unfinished
<1>3. holder \in {Document} \cup ToSet(open)
  BY StackFacts DEF ParserInv, holder
<1>4. Here \in Nat \ {0} /\ Here >= place
  <2>1. Here \in Nat /\ Here >= place
    BY SkipGoesOn DEF ParserInv, Here, SkipWhiteSpace
  <2> QED BY <2>1 DEF ParserInv
<1> QED BY <1>1, <1>2, <1>3, <1>4 DEF ParserInv, InTag

LEMMA ParseAttributeKeeps ==
  ASSUME ParserInv, ParseAttribute PROVE ParserInv' /\ Advances
<1> DEFINE r == AttributeAt(charBuffer, Here)
           fails == r.p = 0 \/ FindAttribute(parsed, tag, r.a.name) # 0
<1>1. CASE fails
  BY <1>1, FailKeeps DEF ParseAttribute, Fail, Advances
<1>2. CASE ~fails
  <2>1. /\ InTag /\ r.p # 0
        /\ parsed' = SetAttribute(parsed, tag, r.a) /\ place' = r.p
        /\ UNCHANGED <<charBuffer, open, tag, closing, parsing>>
    BY <1>2 DEF ParseAttribute
  <2>2. r.p \in Nat /\ r.p > Here /\ r.a \in Attribute
    BY <2>1, InAttributes, AttributeFacts DEF ParserInv
  <2> HIDE DEF r
  <2>3. tag \in Allocated(parsed)
    BY <2>1, InAttributes DEF Hanging
  <2>4. /\ Hanging(parsed', Unfinished) /\ parsed'.parent = parsed.parent
        /\ parsed'.kind = parsed.kind
    BY <2>1, <2>2, <2>3, InAttributes, AttributeHangs
  <2>5. Unfinished' = Unfinished
    BY <2>1 DEF Unfinished
  <2>6. Elements(parsed') = Elements(parsed)
    BY <2>4 DEF Elements
  <2>7. place' > place /\ place' \in Nat \ {0}
    BY <2>1, <2>2, InAttributes DEF ParserInv
  <2>8. Unfinished' \subseteq Elements(parsed') /\ Hanging(parsed', Unfinished')
    BY <2>4, <2>5, <2>6 DEF ParserInv
  <2>9. /\ tag \in Node \ ToSet(open) /\ parsing = "attributes"
        /\ \A m \in Node : parsed'.parent[m] # tag
    BY <2>1, <2>4, InAttributes DEF InTag
  <2> QED BY <2>1, <2>7, <2>8, <2>9 DEF ParserInv, Advances
<1> QED BY <1>1, <1>2

LEMMA ClosedElementKeeps ==
  ASSUME ParserInv, ClosedElement PROVE ParserInv' /\ Advances
<1>1. /\ InTag /\ parsed' = InsertEndChild(parsed, holder, tag)
      /\ tag' = Null /\ place' = Here + 2 /\ parsing' = "children"
      /\ UNCHANGED <<charBuffer, open>>
  BY DEF ClosedElement, TagEnds
<1>2. holder \in {Document} \cup Elements(parsed)
      /\ holder \in {Document} \cup (Unfinished \ {tag}) /\ tag \in Unfinished
  BY <1>1, InAttributes
<1>3. Hanging(parsed', Unfinished \ {tag})
  BY <1>1, <1>2, InAttributes, InsertHangs
<1>4. Elements(parsed') = Elements(parsed)
  <2>1. Sound(parsed) /\ tag \in Allocated(parsed) \ Linked(parsed)
    BY <1>1, <1>2, InAttributes DEF Hanging
  <2> QED BY <1>1, <1>2, <2>1, InsertFields
<1>5. Unfinished' = Unfinished \ {tag}
  BY <1>1, InAttributes DEF Unfinished
<1>6. place' > place /\ place' \in Nat \ {0}
  BY <1>1, InAttributes DEF ParserInv
<1> QED BY <1>1, <1>3, <1>4, <1>5, <1>6, InAttributes DEF ParserInv, Advances

LEMMA OpenTagKeeps ==
  ASSUME ParserInv, OpenTag PROVE ParserInv' /\ Advances
<1>1. /\ InTag /\ parsed' = parsed /\ open' = Append(open, tag)
      /\ tag' = Null /\ place' = Here + 1 /\ parsing' = "children"
      /\ charBuffer' = charBuffer
  BY DEF OpenTag, TagEnds
<1>2. /\ open' \in Seq(Node) /\ IsInjective(open')
      /\ ToSet(open') = ToSet(open) \cup {tag}
  BY <1>1, InAttributes, StackFacts DEF ParserInv
<1>3. Unfinished' = Unfinished
  BY <1>1, <1>2, InAttributes DEF Unfinished
<1>4. place' > place /\ place' \in Nat \ {0}
  BY <1>1, InAttributes DEF ParserInv
<1> QED BY <1>1, <1>2, <1>3, <1>4 DEF ParserInv, Advances

\* The closing tag's own node goes, and the element is put into the list of
\* the one around it.
LEMMA ClosingFields ==
  ASSUME ParserInv, InTag, open # <<>>
  PROVE  /\ holder \in ToSet(open) /\ holder # tag
         /\ outer \in Seq(Node) /\ IsInjective(outer)
         /\ ToSet(outer) = ToSet(open) \ {holder}
         /\ Unfinished \ {tag, holder} = ToSet(outer)
         /\ Innermost(outer) \in {Document} \cup ToSet(outer)
         /\ Ended(parsed, InsertEndChild(Dropped(parsed, tag), Innermost(outer),
                                         holder),
                  Unfinished, tag, holder, Innermost(outer))
<1>1. /\ holder \in ToSet(open) /\ holder # tag
      /\ outer \in Seq(Node) /\ IsInjective(outer)
      /\ ToSet(outer) = ToSet(open) \ {holder}
  BY InAttributes, StackFacts DEF ParserInv, holder, outer
<1>2. Innermost(outer) \in {Document} \cup ToSet(outer)
  BY <1>1, StackFacts
<1>3. /\ tag \in Unfinished /\ holder \in Unfinished \ {tag}
      /\ Unfinished \ {tag, holder} = ToSet(outer)
      /\ Unfinished \subseteq Elements(parsed)
  BY <1>1, InAttributes
<1>4. Innermost(outer) \in {Document} \cup (Unfinished \ {tag, holder})
  BY <1>2, <1>3
<1>5. Hanging(parsed, Unfinished) /\ \A m \in Node : parsed.parent[m] # tag
  BY InAttributes
<1> QED BY <1>1, <1>2, <1>3, <1>4, <1>5, EndTagHangs

LEMMA ClosingTagKeeps ==
  ASSUME ParserInv, ClosingTag PROVE ParserInv' /\ Advances
<1>1. CASE parsed.value[tag] # parsed.value[holder]
  BY <1>1, FailKeeps DEF ClosingTag, Fail, Advances
<1>2. CASE parsed.value[tag] = parsed.value[holder]
  <2>1. /\ InTag /\ open # <<>>
        /\ parsed' = InsertEndChild(Dropped(parsed, tag), Innermost(outer),
                                    holder)
        /\ open' = outer /\ tag' = Null /\ place' = Here + 1
        /\ parsing' = "children" /\ charBuffer' = charBuffer
    BY <1>2 DEF ClosingTag, TagEnds
  <2>2. /\ open' \in Seq(Node) /\ IsInjective(open')
        /\ Hanging(parsed', ToSet(open')) /\ ToSet(open') \subseteq Elements(parsed')
    BY <2>1, ClosingFields DEF Ended
  <2>3. Unfinished' = ToSet(open')
    BY <2>1 DEF Unfinished
  <2>4. place' > place /\ place' \in Nat \ {0}
    BY <2>1, InAttributes DEF ParserInv
  <2> QED BY <2>1, <2>2, <2>3, <2>4 DEF ParserInv, Advances
<1> QED BY <1>1, <1>2

LEMMA StrayTagKeeps ==
  ASSUME ParserInv, StrayTag PROVE ParserInv' /\ Advances
<1>1. /\ InTag /\ open = <<>> /\ parsed' = Dropped(parsed, tag)
      /\ parsing' = "done" /\ tag' = Null /\ place' = Here + 1
      /\ UNCHANGED <<charBuffer, open>>
  BY DEF StrayTag
<1>2. Unfinished = {tag} /\ Unfinished' = {}
  BY <1>1, InAttributes, StackFacts DEF Unfinished, ParserInv
<1>3. Hanging(parsed', {tag} \ {tag})
  BY <1>1, <1>2, InAttributes, DropHangs
<1>4. Hanging(parsed', {})
  BY <1>3
<1>5. place' \in Nat \ {0}
  BY <1>1, InAttributes
<1> QED BY <1>1, <1>2, <1>4, <1>5 DEF ParserInv, Advances

LEMMA ParsingKeeps ==
  ASSUME ParserInv, Parsing PROVE ParserInv' /\ Advances
<1>1. CASE BadTag
  BY <1>1, FailKeeps DEF BadTag, Fail, Advances
<1> QED BY <1>1, ParseEndKeeps, ParseMarkedKeeps, ParseElementKeeps,
       ParseAttributeKeeps, ClosedElementKeeps, OpenTagKeeps, ClosingTagKeeps,
       StrayTagKeeps DEF Parsing

LEMMA ParserStarts == ParserInit => ParserInv
<1> SUFFICES ASSUME ParserInit PROVE ParserInv
  OBVIOUS
<1>1. Unfinished = {} /\ <<>> \in Value /\ <<>> \in Seq(Node) /\ IsInjective(<<>>)
  BY DEF ParserInit, Unfinished, ToSet, Value, IsInjective
<1> QED BY <1>1, EmptyHangs DEF ParserInit, ParserInv

LEMMA NothingIsLeft == ParserInv => ParseLeavesNothing
<1> SUFFICES ASSUME ParserInv, parsedAll
             PROVE  /\ IsWellLinked(parsed) /\ IsCounted(parsed)
                    /\ InTree(parsed) = Allocated(parsed)
  BY DEF ParseLeavesNothing
<1>1. Unfinished = {}
  BY DEF ParserInv, parsedAll, Unfinished, ToSet
<1>2. Hanging(parsed, {})
  BY <1>1 DEF ParserInv
<1> QED BY <1>2, HangingIsAll

LEMMA ParserStep ==
  ASSUME ParserInv, [(\E t \in Value : Parse(t)) \/ Parsing]_parserVars
  PROVE  ParserInv' /\ [Advances]_parserVars
<1>1. CASE UNCHANGED parserVars
  BY <1>1 DEF parserVars, ParserInv, Unfinished
<1>2. ASSUME NEW t \in Value, Parse(t) PROVE ParserInv' /\ Advances
  BY <1>2, ParseKeeps DEF Parse, Advances
<1> QED BY <1>1, <1>2, ParsingKeeps

(* Whatever the text is: when the parser has ended, the document it leaves   *)
(* is well linked and counted, and nothing that was allocated is outside the *)
(* tree, so XMLDocument::Clear frees it all.                                 *)
THEOREM ParserLeavesNothing == ParserSpec => []ParseLeavesNothing
<1>1. ParserInit => ParserInv
  BY ParserStarts
<1>2. ParserInv /\ [(\E t \in Value : Parse(t)) \/ Parsing]_parserVars
        => ParserInv'
  BY ParserStep
<1>3. ParserInv => ParseLeavesNothing
  BY NothingIsLeft
<1> QED BY <1>1, <1>2, <1>3, PTL DEF ParserSpec

(* Whatever the text is: no turn of a loop of the parser stays where it is,  *)
(* so each takes at most as many as the text is long.                        *)
THEOREM ParserGoesOn == ParserSpec => ParserAdvances
<1>1. ParserInit => ParserInv
  BY ParserStarts
<1>2. ParserInv /\ [(\E t \in Value : Parse(t)) \/ Parsing]_parserVars
        => ParserInv' /\ [Advances]_parserVars
  BY ParserStep
<1> QED BY <1>1, <1>2, PTL DEF ParserSpec, ParserAdvances

-----------------------------------------------------------------------------
(* What the tags of a text say of the document                              *)

\* A tag that opens an element of the name v begins in t.
Opens(t, v) ==
  \E q \in 1..Len(t) :
    LET s == SkipWhiteSpace(t, q + 1)
    IN t[q] = "<" /\ s <= Len(t) /\ t[s] = v[1]

\* One that closes it begins in t, and its name is before p.
Closes(t, v, p) ==
  \E q \in 1..Len(t) :
    LET s == SkipWhiteSpace(t, q + 1)
    IN /\ t[q] = "<" /\ s + 1 <= Len(t) /\ s + 1 < p
       /\ t[s] = "/" /\ t[s + 1] = v[1]
Closed(t, v) == \E p \in 1..Len(t) : Closes(t, v, p) /\ t[p] = ">"

\* An element that is open was opened, and one with something below it that is
\* in a list was closed too.
TagInv ==
  /\ \A n \in ToSet(open) : Opens(charBuffer, parsed.value[n])
  /\ parsing = "attributes" =>
       IF closing THEN Closes(charBuffer, parsed.value[tag], place)
       ELSE Opens(charBuffer, parsed.value[tag])
  /\ \A m \in Node : \A n \in Linked(parsed) :
       parsed.parent[m] = n =>
         Opens(charBuffer, parsed.value[n]) /\ Closed(charBuffer, parsed.value[n])

LEMMA FailTags ==
  ASSUME ParserInv, Fail PROVE TagInv'
<1>1. Linked(parsed') = {}
  BY DEF Fail, Linked, Empty, NoCell
<1> QED BY <1>1 DEF TagInv, Fail, ToSet

LEMMA ParseTags ==
  ASSUME ParserInv, NEW t, Parse(t) PROVE TagInv'
<1>1. open = <<>> /\ UNCHANGED <<parsed, open, tag, closing>>
      /\ parsing' # "attributes"
  BY DEF ParserInv, Parse
<1>2. Linked(parsed) = {}
  BY DEF ParserInv, Parse, Linked, Empty, NoCell
<1> QED BY <1>1, <1>2 DEF TagInv, ToSet

LEMMA ParseMarkedTags ==
  ASSUME ParserInv, TagInv, ParseMarked PROVE TagInv'
<1> DEFINE k == Next.kind
           c == ContentAt(charBuffer, k, Next.p)
           fails == c.p = 0 \/ (k = "declaration" /\ ~WellLocated(parsed, holder))
           n == Fresh(parsed)
<1>1. CASE fails
  BY <1>1, FailTags DEF ParseMarked
<1>2. CASE ~fails
  <2>1. /\ parsing = "children" /\ k \in Kind \ {"element"}
        /\ Allocated(parsed) # Node
    BY DEF ParseMarked, InLoop, HasCell, Kind
  <2>2. /\ parsed' = InsertEndChild(New(parsed, k, c.value), holder, n)
        /\ UNCHANGED <<charBuffer, open, tag, closing, parsing>>
    BY <1>2 DEF ParseMarked
  <2>3. Next.p \in Nat \ {0}
    BY <2>1, IdentifyFacts DEF ParserInv, Next, Kind
  <2>4. c.value \in Value
    BY <1>2, <2>1, <2>3, ContentFacts DEF ParserInv
  <2> HIDE DEF c, k, n
  <2>5. GotChild(parsed, parsed', ToSet(open), n, k, c.value, holder)
    BY <2>1, <2>2, <2>4, InChildren, ChildHangs DEF n
  <2>6. \A m \in ToSet(open) : m \in Node /\ parsed'.value[m] = parsed.value[m]
    BY <2>1, <2>5, InChildren, StackFacts DEF GotChild, ParserInv
  <2>7. ASSUME NEW m \in Node, NEW o \in Linked(parsed'), parsed'.parent[m] = o
        PROVE  /\ o \in Linked(parsed) /\ parsed.parent[m] = o
               /\ parsed'.value[o] = parsed.value[o]
    <3>1. o \in Node /\ o # Document /\ o # Null /\ parsed'.parent[o] # Null
      BY NullIsNoNode DEF Linked
    <3>2. holder \in {Document} \cup ToSet(open)
      BY <2>1, InChildren
    <3>3. ToSet(open) \cap Linked(parsed') = {}
      BY <2>5 DEF GotChild, Hanging
    <3>4. parsed.parent[m] = o /\ o # n
      BY <2>5, <2>7, <3>1, <3>2, <3>3 DEF GotChild
    <3> QED BY <2>5, <3>1, <3>4 DEF GotChild, Linked
  <2> QED BY <2>1, <2>2, <2>6, <2>7 DEF TagInv
<1> QED BY <1>1, <1>2

LEMMA ParseElementTags ==
  ASSUME ParserInv, TagInv, ParseElement PROVE TagInv'
<1> DEFINE p == SkipWhiteSpace(charBuffer, Next.p)
           slash == Starts(charBuffer, p, <<"/">>)
           start == IF slash THEN p + 1 ELSE p
           end == ParseName(charBuffer, start)
           v == SubSeq(charBuffer, start, end - 1)
           n == Fresh(parsed)
<1>1. CASE end = start
  BY <1>1, FailTags DEF ParseElement
<1>2. CASE end # start
  <2>0. Len(charBuffer) \in Nat
    BY LenProperties DEF ParserInv, Value
  <2>1. /\ parsing = "children" /\ Next.kind = "element"
        /\ Allocated(parsed) # Node
    BY DEF ParseElement, InLoop, HasCell
  <2>2. /\ parsed' = New(parsed, "element", v)
        /\ tag' = n /\ place' = end /\ closing' = slash
        /\ parsing' = "attributes"
        /\ UNCHANGED <<charBuffer, open>>
    BY <1>2 DEF ParseElement
  <2>3. \E q \in 1..Len(charBuffer) : charBuffer[q] = "<" /\ Next.p = q + 1
    <3> DEFINE q == SkipWhiteSpace(charBuffer, place)
    <3>1. /\ q \in Nat /\ q >= place /\ q <= Len(charBuffer)
          /\ charBuffer[q] = "<" /\ Next.p = q + 1
      BY <2>1, IdentifyFacts DEF ParserInv, Next
    <3> HIDE DEF q
    <3>2. q \in 1..Len(charBuffer)
      BY <2>0, <3>1 DEF ParserInv
    <3> QED BY <3>1, <3>2
  <2>4. PICK q \in 1..Len(charBuffer) :
          charBuffer[q] = "<" /\ p = SkipWhiteSpace(charBuffer, q + 1)
    BY <2>3
  <2>5. p \in Nat \ {0}
    <3>1. q + 1 \in Nat \ {0}
      BY <2>0
    <3>2. p \in Nat /\ p >= q + 1
      BY <2>4, <3>1, SkipGoesOn DEF ParserInv, SkipWhiteSpace
    <3> QED BY <2>0, <3>2
  <2> HIDE DEF p
  <2>6. slash => charBuffer[p] = "/"
    BY <2>5 DEF Starts
  <2> HIDE DEF slash
  <2>7. start \in Nat \ {0}
    BY <2>5
  <2>8. end \in Nat /\ end > start /\ end <= Len(charBuffer) + 1
    <3> HIDE DEF start
    <3> QED BY <1>2, <2>7, NameGoesOn DEF ParserInv
  <2>9. start <= Len(charBuffer) /\ v \in Value /\ v[1] = charBuffer[start]
    <3> HIDE DEF start, end
    <3>1. start <= Len(charBuffer) /\ end - 1 \in Int /\ end - 1 <= Len(charBuffer)
      BY <2>0, <2>7, <2>8
    <3>2. v \in Value
      BY <2>7, <3>1, PartOfText DEF ParserInv
    <3>3. \A i \in start..end - 1 : charBuffer[i] \in Symbol
      BY <2>0, <2>7, <3>1, ElementOfSeq DEF ParserInv, Value
    <3>4. 1 \in 1..(end - 1) - start + 1 /\ start + 1 - 1 = start
      BY <2>7, <2>8
    <3>5. v[1] = charBuffer[start + 1 - 1]
      BY <2>7, <3>1, <3>3, <3>4, SubSeqProperties
    <3> QED BY <3>1, <3>2, <3>4, <3>5
  <2> HIDE DEF v, end
  <2>10. IF slash THEN Closes(charBuffer, v, end) ELSE Opens(charBuffer, v)
    <3>1. CASE slash
      BY <2>0, <2>4, <2>5, <2>6, <2>8, <2>9, <3>1 DEF Closes
    <3>2. CASE ~slash
      BY <2>4, <2>9, <3>2 DEF Opens
    <3> QED BY <3>1, <3>2
  <2> HIDE DEF n
  <2>11. Began(parsed, parsed', ToSet(open), n, "element", v)
    <3>1. "element" \in Kind
      BY DEF Kind
    <3> QED BY <2>1, <2>2, <2>9, <3>1, InChildren, NewHangs DEF n
  <2>12. /\ \A m \in ToSet(open) : m \in Node /\ parsed'.value[m] = parsed.value[m]
         /\ parsed'.value[n] = v
    BY <2>11, StackFacts DEF Began, ParserInv
  <2>13. ASSUME NEW m \in Node, NEW o \in Linked(parsed'), parsed'.parent[m] = o
         PROVE  /\ o \in Linked(parsed) /\ parsed.parent[m] = o
                /\ parsed'.value[o] = parsed.value[o]
    BY <2>11, <2>13 DEF Began, Linked
  <2> QED BY <2>2, <2>10, <2>12, <2>13 DEF TagInv
<1> QED BY <1>1, <1>2

LEMMA ParseAttributeTags ==
  ASSUME ParserInv, TagInv, ParseAttribute PROVE TagInv'
<1> DEFINE r == AttributeAt(charBuffer, Here)
           fails == r.p = 0 \/ FindAttribute(parsed, tag, r.a.name) # 0
<1>1. CASE fails
  BY <1>1, FailTags DEF ParseAttribute
<1>2. CASE ~fails
  <2>1. /\ InTag /\ r.p # 0
        /\ parsed' = SetAttribute(parsed, tag, r.a) /\ place' = r.p
        /\ UNCHANGED <<charBuffer, open, tag, closing, parsing>>
    BY <1>2 DEF ParseAttribute
  <2>2. r.p \in Nat /\ r.p > Here /\ r.a \in Attribute
    BY <2>1, InAttributes, AttributeFacts DEF ParserInv
  <2> HIDE DEF r
  <2>3. tag \in Allocated(parsed)
    BY <2>1, InAttributes DEF Hanging
  <2>4. parsed'.parent = parsed.parent /\ parsed'.value = parsed.value
    BY <2>1, <2>2, <2>3, InAttributes, AttributeHangs
  <2>5. place' > place /\ place \in Nat
    BY <2>1, <2>2, InAttributes DEF ParserInv
  <2>6. ASSUME NEW v, Closes(charBuffer, v, place)
        PROVE  Closes(charBuffer, v, place')
    <3>1. ASSUME NEW q \in 1..Len(charBuffer),
                 SkipWhiteSpace(charBuffer, q + 1) + 1 < place
          PROVE  SkipWhiteSpace(charBuffer, q + 1) + 1 < place'
      <4>1. Len(charBuffer) \in Nat
        BY LenProperties DEF ParserInv, Value
      <4>2. SkipWhiteSpace(charBuffer, q + 1) \in Nat
        BY <4>1, SkipGoesOn DEF ParserInv, SkipWhiteSpace
      <4>3. place' \in Nat
        BY <2>1, <2>2
      <4> QED BY <2>5, <3>1, <4>2, <4>3
    <3> QED BY <2>6, <3>1 DEF Closes
  <2>7. Linked(parsed') = Linked(parsed)
    BY <2>4 DEF Linked
  <2> QED BY <2>1, <2>4, <2>6, <2>7 DEF TagInv, InTag
<1> QED BY <1>1, <1>2

LEMMA ClosedElementTags ==
  ASSUME ParserInv, TagInv, ClosedElement PROVE TagInv'
<1>1. /\ InTag /\ parsed' = InsertEndChild(parsed, holder, tag)
      /\ parsing' = "children" /\ UNCHANGED <<charBuffer, open>>
  BY DEF ClosedElement, TagEnds
<1>2. Sound(parsed) /\ tag \in Allocated(parsed) \ Linked(parsed)
      /\ holder \in {Document} \cup Elements(parsed)
  BY <1>1, InAttributes DEF Hanging
<1>3. /\ parsed'.value = parsed.value
      /\ parsed'.parent = [parsed.parent EXCEPT ![tag] = holder]
      /\ Linked(parsed') = Linked(parsed) \cup {tag}
  BY <1>1, <1>2, InsertFields
<1>4. ASSUME NEW m \in Node, NEW o \in Linked(parsed'), parsed'.parent[m] = o
      PROVE  o \in Linked(parsed) /\ parsed.parent[m] = o
  <2>1. parsed.parent \in [Node -> Parent \cup {Null}]
    BY <1>2 DEF Sound, PointersOK
  <2>2. o \in Node /\ o # Document
    BY NullIsNoNode DEF Linked
  <2>3. holder \notin Linked(parsed) \cup {tag} \/ holder = Document
    BY <1>1, InAttributes DEF Hanging
  <2>4. m # tag
    BY <1>3, <1>4, <2>1, <2>2, <2>3
  <2>5. parsed.parent[m] = o
    BY <1>3, <1>4, <2>1, <2>4
  <2> QED BY <1>1, <1>3, <2>5, InAttributes
<1> QED BY <1>1, <1>3, <1>4 DEF TagInv

LEMMA OpenTagTags ==
  ASSUME ParserInv, TagInv, OpenTag PROVE TagInv'
<1>1. /\ InTag /\ parsed' = parsed /\ open' = Append(open, tag) /\ ~closing
      /\ parsing' = "children" /\ charBuffer' = charBuffer
  BY DEF OpenTag, TagEnds
<1>2. ToSet(open') = ToSet(open) \cup {tag}
  BY <1>1, InAttributes, StackFacts DEF ParserInv
<1> QED BY <1>1, <1>2 DEF TagInv, InTag

LEMMA ClosingTagTags ==
  ASSUME ParserInv, TagInv, ClosingTag PROVE TagInv'
<1>1. CASE parsed.value[tag] # parsed.value[holder]
  BY <1>1, FailTags DEF ClosingTag
<1>2. CASE parsed.value[tag] = parsed.value[holder]
  <2>1. /\ InTag /\ open # <<>> /\ closing
        /\ Starts(charBuffer, Here, <<">">>)
        /\ parsed' = InsertEndChild(Dropped(parsed, tag), Innermost(outer),
                                    holder)
        /\ open' = outer /\ parsing' = "children" /\ charBuffer' = charBuffer
    BY <1>2 DEF ClosingTag, TagEnds
  <2>2. /\ holder \in ToSet(open) /\ holder # tag
        /\ ToSet(open') = ToSet(open) \ {holder}
        /\ Innermost(outer) \in {Document} \cup ToSet(open')
        /\ Ended(parsed, parsed', Unfinished, tag, holder, Innermost(outer))
        /\ Unfinished \ {tag, holder} = ToSet(open')
    BY <2>1, ClosingFields
  <2>3. tag \in Node \ ToSet(open) /\ ToSet(open) \subseteq Node
    BY <2>1, InAttributes, StackFacts DEF ParserInv
  <2>4. \A m \in ToSet(open) : parsed'.value[m] = parsed.value[m]
    BY <2>2, <2>3 DEF Ended
  <2>5. Opens(charBuffer, parsed.value[holder])
    BY <2>2 DEF TagInv
  <2>6. Closed(charBuffer, parsed.value[holder])
    <3>0. Len(charBuffer) \in Nat
      BY LenProperties DEF ParserInv, Value
    <3>1. Closes(charBuffer, parsed.value[holder], place)
      BY <1>2, <2>1 DEF TagInv, InTag
    <3>2. Here \in Nat \ {0} /\ Here >= place /\ place \in Nat
      BY <2>1, InAttributes DEF ParserInv
    <3>3. Here \in 1..Len(charBuffer) /\ charBuffer[Here] = ">"
      BY <2>1, <3>0, <3>2 DEF Starts
    <3>4. PICK q \in 1..Len(charBuffer) :
            LET s == SkipWhiteSpace(charBuffer, q + 1)
            IN /\ charBuffer[q] = "<" /\ s + 1 <= Len(charBuffer)
               /\ s + 1 < place /\ charBuffer[s] = "/"
               /\ charBuffer[s + 1] = parsed.value[holder][1]
      BY <3>1 DEF Closes
    <3>5. SkipWhiteSpace(charBuffer, q + 1) \in Nat
      BY <3>0, SkipGoesOn DEF ParserInv, SkipWhiteSpace
    <3>6. SkipWhiteSpace(charBuffer, q + 1) + 1 < Here
      BY <3>2, <3>4, <3>5
    <3>7. Closes(charBuffer, parsed.value[holder], Here)
      BY <3>4, <3>6 DEF Closes
    <3> QED BY <3>3, <3>7 DEF Closed
  <2>7. ASSUME NEW m \in Node, NEW o \in Linked(parsed'), parsed'.parent[m] = o
        PROVE  /\ Opens(charBuffer, parsed'.value[o])
               /\ Closed(charBuffer, parsed'.value[o])
    <3>1. o \in Node /\ o # Document /\ o # Null /\ parsed'.parent[o] # Null
      BY NullIsNoNode DEF Linked
    <3>2. ToSet(open') \cap Linked(parsed') = {}
      BY <2>2 DEF Ended, Hanging
    <3>3. m # holder /\ parsed.parent[m] = o
      BY <2>2, <2>7, <3>1, <3>2 DEF Ended
    <3>4. o # tag
      BY <2>1, <3>3, InAttributes
    <3>5. CASE o = holder
      BY <2>2, <2>4, <2>5, <2>6, <3>5
    <3>6. CASE o # holder
      <4>1. o \in Linked(parsed) /\ parsed'.value[o] = parsed.value[o]
        BY <2>2, <3>1, <3>4, <3>6 DEF Ended, Linked
      <4> QED BY <3>3, <4>1 DEF TagInv
    <3> QED BY <3>5, <3>6
  <2>8. \A m \in ToSet(open') : Opens(charBuffer, parsed'.value[m])
    BY <2>2, <2>4 DEF TagInv
  <2> QED BY <2>1, <2>7, <2>8 DEF TagInv
<1> QED BY <1>1, <1>2

LEMMA StrayTagTags ==
  ASSUME ParserInv, TagInv, StrayTag PROVE TagInv'
<1>1. /\ InTag /\ open = <<>> /\ open' = open /\ parsed' = Dropped(parsed, tag)
      /\ parsing' = "done" /\ charBuffer' = charBuffer
  BY DEF StrayTag
<1>2. /\ Sound(parsed) /\ Counted(parsed)
      /\ tag \in Allocated(parsed) \ Linked(parsed)
      /\ \A m \in Node : parsed.parent[m] # tag
  BY <1>1, InAttributes DEF Hanging
<1>3. /\ parsed'.value = [parsed.value EXCEPT ![tag] = Null]
      /\ parsed'.parent = parsed.parent /\ Linked(parsed') = Linked(parsed)
  BY <1>1, <1>2, DropFields
<1>4. parsed.value \in [Node -> Value \cup {Null}]
  BY <1>2 DEF Counted, CountedBut
<1>5. \A o \in Linked(parsed) : parsed'.value[o] = parsed.value[o]
  BY <1>2, <1>3, <1>4 DEF Linked
<1> QED BY <1>1, <1>3, <1>5 DEF TagInv, ToSet

LEMMA ParsingTags ==
  ASSUME ParserInv, TagInv, Parsing PROVE TagInv'
<1>1. CASE BadTag
  BY <1>1, FailTags DEF BadTag
<1>2. CASE ParseEnd
  <2>1. CASE open # <<>>
    BY <1>2, <2>1, FailTags DEF ParseEnd
  <2>2. CASE open = <<>>
    BY <1>2, <2>2 DEF ParseEnd, TagInv
  <2> QED BY <2>1, <2>2
<1> QED BY <1>1, <1>2, ParseMarkedTags, ParseElementTags, ParseAttributeTags,
       ClosedElementTags, OpenTagTags, ClosingTagTags, StrayTagTags DEF Parsing
=============================================================================
