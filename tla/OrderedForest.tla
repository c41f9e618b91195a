---------------------------- MODULE OrderedForest ----------------------------
(***************************************************************************)
(* What the document object model of tinyxml2 promises its client: every   *)
(* node that exists has a content, the children of the document and of     *)
(* each element are a sequence, and a node is in at most one place of one  *)
(* sequence.  An operation puts a node in the place it is named for, or    *)
(* deletes it with all below it.  How nodes are linked is not visible      *)
(* here.                                                                   *)
(***************************************************************************)
EXTENDS Integers, Sequences, SequencesExt

CONSTANTS
  Node,      \* the nodes there can be
  Document,  \* the root, which is always there
  Content,   \* what a node can hold
  Nothing    \* the content of a node that does not exist

VARIABLES
  content,   \* content[n]: Nothing until n is made and after it is deleted
  children   \* children[p]: the nodes directly below p, in order

vars == <<content, children>>

Parent == Node \cup {Document}
Alive == {n \in Node : content[n] # Nothing}

Init == /\ content = [n \in Node |-> Nothing]
        /\ children = [p \in Parent |-> <<>>]

\* n gets a content, which may be the one it has.
Fill(n) == /\ content'[n] \in Content
           /\ content' = [content EXCEPT ![n] = content'[n]]

\* x comes before y in s.
Before(s, x, y) ==
  \E i \in DOMAIN s : s[i] = x /\ \E j \in DOMAIN s : i < j /\ s[j] = y

\* Every list keeps its nodes and their order, but for those of S.
KeepAllBut(S) ==
  \A p \in Parent : children'[p] # children[p] =>
    \A old \in {children[p]}, new \in {children'[p]} :
       /\ new \in Seq(Node) /\ IsInjective(new)
       /\ ToSet(new) \ S = ToSet(old) \ S
       /\ \A x, y \in ToSet(old) \ S : Before(new, x, y) <=> Before(old, x, y)

\* n goes below p, from wherever it was; where there, each operation says.
Place(p, n) ==
  /\ \A q \in Parent : n \in ToSet(children'[q]) <=> q = p
  /\ KeepAllBut({n})
IsFirst(n, s) == s[1] = n
IsLast(n, s) == s[Len(s)] = n
IsBehind(n, a, s) == \E i \in DOMAIN s : i < Len(s) /\ s[i] = a /\ s[i + 1] = n

Below(S) ==
  LET under == [n \in Alive |-> ToSet(children[n])]
  IN {x \in Alive : \A T \in SUBSET Alive :
        (S \subseteq T /\ \A n \in T : under[n] \subseteq T) => x \in T}

\* S and all that is below S goes; nothing else is lost or moved.
Delete(S) ==
  LET D == Below(S)
  IN /\ S \subseteq D
     /\ content' = [n \in Node |-> IF n \in D THEN Nothing ELSE content[n]]
     /\ \A p \in Parent : IF p \in D THEN children'[p] = <<>>
                          ELSE ToSet(children'[p]) \cap D = {}
     /\ KeepAllBut(D)

-----------------------------------------------------------------------------
\* The operations, which have the names that the library gives them

NewNode(n) == n \notin Alive /\ Fill(n) /\ UNCHANGED children

SetContent(n) == n \in Alive /\ Fill(n) /\ UNCHANGED children

ShallowClone(m, n) ==
  /\ n \notin Alive
  /\ content' = [content EXCEPT ![n] = content[m]]
  /\ UNCHANGED children

InsertFirstChild(p, n) ==
  /\ Place(p, n)
  /\ IsFirst(n, children'[p])
  /\ UNCHANGED content

InsertEndChild(p, n) ==
  /\ Place(p, n)
  /\ IsLast(n, children'[p])
  /\ UNCHANGED content

InsertAfterChild(p, a, n) ==
  /\ Place(p, n)
  /\ IsBehind(n, a, children'[p])
  /\ UNCHANGED content

\* The first child gets the text, or a new node in front of it.
SetText(p) ==
  \/ children[p] # <<>> /\ SetContent(children[p][1])
  \/ \E n \in Node \ Alive :
       /\ Fill(n)
       /\ Place(p, n)
       /\ IsFirst(n, children'[p])

DeleteNode(n) == Delete({n})
DeleteChildren(p) == Delete(ToSet(children[p]))

Next ==
  \/ \E n \in Node : NewNode(n)
  \/ \E n \in Alive :
       \/ SetContent(n)
       \/ \E m \in Node : ShallowClone(n, m)
       \/ DeleteNode(n)
       \/ \E p \in Alive \cup {Document} :
            \/ InsertFirstChild(p, n)
            \/ InsertEndChild(p, n)
            \/ \E a \in Alive : InsertAfterChild(p, a, n)
  \/ \E p \in Alive \cup {Document} : SetText(p) \/ DeleteChildren(p)

Spec == Init /\ [][Next]_vars
=============================================================================
