----------------------------- MODULE VectorTime -----------------------------
(***************************************************************************)
(* The times of helper::time::VectorTime.  A map with no entry for a node  *)
(* is a function with 0 there: an entry is only made with a time that the  *)
(* node has reached, and no entry is ever lowered.  Message maps start     *)
(* empty; std::max_element then returns the end of the tree, where the     *)
(* count of its elements is read, which is 0 as well.                      *)
(***************************************************************************)
EXTENDS Naturals

CONSTANTS
  Node,             \* the identifiers that occur in the maps
  TerminationTime   \* the termination time that is ordered

ASSUME NodeAssumption == Node \subseteq Nat \ {0} /\ Node # {}
ASSUME TimeAssumption == TerminationTime \in Nat \ {0}

Time == [Node -> Nat]

NoTime == [k \in Node |-> 0]

\* setTime never lowers an entry.
setTime(t, k, time) == [t EXCEPT ![k] = IF @ < time THEN time ELSE @]

increase(t, k) == [t EXCEPT ![k] = @ + 1]

merge(t, other) ==
  [k \in Node |-> IF t[k] < other[k] THEN other[k] ELSE t[k]]

getMaximum(t) == t[CHOOSE k \in Node : \A j \in Node : t[j] <= t[k]]

isTerminated(local, limit) == local >= limit /\ limit > 0
=============================================================================
