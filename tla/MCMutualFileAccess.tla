------------------------- MODULE MCMutualFileAccess -------------------------
(***************************************************************************)
(* Small systems for MutualFileAccess: the graph is complete, as the       *)
(* algorithm needs it.                                                     *)
(***************************************************************************)
EXTENDS MutualFileAccess

Two == [n \in 1..2 |-> (1..2) \ {n}]
Three == [n \in 1..3 |-> (1..3) \ {n}]
FileOrNone == {0, NoFile}
=============================================================================
