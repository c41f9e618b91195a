---------------------------- MODULE EchoFeedback ----------------------------
(***************************************************************************)
(* One wave of EchoWave, seen from above: it implements Feedback.          *)
(***************************************************************************)
EXTENDS EchoWave

CONSTANT Traced  \* the number of the wave that is looked at

ASSUME TracedAssumption == Traced \in Wave

origin == {n \in Node : FirstNeighborID[n][Traced] = n}
informed == {n \in Node : HasEntry(n, Traced)}
finished == {n \in Node : Completed(n, Traced)}

Abstract == INSTANCE Feedback

(* A wave with one origin, whatever else the nodes are doing and however     *)
(* many of its messages are lost, spreads along the edges, and its origin    *)
(* finishes last (NodeCore::handleEchoMessage).                              *)
ImplementsFeedback == Abstract!Spec
=============================================================================
