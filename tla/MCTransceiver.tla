---------------------------- MODULE MCTransceiver ----------------------------
(***************************************************************************)
(* Small instances of Transceiver.                                         *)
(***************************************************************************)
EXTENDS Transceiver

\* Messages smaller than, as large as and larger than the buffer
Mixed == <<<<1, 3>>, <<2>>>>
MixedControl == {<<1, 1>>, <<2, 1>>}
=============================================================================
