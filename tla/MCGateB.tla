------------------------------- MODULE MCGateB -------------------------------
(* TLC instances of GateB. *)
EXTENDS GateB
=============================================================================
