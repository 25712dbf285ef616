---- MODULE MCAlpacaDriver ----
(* Instances of AlpacaDriver for TLC. *)
EXTENDS AlpacaDriver
=============================================================================
