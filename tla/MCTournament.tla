---- MODULE MCTournament ----
(* Instances of Tournament for TLC. *)
EXTENDS Tournament, TLC
=============================================================================
