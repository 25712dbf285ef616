---- MODULE MCPaperSession ----
(* Instances of PaperSession for TLC. *)
EXTENDS PaperSession, TLC

\* The bars are interchangeable.
BarSymmetry == Permutations(Bars)
=============================================================================
