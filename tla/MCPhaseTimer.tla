---------------------------- MODULE MCPhaseTimer ----------------------------
(* Small instances of PhaseTimer for TLC.                                  *)
EXTENDS PhaseTimer, TLC

Symmetry == Permutations(Requests)
=============================================================================
