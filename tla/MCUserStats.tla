---------------------------- MODULE MCUserStats -----------------------------
(* Small instances of UserStats for TLC.                                   *)
EXTENDS UserStats, TLC

Symmetry == Permutations(Jobs) \cup Permutations(Workers)
=============================================================================
