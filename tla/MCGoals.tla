------------------------------- MODULE MCGoals ------------------------------
(* Small instances of Goals for TLC.                                       *)
EXTENDS Goals, TLC

Symmetry == Permutations(Ids) \cup Permutations(Users) \cup Permutations(Titles)
            \cup Permutations(Calls)
=============================================================================
