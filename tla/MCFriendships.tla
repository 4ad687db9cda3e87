--------------------------- MODULE MCFriendships ----------------------------
(* Small instances of Friendships for TLC.                                 *)
EXTENDS Friendships, TLC

Symmetry == Permutations(Users) \cup Permutations(Ids) \cup Permutations(Calls)
=============================================================================
