----------------------------- MODULE MCRoomHost -----------------------------
(* Small instances of RoomHost for TLC.                                   *)
EXTENDS RoomHost, TLC

Symmetry == Permutations(Users) \cup Permutations(Sessions)
              \cup Permutations(Calls) \cup Permutations(Savers)
=============================================================================
