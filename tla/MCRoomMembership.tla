-------------------------- MODULE MCRoomMembership --------------------------
(* Small instances of RoomMembership for TLC.                              *)
EXTENDS RoomMembership, TLC

Symmetry == Permutations(Users) \cup Permutations(Rooms)
              \cup Permutations(Sessions) \cup Permutations(Calls)
=============================================================================
