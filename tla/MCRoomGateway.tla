--------------------------- MODULE MCRoomGateway ----------------------------
(* Small instances of RoomGateway for TLC.                                 *)
EXTENDS RoomGateway, TLC

Symmetry == Permutations(Users) \cup Permutations(Clients) \cup Permutations(Rooms)
              \cup Permutations(Joins) \cup Permutations(Streams) \cup Permutations(Messages)
=============================================================================
