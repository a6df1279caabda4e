------------------------------ MODULE MCRooms ------------------------------
(* Small instances of Rooms for TLC. *)
EXTENDS Rooms, TLC

CONSTANTS o1, o2, t1, t2

Symmetry == Permutations(RoomObj) \cup Permutations(Receivers)

=============================================================================
