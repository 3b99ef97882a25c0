------------------------------- MODULE MCRooms ------------------------------
(* Small instances of Rooms: how the random ids of the rooms compare.       *)
EXTENDS Rooms

InOrder == [r \in Rooms |-> r]
Shuffled == [r \in Rooms |-> (2 * r) % (MaxRooms + 1)]
=============================================================================
