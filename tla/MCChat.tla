------------------------------- MODULE MCChat -------------------------------
(* A small instance of Chat: two rooms, and ids in the order of creation.   *)
EXTENDS Chat

TwoRooms == <<1, 2, 1, 1, 1>>
InOrder == [m \in Messages |-> m]
=============================================================================
