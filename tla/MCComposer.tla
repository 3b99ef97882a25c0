----------------------------- MODULE MCComposer -----------------------------
(* A small instance of Composer: two rooms.                                 *)
EXTENDS Composer

TwoRooms == {1, 2}
=============================================================================
