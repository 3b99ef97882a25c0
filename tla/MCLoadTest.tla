----------------------------- MODULE MCLoadTest -----------------------------
(* A small instance of LoadTest: its constants are numbers.                 *)
EXTENDS LoadTest
=============================================================================
