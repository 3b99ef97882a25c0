---------------------------- MODULE MCJoinDialog ----------------------------
(* A small instance of JoinDialog: its constants are numbers and a set.     *)
EXTENDS JoinDialog
=============================================================================
