---------------------------- MODULE MCPresence ------------------------------
(* Small instances of Presence: who owns each socket and which instance it  *)
(* is connected to.                                                         *)
EXTENDS Presence, TLC

CONSTANTS a1, a2, b1, c1, alice, bob, carol, i1, i2, r1, r2

UsersOfTabs == [s \in Sockets |-> CASE s \in {a1, a2} -> alice
                                   [] s = b1 -> bob [] OTHER -> carol]
OneHost == [s \in Sockets |-> i1]
TwoHosts == [s \in Sockets |-> IF s = b1 THEN i2 ELSE i1]

(* Sound when no two sockets share a user and all are on one instance.      *)
Symmetry == Permutations(Sockets) \union Permutations(Rooms)
=============================================================================
