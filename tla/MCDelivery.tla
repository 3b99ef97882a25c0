----------------------------- MODULE MCDelivery -----------------------------
(* Small instances of Delivery: who sends which message, what the messages  *)
(* say, and which instance each client is connected to.                     *)
EXTENDS Delivery, TLC

CONSTANTS m1, m2, i1, i2

AllHere == [c \in Clients |-> i1]
LastAway == [c \in Clients |-> IF c = 3 THEN i2 ELSE i1]

FirstSendsAll == [m \in Sends |-> 1]

Different == [m \in Sends |-> m]
(* The same text of the same sender.                                        *)
Repeated == [m \in Sends |-> "text"]
=============================================================================
