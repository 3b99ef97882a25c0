---------------------------- MODULE AtLeastOnce -----------------------------
(* What the delivery of messages promises, without queue, workers, network  *)
(* or pages: a message that is accepted is stored, at least once when all   *)
(* goes well and at most MaxCopies times in any case, or is given up; and   *)
(* screens show stored copies only.                                         *)
EXTENDS Naturals

CONSTANTS Messages, Screens, MaxCopies

VARIABLES fate,     \* what has become of each message
          copies,   \* how many times it has been stored
          shown     \* the copies on each screen

vars == <<fate, copies, shown>>

Fates == {"unsent", "accepted", "refused", "done", "failed"}

Init ==
  /\ fate = [m \in Messages |-> "unsent"]
  /\ copies = [m \in Messages |-> 0]
  /\ shown = [s \in Screens |-> {}]

Send(m) ==
  /\ fate[m] = "unsent"
  /\ \E answer \in {"accepted", "refused"} : fate' = [fate EXCEPT ![m] = answer]
  /\ UNCHANGED <<copies, shown>>

Store(m) ==
  /\ fate[m] = "accepted" /\ copies[m] < MaxCopies
  /\ copies' = [copies EXCEPT ![m] = @ + 1]
  /\ UNCHANGED <<fate, shown>>

(* Done only when there is a copy.                                          *)
End(m) ==
  /\ fate[m] = "accepted"
  /\ \E end \in {"done", "failed"} :
       /\ end = "done" => copies[m] > 0
       /\ fate' = [fate EXCEPT ![m] = end]
  /\ UNCHANGED <<copies, shown>>

(* A screen changes to stored copies, whichever.                            *)
Refresh(s) ==
  /\ \A r \in shown'[s] : r.msg \in Messages /\ r.copy \in 1 .. copies[r.msg]
  /\ shown' = [shown EXCEPT ![s] = shown'[s]]
  /\ UNCHANGED <<fate, copies>>

Next == \/ \E m \in Messages : Send(m) \/ Store(m) \/ End(m)
        \/ \E s \in Screens : Refresh(s)

Spec == Init /\ [][Next]_vars
(* No message stays accepted.                                               *)
FairSpec == Spec /\ \A m \in Messages : WF_vars(End(m))
=============================================================================
