--------------------------- MODULE DeliveryProofs ---------------------------
(* Proofs about Delivery, for any number of messages, clients, instances,   *)
(* attempts, crashes and deletions: what is stored, the types, that         *)
(* Delivery implements AtLeastOnce, and what the clients show: the order of *)
(* messages, that none is shown twice or missed, and that deletions reach   *)
(* everybody.                                                               *)
EXTENDS Delivery, ListProofs

(* What the queue and the processor keep of a message, besides the screens. *)
QueueOK ==
  /\ job \in [Sends -> JobStates]
  /\ waiting \in Seq(Sends)
  /\ failures \in [Sends -> Nat]
  /\ stalls \in [Sends -> Nat]
  /\ made \in [Sends -> Nat]

(* Each message is queued at most once, and only while its job waits.       *)
Queued ==
  /\ \A n \in 1 .. Len(waiting) : job[waiting[n]] = "waiting"
  /\ \A n, k \in 1 .. Len(waiting) : waiting[n] = waiting[k] => n = k

(* A job that BullMQ may start once more has attempts left.                 *)
Left(m) ==
  job[m] \in {"unsent", "waiting", "active", "delayed", "completed", "dropped"}
    => failures[m] < Attempts /\ stalls[m] <= MaxStalls

(* Copies are paid for: each was stored in a try that failed, in one that   *)
(* stalled, or in the current one.                                          *)
Paid(m) ==
  /\ made[m] <= failures[m] + stalls[m] + 1
  /\ (job[m] \in {"unsent", "waiting", "delayed", "failed", "dropped"} \/ At(m, "create"))
       => made[m] <= failures[m] + stalls[m]
  /\ failures[m] <= Attempts /\ stalls[m] <= MaxStalls + 1
  /\ failures[m] + stalls[m] <= Attempts + MaxStalls

(* Only an active job has a handler, and past its insert there is a row.    *)
Working(m) ==
  /\ work[m] # NoWork => job[m] = "active"
  /\ At(m, "mark") \/ At(m, "sender") \/ At(m, "finish") => made[m] > 0
  /\ job[m] = "completed" => made[m] > 0

StoredInv ==
  /\ QueueOK /\ Queued
  /\ work = [m \in Sends |-> work[m]]
  /\ \A m \in Sends : Left(m) /\ Paid(m) /\ Working(m)

-----------------------------------------------------------------------------
(* Steps that leave the queue and the table alone.                          *)
LEMMA StoredFrame ==
  ASSUME StoredInv, UNCHANGED <<queue, made, work>>
  PROVE  StoredInv'
  BY DEF StoredInv, QueueOK, Queued, Left, Paid, Working, At, queue

(* A step of one message keeps the invariant if it does for that message.   *)
LEMMA StoredOne ==
  ASSUME StoredInv, NEW m \in Sends,
         QueueOK', Queued', work' = [work EXCEPT ![m] = work'[m]],
         \A k \in Sends \ {m} : /\ job'[k] = job[k] /\ failures'[k] = failures[k]
                               /\ stalls'[k] = stalls[k] /\ made'[k] = made[k],
         Left(m)', Paid(m)', Working(m)'
  PROVE  StoredInv'
<1>1. \A k \in Sends \ {m} : work'[k] = work[k]
  BY DEF StoredInv
<1>2. \A k \in Sends \ {m} : Left(k)' /\ Paid(k)' /\ Working(k)'
  BY <1>1 DEF StoredInv, Left, Paid, Working, At
<1>3. work' = [k \in Sends |-> work'[k]]
  BY DEF StoredInv
<1>4. QED
  BY <1>2, <1>3 DEF StoredInv

LEMMA StoredStart ==
  ASSUME StoredInv, NEW i \in Instances, Start(i)
  PROVE  StoredInv'
<1>0. PICK m \in Sends : m = Head(waiting)
  BY DEF StoredInv, QueueOK, Start
<1>1. /\ m = waiting[1] /\ Len(waiting) \in Nat \ {0}
      /\ waiting' = Tail(waiting) /\ waiting' \in Seq(Sends)
      /\ Len(waiting') = Len(waiting) - 1
      /\ \A n \in 1 .. Len(waiting') : waiting'[n] = waiting[n + 1]
  BY <1>0 DEF StoredInv, QueueOK, Start
<1>2. /\ job[m] = "waiting"
      /\ job' = [job EXCEPT ![m] = "active"]
      /\ work' = [work EXCEPT ![m] = [host |-> i, step |-> "create", viewer |-> 0, stamp |-> 0]]
      /\ UNCHANGED <<failures, stalls, made>>
  BY <1>0, <1>1 DEF StoredInv, Queued, Start, table
<1>3. QueueOK'
  BY <1>1, <1>2 DEF StoredInv, QueueOK, JobStates
<1>4. Queued'
  <2>1. ASSUME NEW n \in 1 .. Len(waiting') PROVE job'[waiting'[n]] = "waiting"
    <3>1. n + 1 \in 1 .. Len(waiting) /\ 1 \in 1 .. Len(waiting) /\ n + 1 # 1
      BY <1>1
    <3>2. waiting'[n] # m /\ waiting'[n] \in Sends /\ job[waiting'[n]] = "waiting"
      <4>1. waiting[n + 1] \in Sends
        BY <3>1 DEF StoredInv, QueueOK
      <4>2. job[waiting[n + 1]] = "waiting" /\ waiting[n + 1] # waiting[1]
        BY <3>1 DEF StoredInv, Queued
      <4>3. QED
        BY <1>1, <4>1, <4>2
    <3>3. QED
      BY <1>2, <3>2 DEF StoredInv, QueueOK
  <2>2. ASSUME NEW n \in 1 .. Len(waiting'), NEW k \in 1 .. Len(waiting'),
               waiting'[n] = waiting'[k]
        PROVE  n = k
    <3>1. n + 1 \in 1 .. Len(waiting) /\ k + 1 \in 1 .. Len(waiting)
      BY <1>1
    <3>2. n + 1 = k + 1
      BY <1>1, <2>2, <3>1 DEF StoredInv, Queued
    <3>3. QED
      BY <3>2
  <2>3. QED
    BY <2>1, <2>2 DEF Queued
<1>5. Left(m)' /\ Paid(m)' /\ Working(m)'
  <2>1. job'[m] = "active" /\ work'[m].step = "create"
    BY <1>1, <1>2 DEF StoredInv, QueueOK
  <2>2. Left(m) /\ Paid(m) /\ made[m] \in Nat
    BY <1>1 DEF StoredInv, QueueOK
  <2>3. QED
    BY <1>2, <2>1, <2>2 DEF Left, Paid, Working, At
<1>6. \A k \in Sends \ {m} : job'[k] = job[k]
  BY <1>2 DEF StoredInv, QueueOK
<1>7. work' = [work EXCEPT ![m] = work'[m]]
  BY <1>1, <1>2 DEF StoredInv
<1>8. QED
  BY <1>1, <1>2, <1>3, <1>4, <1>5, <1>6, <1>7, StoredOne

(* A message that joins the end of the wait list.                           *)
LEMMA QueueEnd ==
  ASSUME StoredInv, NEW m \in Sends, job[m] # "waiting",
         job' = [job EXCEPT ![m] = "waiting"], waiting' = Append(waiting, m)
  PROVE  waiting' \in Seq(Sends) /\ job' \in [Sends -> JobStates] /\ Queued'
<1>1. /\ waiting' \in Seq(Sends) /\ Len(waiting) \in Nat /\ Len(waiting') = Len(waiting) + 1
      /\ \A n \in 1 .. Len(waiting) : waiting'[n] = waiting[n] /\ waiting[n] \in Sends
      /\ waiting'[Len(waiting) + 1] = m
  BY DEF StoredInv, QueueOK
<1>2. \A n \in 1 .. Len(waiting) : waiting[n] # m
  BY DEF StoredInv, Queued
<1>3. job' \in [Sends -> JobStates]
  BY DEF StoredInv, QueueOK, JobStates
<1>4. \A n \in 1 .. Len(waiting') : n \in 1 .. Len(waiting) \/ n = Len(waiting) + 1
  BY <1>1
<1>5. \A n \in 1 .. Len(waiting') : job'[waiting'[n]] = "waiting"
  BY <1>1, <1>2, <1>4 DEF StoredInv, QueueOK, Queued
<1>6. \A n, k \in 1 .. Len(waiting') : waiting'[n] = waiting'[k] => n = k
  BY <1>1, <1>2, <1>4 DEF StoredInv, Queued
<1>7. QED
  BY <1>1, <1>3, <1>5, <1>6 DEF Queued

(* A message that joins it at the front.                                    *)
LEMMA QueueFront ==
  ASSUME StoredInv, NEW m \in Sends, job[m] # "waiting",
         job' = [job EXCEPT ![m] = "waiting"], waiting' = <<m>> \o waiting
  PROVE  waiting' \in Seq(Sends) /\ job' \in [Sends -> JobStates] /\ Queued'
<1>1. /\ waiting' \in Seq(Sends) /\ Len(waiting) \in Nat /\ Len(waiting') = Len(waiting) + 1
      /\ \A n \in 1 .. Len(waiting) : waiting'[n + 1] = waiting[n] /\ waiting[n] \in Sends
      /\ waiting'[1] = m
  <2>1. <<m>> \in Seq(Sends) /\ Len(<<m>>) = 1 /\ <<m>>[1] = m
    OBVIOUS
  <2>2. waiting \in Seq(Sends) /\ Len(waiting) \in Nat
    BY DEF StoredInv, QueueOK
  <2>3. \A n \in 1 .. Len(waiting) : waiting[n] \in Sends
    BY <2>2
  <2>4. (<<m>> \o waiting) \in Seq(Sends) /\ Len(<<m>> \o waiting) = 1 + Len(waiting)
    BY <2>1, <2>2
  <2>5. (<<m>> \o waiting)[1] = m
    BY <2>1, <2>2
  <2>6. \A n \in 1 .. Len(waiting) : (<<m>> \o waiting)[n + 1] = waiting[n]
    BY <2>1, <2>2, ConcatProperties
  <2>7. QED
    BY <2>2, <2>3, <2>4, <2>5, <2>6
<1>2. \A n \in 1 .. Len(waiting) : waiting[n] # m
  BY DEF StoredInv, Queued
<1>3. job' \in [Sends -> JobStates]
  BY DEF StoredInv, QueueOK, JobStates
<1>4. \A n \in 1 .. Len(waiting') : n = 1 \/ (n - 1 \in 1 .. Len(waiting) /\ n = (n - 1) + 1)
  BY <1>1
<1>5. \A n \in 1 .. Len(waiting') : n = 1 \/ (n - 1 \in 1 .. Len(waiting) /\ waiting'[n] = waiting[n - 1])
  BY <1>1, <1>4
<1>6. \A n \in 1 .. Len(waiting') : job'[waiting'[n]] = "waiting"
  <2>1. job'[m] = "waiting" /\ \A k \in Sends \ {m} : job'[k] = job[k]
    BY DEF StoredInv, QueueOK
  <2>2. \A n \in 1 .. Len(waiting) : job[waiting[n]] = "waiting"
    BY DEF StoredInv, Queued
  <2>3. QED
    <3>1. ASSUME NEW n \in 1 .. Len(waiting'), n # 1 PROVE job'[waiting'[n]] = "waiting"
      <4>1. n - 1 \in 1 .. Len(waiting) /\ waiting'[n] = waiting[n - 1]
        BY <1>5, <3>1
      <4>2. waiting[n - 1] \in Sends \ {m} /\ job[waiting[n - 1]] = "waiting"
        BY <1>1, <1>2, <2>2, <4>1
      <4>3. QED
        BY <2>1, <4>1, <4>2
    <3>2. QED
      BY <1>1, <2>1, <3>1
<1>7. ASSUME NEW n \in 1 .. Len(waiting'), NEW k \in 1 .. Len(waiting'), waiting'[n] = waiting'[k]
      PROVE  n = k
  <2>1. CASE n = 1 \/ k = 1
    BY <1>1, <1>2, <1>5, <1>7, <2>1
  <2>2. CASE n # 1 /\ k # 1
    <3>1. n - 1 = k - 1
      BY <1>5, <1>7, <2>2 DEF StoredInv, Queued
    <3>2. QED
      BY <3>1
  <2>3. QED
    BY <2>1, <2>2
<1>8. QED
  BY <1>1, <1>3, <1>6, <1>7 DEF Queued

(* A job that leaves the states in which its message is queued.             *)
LEMMA QueueSame ==
  ASSUME StoredInv, NEW m \in Sends, NEW s \in JobStates, job[m] # "waiting",
         job' = [job EXCEPT ![m] = s], waiting' = waiting
  PROVE  waiting' \in Seq(Sends) /\ job' \in [Sends -> JobStates] /\ Queued'
<1>1. \A n \in 1 .. Len(waiting) : waiting[n] # m /\ waiting[n] \in Sends
  BY DEF StoredInv, QueueOK, Queued
<1>2. QED
  BY <1>1 DEF StoredInv, QueueOK, Queued

-----------------------------------------------------------------------------
(* The steps of the queue and of the processor                              *)

LEMMA StoredSend ==
  ASSUME StoredInv, NEW m \in Sends, NEW later \in BOOLEAN, Send(m, later)
  PROVE  StoredInv'
<1>1. /\ job[m] = "unsent"
      /\ UNCHANGED <<failures, stalls, made, work>>
      /\ \/ job' = [job EXCEPT ![m] = "dropped"] /\ waiting' = waiting
         \/ job' = [job EXCEPT ![m] = "waiting"] /\ waiting' = Append(waiting, m)
  BY DEF Send, table
<1>2. waiting' \in Seq(Sends) /\ job' \in [Sends -> JobStates] /\ Queued'
  BY <1>1, QueueEnd, QueueSame DEF JobStates
<1>3. job'[m] \in {"waiting", "dropped"} /\ \A k \in Sends \ {m} : job'[k] = job[k]
  BY <1>1 DEF StoredInv, QueueOK
<1>4. Left(m)' /\ Paid(m)' /\ Working(m)'
  BY <1>1, <1>3 DEF StoredInv, Left, Paid, Working, At
<1>5. QueueOK' /\ work' = [work EXCEPT ![m] = work'[m]]
  BY <1>1, <1>2 DEF StoredInv, QueueOK
<1>6. QED
  BY <1>1, <1>2, <1>3, <1>4, <1>5, StoredOne

LEMMA StoredRetry ==
  ASSUME StoredInv, NEW m \in Sends, Retry(m)
  PROVE  StoredInv'
<1>1. /\ job[m] = "delayed" /\ UNCHANGED <<failures, stalls, made, work>>
      /\ job' = [job EXCEPT ![m] = "waiting"] /\ waiting' = Append(waiting, m)
  BY DEF Retry, table
<1>2. waiting' \in Seq(Sends) /\ job' \in [Sends -> JobStates] /\ Queued'
  BY <1>1, QueueEnd
<1>3. job'[m] = "waiting" /\ \A k \in Sends \ {m} : job'[k] = job[k]
  BY <1>1 DEF StoredInv, QueueOK
<1>4. Left(m)' /\ Paid(m)' /\ Working(m)'
  BY <1>1, <1>3 DEF StoredInv, Left, Paid, Working, At
<1>5. QueueOK' /\ work' = [work EXCEPT ![m] = work'[m]]
  BY <1>1, <1>2 DEF StoredInv, QueueOK
<1>6. QED
  BY <1>1, <1>2, <1>3, <1>4, <1>5, StoredOne

LEMMA StoredStalled ==
  ASSUME StoredInv, NEW m \in Sends, Stalled(m)
  PROVE  StoredInv'
<1>1. /\ job[m] = "active" /\ work[m] = NoWork /\ UNCHANGED <<failures, made, work>>
      /\ stalls' = [stalls EXCEPT ![m] = @ + 1]
      /\ \/ /\ stalls[m] < MaxStalls
            /\ job' = [job EXCEPT ![m] = "waiting"] /\ waiting' = <<m>> \o waiting
         \/ job' = [job EXCEPT ![m] = "failed"] /\ waiting' = waiting
  BY DEF Stalled, table
<1>2. waiting' \in Seq(Sends) /\ job' \in [Sends -> JobStates] /\ Queued'
  BY <1>1, QueueFront, QueueSame DEF JobStates
<1>3. /\ \A k \in Sends \ {m} : job'[k] = job[k] /\ stalls'[k] = stalls[k]
      /\ stalls'[m] = stalls[m] + 1
      /\ job'[m] = "failed" \/ (job'[m] = "waiting" /\ stalls[m] < MaxStalls)
  BY <1>1 DEF StoredInv, QueueOK
<1>4. /\ failures[m] \in Nat /\ stalls[m] \in Nat /\ made[m] \in Nat
      /\ Attempts \in Nat /\ MaxStalls \in Nat
  BY DeliveryAssumption DEF StoredInv, QueueOK
<1>5. Left(m)'
  BY <1>1, <1>3, <1>4 DEF StoredInv, Left
<1>6. Paid(m)'
  BY <1>1, <1>3, <1>4 DEF StoredInv, Left, Paid
<1>7. Working(m)'
  BY <1>1, <1>3 DEF StoredInv, Working, At
<1>8. QueueOK' /\ work' = [work EXCEPT ![m] = work'[m]]
  BY <1>1, <1>2, <1>4 DEF StoredInv, QueueOK
<1>9. QED
  BY <1>1, <1>2, <1>3, <1>5, <1>6, <1>7, <1>8, StoredOne

(* The steps of process() only change the handler, and Create the table.    *)
LEMMA StoredCreate ==
  ASSUME StoredInv, NEW m \in Sends, Create(m)
  PROVE  StoredInv'
<1> DEFINE next == MarkAfter(work[m].host, 0, Len(created) + 1)
<1>1. /\ At(m, "create") /\ UNCHANGED queue
      /\ made' = [made EXCEPT ![m] = @ + 1]
      /\ work' = [work EXCEPT ![m] = next]
  BY DEF Create
<1>2. next.step \in {"mark", "sender"}
  BY DEF MarkAfter
<1>3. job[m] = "active" /\ made[m] \in Nat /\ failures[m] \in Nat /\ stalls[m] \in Nat
  BY <1>1 DEF StoredInv, QueueOK, Working, At
<1>4. /\ made'[m] = made[m] + 1 /\ work'[m].step \in {"mark", "sender"}
      /\ \A k \in Sends \ {m} : made'[k] = made[k]
  BY <1>1, <1>2 DEF StoredInv, QueueOK
<1>5. Left(m)' /\ Working(m)'
  BY <1>1, <1>3, <1>4 DEF StoredInv, Left, Working, At, queue
<1>6. Paid(m)'
  BY <1>1, <1>3, <1>4 DEF StoredInv, Paid, At, queue
<1>7. QueueOK' /\ Queued' /\ work' = [work EXCEPT ![m] = work'[m]]
  BY <1>1 DEF StoredInv, QueueOK, Queued, queue
<1>8. QED
  BY <1>1, <1>4, <1>5, <1>6, <1>7, StoredOne DEF queue

LEMMA StoredMark ==
  ASSUME StoredInv, NEW m \in Sends, Mark(m) \/ MarkSender(m)
  PROVE  StoredInv'
<1>1. /\ At(m, "mark") \/ At(m, "sender")
      /\ UNCHANGED <<queue, made>>
  BY DEF Mark, MarkSender
<1>2. \E w : work' = [work EXCEPT ![m] = w] /\ w.step \in {"mark", "sender", "finish"}
  <2>1. CASE Mark(m)
    <3> DEFINE w == MarkAfter(work[m].host, work[m].viewer, Len(created))
    <3>1. w.step \in {"mark", "sender"} /\ work' = [work EXCEPT ![m] = w]
      BY <2>1 DEF Mark, MarkAfter
    <3>2. QED
      BY <3>1
  <2>2. CASE MarkSender(m)
    <3> DEFINE w == [host |-> work[m].host, step |-> "finish", viewer |-> 0, stamp |-> 0]
    <3>1. w.step = "finish" /\ work' = [work EXCEPT ![m] = w]
      BY <2>2 DEF MarkSender
    <3>2. QED
      BY <3>1
  <2>3. QED
    BY <2>1, <2>2
<1>3. work' = [work EXCEPT ![m] = work'[m]] /\ work'[m].step \in {"mark", "sender", "finish"}
  BY <1>2 DEF StoredInv
<1>4. job[m] = "active" /\ made[m] > 0
  BY <1>1 DEF StoredInv, Working, At
<1>5. Left(m)' /\ Working(m)'
  BY <1>1, <1>3, <1>4 DEF StoredInv, Left, Working, At, queue
<1>6. Paid(m)'
  BY <1>1, <1>3, <1>4 DEF StoredInv, Paid, At, queue
<1>7. QueueOK' /\ Queued'
  BY <1>1 DEF StoredInv, QueueOK, Queued, queue
<1>8. QED
  BY <1>1, <1>3, <1>5, <1>6, <1>7, StoredOne DEF queue

LEMMA StoredFinish ==
  ASSUME StoredInv, NEW m \in Sends, Finish(m)
  PROVE  StoredInv'
<1>1. /\ At(m, "finish") /\ UNCHANGED <<waiting, failures, stalls, made>>
      /\ job' = [job EXCEPT ![m] = "completed"] /\ work' = [work EXCEPT ![m] = NoWork]
  BY DEF Finish, table
<1>2. job[m] = "active" /\ made[m] > 0
  BY <1>1 DEF StoredInv, Working, At
<1>3. waiting' \in Seq(Sends) /\ job' \in [Sends -> JobStates] /\ Queued'
  BY <1>1, <1>2, QueueSame DEF JobStates
<1>4. job'[m] = "completed" /\ work'[m] = NoWork /\ \A k \in Sends \ {m} : job'[k] = job[k]
  BY <1>1 DEF StoredInv, QueueOK
<1>5. Left(m)' /\ Paid(m)' /\ Working(m)'
  BY <1>1, <1>2, <1>4 DEF StoredInv, Left, Paid, Working, At
<1>6. QueueOK' /\ work' = [work EXCEPT ![m] = work'[m]]
  BY <1>1, <1>3 DEF StoredInv, QueueOK
<1>7. QED
  BY <1>1, <1>3, <1>4, <1>5, <1>6, StoredOne

LEMMA StoredFail ==
  ASSUME StoredInv, NEW m \in Sends, Fail(m)
  PROVE  StoredInv'
<1> DEFINE next == IF failures[m] + 1 < Attempts THEN "delayed" ELSE "failed"
<1>1. /\ \E step \in {"create", "mark", "sender"} : At(m, step)
      /\ UNCHANGED <<waiting, stalls, made>>
      /\ failures' = [failures EXCEPT ![m] = @ + 1]
      /\ job' = [job EXCEPT ![m] = next] /\ work' = [work EXCEPT ![m] = NoWork]
  BY DEF Fail, table
<1>2. /\ job[m] = "active" /\ made[m] \in Nat /\ failures[m] \in Nat /\ stalls[m] \in Nat
      /\ Attempts \in Nat /\ MaxStalls \in Nat /\ next \in JobStates
  BY <1>1, DeliveryAssumption DEF StoredInv, QueueOK, Working, At, JobStates
<1>3. waiting' \in Seq(Sends) /\ job' \in [Sends -> JobStates] /\ Queued'
  BY <1>1, <1>2, QueueSame
<1>4. /\ job'[m] = next /\ work'[m] = NoWork /\ failures'[m] = failures[m] + 1
      /\ \A k \in Sends \ {m} : job'[k] = job[k] /\ failures'[k] = failures[k]
  BY <1>1 DEF StoredInv, QueueOK
<1>5. Left(m)'
  BY <1>1, <1>2, <1>4 DEF StoredInv, Left
<1>6. Paid(m)'
  BY <1>1, <1>2, <1>4 DEF StoredInv, Left, Paid, At
<1>7. Working(m)'
  BY <1>1, <1>2, <1>4 DEF Working, At
<1>8. QueueOK' /\ work' = [work EXCEPT ![m] = work'[m]]
  BY <1>1, <1>2, <1>3 DEF StoredInv, QueueOK
<1>9. QED
  BY <1>1, <1>3, <1>4, <1>5, <1>6, <1>7, <1>8, StoredOne

LEMMA StoredCrash ==
  ASSUME StoredInv, NEW i \in Instances, Crash(i)
  PROVE  StoredInv'
<1>1. /\ UNCHANGED <<queue, made>>
      /\ work' = [m \in Sends |-> IF m \in Busy(i) THEN NoWork ELSE work[m]]
  BY DEF Crash, table
<1>2. \A m \in Sends : work'[m] = NoWork \/ work'[m] = work[m]
  BY <1>1
<1>3. \A m \in Sends : Left(m)' /\ Paid(m)' /\ Working(m)'
  BY <1>1, <1>2 DEF StoredInv, Left, Paid, Working, At, queue
<1>4. QueueOK' /\ Queued' /\ work' = [m \in Sends |-> work'[m]]
  BY <1>1 DEF StoredInv, QueueOK, Queued, queue
<1>5. QED
  BY <1>3, <1>4 DEF StoredInv

-----------------------------------------------------------------------------
LEMMA StoredInit == Init => StoredInv
<1>1. SUFFICES ASSUME Init PROVE StoredInv
  OBVIOUS
<1>2. Attempts \in Nat \ {0} /\ MaxStalls \in Nat
  BY DeliveryAssumption
<1>3. QueueOK /\ Queued
  BY <1>1 DEF Init, QueueOK, Queued, JobStates
<1>4. work = [m \in Sends |-> work[m]] /\ \A m \in Sends : work[m] = NoWork
  BY <1>1 DEF Init
<1>5. \A m \in Sends : Left(m) /\ Paid(m) /\ Working(m)
  BY <1>1, <1>2, <1>4 DEF Init, Left, Paid, Working, At
<1>6. QED
  BY <1>3, <1>4, <1>5 DEF StoredInv

LEMMA StoredNext == StoredInv /\ [Next]_vars => StoredInv'
<1>1. SUFFICES ASSUME StoredInv, [Next]_vars PROVE StoredInv'
  OBVIOUS
<1>2. ASSUME NEW m \in Sends, NEW later \in BOOLEAN, Send(m, later) PROVE StoredInv'
  BY <1>1, <1>2, StoredSend
<1>3. ASSUME NEW m \in Sends, Process(m) PROVE StoredInv'
  BY <1>1, <1>3, StoredCreate, StoredMark, StoredFinish DEF Process
<1>4. ASSUME NEW m \in Sends, Fail(m) \/ BullMQ(m) PROVE StoredInv'
  BY <1>1, <1>4, StoredFail, StoredRetry, StoredStalled DEF BullMQ
<1>5. ASSUME NEW i \in Instances, Start(i) \/ Crash(i) PROVE StoredInv'
  BY <1>1, <1>5, StoredStart, StoredCrash
<1>6. ASSUME NEW i \in Instances, NEW j \in Instances, Deliver(i, j) PROVE StoredInv'
  BY <1>1, <1>6, StoredFrame DEF Deliver, table
<1>7. ASSUME NEW i \in Instances, NEW row \in Rows, RequestDelete(i, row) PROVE StoredInv'
  BY <1>1, <1>7, StoredFrame DEF RequestDelete, table
<1>8. ASSUME NEW d \in erasing, Erase(d) PROVE StoredInv'
  BY <1>1, <1>8, StoredFrame DEF Erase, DeleteRow, EmitDeleted, DeleteAnswered, table
<1>9. ASSUME NEW c \in Clients, Open(c) \/ Screen(c) \/ Receive(c)
      PROVE  StoredInv'
  BY <1>1, <1>9, StoredFrame
  DEF Open, Screen, Join, FindMessages, ShowMessages, Receive, table
<1>10. CASE UNCHANGED vars
  BY <1>1, <1>10, StoredFrame DEF vars, table
<1>11. QED
  BY <1>1, <1>2, <1>3, <1>4, <1>5, <1>6, <1>7, <1>8, <1>9, <1>10 DEF Next

LEMMA StoredBound == StoredInv => Stored
<1>1. SUFFICES ASSUME StoredInv, NEW m \in Sends
               PROVE  /\ made[m] <= Attempts + MaxStalls
                      /\ job[m] = "completed" => made[m] > 0
  BY DEF Stored
<1>2. /\ made[m] \in Nat /\ failures[m] \in Nat /\ stalls[m] \in Nat
      /\ Attempts \in Nat /\ MaxStalls \in Nat /\ job[m] \in JobStates
  BY <1>1, DeliveryAssumption DEF StoredInv, QueueOK
<1>3. job[m] = "failed" => made[m] <= failures[m] + stalls[m]
  BY <1>1 DEF StoredInv, Paid
<1>4. job[m] # "failed" => failures[m] < Attempts /\ stalls[m] <= MaxStalls
  BY <1>1, <1>2 DEF StoredInv, Left, JobStates
<1>5. /\ made[m] <= failures[m] + stalls[m] + 1
      /\ failures[m] + stalls[m] <= Attempts + MaxStalls
  BY <1>1 DEF StoredInv, Paid
<1>6. job[m] = "completed" => made[m] > 0
  BY <1>1 DEF StoredInv, Working
<1>7. QED
  BY <1>2, <1>3, <1>4, <1>5, <1>6

(* The processor never stores a message more than Attempts + MaxStalls times*)
(* and BullMQ never reports as completed a message that was not stored,     *)
(* whatever fails, stalls or crashes.                                       *)
THEOREM AlwaysStored == Spec => []Stored
  BY StoredInit, StoredNext, StoredBound, PTL DEF Spec

-----------------------------------------------------------------------------
(* The rows the table has ever had, and the events about some rows.         *)
Real == {r \in Rows : r.copy <= made[r.msg]}
EventsOf(R) == [kind : {"new", "deleted"}, row : R]

(* Screens, answers and broadcasts are about rows that have been stored.    *)
Genuine ==
  /\ created \in Seq(Real) /\ alive \subseteq Real
  /\ wire \in [Instances \X Instances -> Seq(EventsOf(Real))]
  /\ inbox \in [Clients -> Seq(EventsOf(Real))]
  /\ answer \in [Clients -> Seq(Real)] /\ list \in [Clients -> Seq(Real)]
  /\ erasing \subseteq [row : Real, host : Instances, step : {"delete", "emit", "answer"}]

(* The types of the rest.                                                   *)
Shaped ==
  /\ recent \subseteq {ContentOf[m] : m \in Sends}
  /\ work \in [Sends -> Works \union {NoWork}]
  /\ lastRead \in [Clients -> Nat]
  /\ joining \subseteq Clients /\ viewing \subseteq Clients
  /\ load \in [Clients -> {"closed", "asked", "answered", "done"}]
  /\ seen \in [Sends -> SUBSET Rows]
  /\ faults \in 0 .. MaxFaults /\ crashes \in 0 .. MaxCrashes
  /\ deletes \in 0 .. MaxDeletes

-----------------------------------------------------------------------------
(* Events stay well formed when they are sent, pushed and received.         *)

LEMMA EventType ==
  ASSUME NEW R, NEW r \in R, NEW kind \in {"new", "deleted"}
  PROVE  [kind |-> kind, row |-> r] \in EventsOf(R)
  BY DEF EventsOf

LEMMA SeqsGrow ==
  ASSUME NEW R, NEW Q, R \subseteq Q
  PROVE  /\ Seq(R) \subseteq Seq(Q)
         /\ Seq(EventsOf(R)) \subseteq Seq(EventsOf(Q))
<1>1. EventsOf(R) \subseteq EventsOf(Q)
  BY DEF EventsOf
<1>2. QED
  BY <1>1, SeqMonotonic

LEMMA PushType ==
  ASSUME NEW R, NEW e \in EventsOf(R), NEW i, Push(i, e),
         inbox \in [Clients -> Seq(EventsOf(R))]
  PROVE  inbox' \in [Clients -> Seq(EventsOf(R))]
<1>1. \A c \in Clients : inbox[c] \in Seq(EventsOf(R))
                         /\ Append(inbox[c], e) \in Seq(EventsOf(R))
  BY AppendProperties
<1>2. QED
  BY <1>1 DEF Push

LEMMA EmitType ==
  ASSUME NEW R, NEW e \in EventsOf(R), NEW i, Emit(i, e),
         inbox \in [Clients -> Seq(EventsOf(R))],
         wire \in [Instances \X Instances -> Seq(EventsOf(R))]
  PROVE  /\ inbox' \in [Clients -> Seq(EventsOf(R))]
         /\ wire' \in [Instances \X Instances -> Seq(EventsOf(R))]
<1>1. \A ij \in Instances \X Instances :
        wire[ij] \in Seq(EventsOf(R)) /\ Append(wire[ij], e) \in Seq(EventsOf(R))
  BY AppendProperties
<1>2. QED
  BY <1>1, PushType DEF Emit

LEMMA DeliverType ==
  ASSUME NEW R, NEW i \in Instances, NEW j \in Instances, Deliver(i, j),
         inbox \in [Clients -> Seq(EventsOf(R))],
         wire \in [Instances \X Instances -> Seq(EventsOf(R))]
  PROVE  /\ inbox' \in [Clients -> Seq(EventsOf(R))]
         /\ wire' \in [Instances \X Instances -> Seq(EventsOf(R))]
<1>1. wire[<<i, j>>] \in Seq(EventsOf(R)) /\ wire[<<i, j>>] # <<>>
  BY DEF Deliver
<1>2. Head(wire[<<i, j>>]) \in EventsOf(R) /\ Tail(wire[<<i, j>>]) \in Seq(EventsOf(R))
  BY <1>1, HeadTailProperties
<1>3. QED
  BY <1>2, PushType DEF Deliver

LEMMA ReceiveType ==
  ASSUME NEW R, NEW c \in Clients, Receive(c),
         inbox \in [Clients -> Seq(EventsOf(R))], list \in [Clients -> Seq(R)]
  PROVE  /\ inbox' \in [Clients -> Seq(EventsOf(R))]
         /\ list' \in [Clients -> Seq(R)]
<1>1. inbox[c] \in Seq(EventsOf(R)) /\ inbox[c] # <<>> /\ list[c] \in Seq(R)
  BY DEF Receive
<1>2. Head(inbox[c]) \in EventsOf(R) /\ Tail(inbox[c]) \in Seq(EventsOf(R))
  BY <1>1, HeadTailProperties
<1>3. Head(inbox[c]).row \in R
  BY <1>2 DEF EventsOf
<1>4. /\ Append(list[c], Head(inbox[c]).row) \in Seq(R)
      /\ Without(list[c], Head(inbox[c]).row) \in Seq(R)
  BY <1>1, <1>3, AppendProperties, OnlyKeeps DEF Without
<1>5. QED
  BY <1>2, <1>4 DEF Receive

-----------------------------------------------------------------------------
(* Rows are never stored fewer times than before.                           *)
LEMMA RealGrows ==
  ASSUME StoredInv, [Next]_vars
  PROVE  Real \subseteq Real'
<1>1. \A m \in Sends : made[m] \in Nat
  BY DEF StoredInv, QueueOK
<1>2. ASSUME NEW m \in Sends, Create(m) PROVE Real \subseteq Real'
  <2>1. \A k \in Sends : made[k] <= made'[k]
    BY <1>1, <1>2 DEF Create, StoredInv, QueueOK
  <2>2. \A k \in Sends : made[k] \in Nat /\ made'[k] \in Nat
    BY <1>1, <1>2 DEF Create, StoredInv, QueueOK
  <2>3. \A r \in Rows : r.msg \in Sends /\ r.copy \in Nat
    BY DEF Rows
  <2>4. QED
    BY <2>1, <2>2, <2>3 DEF Real
<1>3. ASSUME UNCHANGED made PROVE Real \subseteq Real'
  BY <1>3 DEF Real
<1>4. ASSUME NEW m \in Sends, NEW later \in BOOLEAN, Send(m, later) PROVE UNCHANGED made
  BY <1>4 DEF Send, table
<1>5. ASSUME NEW m \in Sends,
             Mark(m) \/ MarkSender(m) \/ Finish(m) \/ Fail(m) \/ BullMQ(m)
      PROVE  UNCHANGED made
  BY <1>5 DEF Mark, MarkSender, Finish, Fail, BullMQ, Retry, Stalled, table
<1>6. ASSUME NEW i \in Instances, Start(i) \/ Crash(i) PROVE UNCHANGED made
  BY <1>6 DEF Start, Crash, table
<1>7. ASSUME NEW i \in Instances, NEW j \in Instances, Deliver(i, j) PROVE UNCHANGED made
  BY <1>7 DEF Deliver, table
<1>8. ASSUME NEW i \in Instances, NEW row \in Rows, RequestDelete(i, row)
      PROVE  UNCHANGED made
  BY <1>8 DEF RequestDelete, table
<1>9. ASSUME NEW d \in erasing, Erase(d) PROVE UNCHANGED made
  BY <1>9 DEF Erase, DeleteRow, EmitDeleted, DeleteAnswered, table
<1>10. ASSUME NEW c \in Clients, Open(c) \/ Screen(c) \/ Receive(c)
       PROVE  UNCHANGED made
  BY <1>10 DEF Open, Screen, Join, FindMessages, ShowMessages, Receive, table
<1>11. ASSUME UNCHANGED vars PROVE UNCHANGED made
  BY <1>11 DEF vars, table
<1>12. QED
  BY <1>2, <1>3, <1>4, <1>5, <1>6, <1>7, <1>8, <1>9, <1>10, <1>11 DEF Next, Process

(* A handler past its insert works on a row of the table.                   *)
LEMMA RowOfWork ==
  ASSUME StoredInv, NEW m \in Sends, made[m] > 0
  PROVE  [msg |-> m, copy |-> made[m]] \in Real
<1>1. made[m] \in 1 .. Copies /\ Copies \in Nat
  <2>1. /\ made[m] \in Nat /\ failures[m] \in Nat /\ stalls[m] \in Nat
        /\ Attempts \in Nat /\ MaxStalls \in Nat
    BY DeliveryAssumption DEF StoredInv, QueueOK
  <2>2. made[m] <= Attempts + MaxStalls
    BY StoredBound DEF Stored
  <2>3. QED
    BY <2>1, <2>2 DEF Copies
<1>2. QED
  BY <1>1 DEF Real, Rows

(* What Genuine says of the state before a step, for the rows there are     *)
(* after it.                                                                *)
LEMMA GenuineGrown ==
  ASSUME Genuine, NEW R, Real \subseteq R
  PROVE  /\ created \in Seq(R) /\ alive \subseteq R
         /\ wire \in [Instances \X Instances -> Seq(EventsOf(R))]
         /\ inbox \in [Clients -> Seq(EventsOf(R))]
         /\ answer \in [Clients -> Seq(R)] /\ list \in [Clients -> Seq(R)]
         /\ erasing \subseteq [row : R, host : Instances,
                               step : {"delete", "emit", "answer"}]
<1>1. Seq(Real) \subseteq Seq(R) /\ Seq(EventsOf(Real)) \subseteq Seq(EventsOf(R))
  BY SeqsGrow
<1>2. QED
  BY <1>1 DEF Genuine

LEMMA GenuineFrame ==
  ASSUME Genuine, UNCHANGED <<created, alive, made, wire, inbox, answer, list, erasing>>
  PROVE  Genuine'
  BY DEF Genuine, Real

LEMMA GenuineWork ==
  ASSUME StoredInv, StoredInv', Genuine, Shaped, Real \subseteq Real',
         NEW m \in Sends, Process(m)
  PROVE  Genuine'
<1>1. CASE Create(m)
  <2> DEFINE row == [msg |-> m, copy |-> made[m] + 1]
  <2>1. made'[m] = made[m] + 1 /\ made[m] \in Nat
    BY <1>1 DEF Create, StoredInv, QueueOK
  <2>2. row \in Real'
    <3>1. made'[m] > 0
      BY <2>1
    <3>2. ([msg |-> m, copy |-> made[m]] \in Real)'
      <4>1. (StoredInv /\ made[m] > 0 => [msg |-> m, copy |-> made[m]] \in Real)'
        BY RowOfWork, PTL
      <4>2. QED
        BY <3>1, <4>1
    <3>3. QED
      BY <2>1, <3>2
  <2>3. created' = Append(created, row) /\ alive' = alive \union {row}
        /\ UNCHANGED <<wire, inbox, answer, list, erasing>>
    BY <1>1 DEF Create, net, page
  <2>4. created' \in Seq(Real') /\ alive' \subseteq Real'
    BY <2>2, <2>3, GenuineGrown, AppendProperties
  <2>5. QED
    BY <2>3, <2>4, GenuineGrown DEF Genuine
<1>2. CASE Mark(m) \/ Finish(m)
  BY <1>2, GenuineFrame DEF Mark, Finish, table, net, page
<1>3. CASE MarkSender(m)
  <2> DEFINE e == [kind |-> "new", row |-> [msg |-> m, copy |-> made[m]]]
  <2>1. UNCHANGED <<created, alive, made, answer, list, erasing>>
        /\ Emit(work[m].host, e)
    BY <1>3 DEF MarkSender, page
  <2>2. made[m] > 0
    BY <1>3 DEF MarkSender, StoredInv, Working
  <2>3. e \in EventsOf(Real)
    BY <2>2, RowOfWork, EventType
  <2>4. /\ inbox' \in [Clients -> Seq(EventsOf(Real))]
        /\ wire' \in [Instances \X Instances -> Seq(EventsOf(Real))]
    BY <2>1, <2>3, EmitType DEF Genuine
  <2>5. Real' = Real
    BY <2>1 DEF Real
  <2>6. QED
    BY <2>1, <2>4, <2>5 DEF Genuine
<1>4. QED
  BY <1>1, <1>2, <1>3 DEF Process

LEMMA GenuineCrash ==
  ASSUME Genuine, NEW i \in Instances, Crash(i)
  PROVE  Genuine'
<1>1. <<>> \in Seq(EventsOf(Real)) /\ Real' = Real
  BY DEF Crash, table, Real
<1>2. /\ inbox' \in [Clients -> Seq(EventsOf(Real))]
      /\ wire' \in [Instances \X Instances -> Seq(EventsOf(Real))]
      /\ erasing' \subseteq erasing
  BY <1>1 DEF Crash, Genuine
<1>3. QED
  BY <1>1, <1>2 DEF Crash, table, page, Genuine

LEMMA GenuineDeliver ==
  ASSUME Genuine, NEW i \in Instances, NEW j \in Instances, Deliver(i, j)
  PROVE  Genuine'
<1>1. Real' = Real
  BY DEF Deliver, table, Real
<1>2. /\ inbox' \in [Clients -> Seq(EventsOf(Real))]
      /\ wire' \in [Instances \X Instances -> Seq(EventsOf(Real))]
  BY DeliverType DEF Genuine
<1>3. QED
  BY <1>1, <1>2 DEF Deliver, table, page, Genuine

LEMMA GenuineErase ==
  ASSUME Genuine
  PROVE  /\ \A i \in Instances, row \in Rows : RequestDelete(i, row) => Genuine'
         /\ \A d \in erasing : Erase(d) => Genuine'
<1>1. ASSUME NEW i \in Instances, NEW row \in Rows, RequestDelete(i, row) PROVE Genuine'
  <2>1. PICK n \in DOMAIN list[AuthorOf[row.msg]] : list[AuthorOf[row.msg]][n] = row
    BY <1>1 DEF RequestDelete
  <2>2. AuthorOf[row.msg] \in Clients
    BY DeliveryAssumption DEF Rows
  <2>3. list[AuthorOf[row.msg]] \in Seq(Real)
    BY <2>2 DEF Genuine
  <2>4. row \in Real
    BY <2>1, <2>3, LenProperties, ElementOfSeq
  <2>5. Real' = Real
    BY <1>1 DEF RequestDelete, table, Real
  <2>6. QED
    BY <1>1, <2>4, <2>5 DEF RequestDelete, table, net, page, Genuine
<1>2. ASSUME NEW d \in erasing, Erase(d) PROVE Genuine'
  <2>1. d \in [row : Real, host : Instances, step : {"delete", "emit", "answer"}]
    BY DEF Genuine
  <2>2. Real' = Real
    BY <1>2 DEF Erase, DeleteRow, EmitDeleted, DeleteAnswered, table, Real
  <2>3. CASE DeleteRow(d)
    <3>1. alive' \subseteq alive /\ erasing' \subseteq erasing \union {[d EXCEPT !.step = "emit"]}
      BY <2>3 DEF DeleteRow
    <3>2. [d EXCEPT !.step = "emit"] \in [row : Real, host : Instances,
                                         step : {"delete", "emit", "answer"}]
      BY <2>1
    <3>3. QED
      BY <2>2, <2>3, <3>1, <3>2 DEF DeleteRow, net, page, Genuine
  <2>4. CASE EmitDeleted(d)
    <3>1. erasing' \subseteq erasing \union {[d EXCEPT !.step = "answer"]}
      BY <2>4 DEF EmitDeleted
    <3>2. [d EXCEPT !.step = "answer"] \in [row : Real, host : Instances,
                                           step : {"delete", "emit", "answer"}]
      BY <2>1
    <3>3. [kind |-> "deleted", row |-> d.row] \in EventsOf(Real)
      BY <2>1, EventType
    <3>4. /\ inbox' \in [Clients -> Seq(EventsOf(Real))]
          /\ wire' \in [Instances \X Instances -> Seq(EventsOf(Real))]
      BY <2>4, <3>3, EmitType DEF EmitDeleted, Genuine
    <3>5. QED
      BY <2>2, <2>4, <3>1, <3>2, <3>4 DEF EmitDeleted, table, page, Genuine
  <2>5. CASE DeleteAnswered(d)
    <3> DEFINE a == AuthorOf[d.row.msg]
    <3>1. a \in Clients
      BY <2>1, DeliveryAssumption DEF Real, Rows
    <3>2. Without(list[a], d.row) \in Seq(Real)
      BY <3>1, OnlyKeeps DEF Genuine, Without
    <3>3. list' = [list EXCEPT ![a] = Without(list[a], d.row)]
      BY <2>5 DEF DeleteAnswered
    <3>4. list' \in [Clients -> Seq(Real)] /\ erasing' \subseteq erasing
      BY <2>5, <3>2, <3>3 DEF DeleteAnswered, Genuine
    <3>5. QED
      BY <2>2, <2>5, <3>4 DEF DeleteAnswered, table, net, Genuine
  <2>6. QED
    BY <1>2, <2>3, <2>4, <2>5 DEF Erase
<1>3. QED
  BY <1>1, <1>2

LEMMA GenuineScreen ==
  ASSUME Genuine, NEW c \in Clients, Open(c) \/ Screen(c) \/ Receive(c)
  PROVE  Genuine'
<1>1. Real' = Real
  BY DEF Open, Screen, Join, FindMessages, ShowMessages, Receive, table, Real
<1>2. CASE Open(c) \/ Join(c)
  BY <1>1, <1>2 DEF Open, Join, table, net, page, Genuine
<1>3. CASE FindMessages(c)
  <2>1. Only(created, alive) \in Seq(Real)
    BY OnlyKeeps DEF Genuine
  <2>2. QED
    BY <1>1, <1>3, <2>1 DEF FindMessages, table, net, Genuine
<1>4. CASE ShowMessages(c)
  <2>1. <<>> \in Seq(Real)
    OBVIOUS
  <2>2. answer' \in [Clients -> Seq(Real)] /\ list' \in [Clients -> Seq(Real)]
    BY <1>4, <2>1 DEF ShowMessages, Genuine
  <2>3. QED
    BY <1>1, <1>4, <2>2 DEF ShowMessages, table, net, Genuine
<1>5. CASE Receive(c)
  <2>1. inbox' \in [Clients -> Seq(EventsOf(Real))] /\ list' \in [Clients -> Seq(Real)]
    BY <1>5, ReceiveType DEF Genuine
  <2>2. QED
    BY <1>1, <1>5, <2>1 DEF Receive, table, Genuine
<1>6. QED
  BY <1>2, <1>3, <1>4, <1>5 DEF Screen

LEMMA GenuineNext ==
  ASSUME StoredInv, Genuine, Shaped, [Next]_vars
  PROVE  Genuine'
<1>1. StoredInv' /\ Real \subseteq Real'
  BY StoredNext, RealGrows
<1>2. ASSUME NEW m \in Sends, NEW later \in BOOLEAN, Send(m, later) PROVE Genuine'
  BY <1>2, GenuineFrame DEF Send, table, net, page
<1>3. ASSUME NEW m \in Sends, Fail(m) \/ BullMQ(m) PROVE Genuine'
  BY <1>3, GenuineFrame DEF Fail, BullMQ, Retry, Stalled, table, net, page
<1>4. ASSUME NEW i \in Instances, Start(i) PROVE Genuine'
  BY <1>4, GenuineFrame DEF Start, table, net, page
<1>5. ASSUME UNCHANGED vars PROVE Genuine'
  BY <1>5, GenuineFrame DEF vars, table, net, page
<1>6. QED
  BY <1>1, <1>2, <1>3, <1>4, <1>5, GenuineWork, GenuineCrash, GenuineDeliver,
     GenuineErase, GenuineScreen DEF Next

(* The handler's next step after socket number k.                           *)
LEMMA MarkAfterType ==
  ASSUME Shaped, NEW i \in Instances, NEW k \in Nat, NEW now \in Nat
  PROVE  MarkAfter(i, k, now) \in Works
<1> DEFINE later == {c \in viewing : HostOf[c] = i /\ c > k}
           first == CHOOSE c \in later : \A d \in later : c <= d
<1>1. later \subseteq Clients /\ later \in SUBSET Nat
  BY DeliveryAssumption DEF Shaped
<1>2. later # {} => first \in Clients
  BY <1>1, LeastNumber
<1> HIDE DEF first
<1>3. CASE later = {}
  BY <1>3 DEF MarkAfter, Works
<1>4. CASE later # {}
  <2>1. MarkAfter(i, k, now) = [host |-> i, step |-> "mark", stamp |-> now, viewer |-> first]
    BY <1>4 DEF MarkAfter, first
  <2>2. QED
    BY <1>2, <1>4, <2>1 DEF Works
<1>5. QED
  BY <1>3, <1>4

LEMMA ShapedProcess ==
  ASSUME StoredInv, Genuine, Shaped, NEW m \in Sends, Process(m)
  PROVE  Shaped'
<1>1. work \in [Sends -> Works \union {NoWork}] /\ Len(created) \in Nat
  BY DEF Shaped, Genuine
<1>2. ASSUME NEW w \in Works \union {NoWork}, work' = [work EXCEPT ![m] = w]
      PROVE  work' \in [Sends -> Works \union {NoWork}]
  BY <1>1, <1>2
<1>3. work[m] # NoWork => work[m].host \in Instances /\ work[m].viewer \in Clients \union {0}
                          /\ work[m].stamp \in Nat
  BY <1>1 DEF Works
<1>4. CASE Create(m)
  <2>1. MarkAfter(work[m].host, 0, Len(created) + 1) \in Works
    BY <1>1, <1>3, <1>4, MarkAfterType DEF Create, At
  <2>2. work' \in [Sends -> Works \union {NoWork}]
    BY <1>2, <1>4, <2>1 DEF Create
  <2>3. QED
    BY <1>4, <2>2 DEF Create, queue, room, page, extra, Shaped
<1>5. CASE Mark(m)
  <2>1. work[m].viewer \in Nat
    <3>1. \A c \in Clients \union {0} : c \in Nat
      BY DeliveryAssumption
    <3>2. work[m].viewer \in Clients \union {0}
      BY <1>3, <1>5 DEF Mark, At
    <3>3. QED
      BY <3>1, <3>2
  <2>2. MarkAfter(work[m].host, work[m].viewer, Len(created)) \in Works
    BY <1>1, <1>3, <1>5, <2>1, MarkAfterType DEF Mark, At
  <2>3. work' \in [Sends -> Works \union {NoWork}]
    BY <1>2, <1>5, <2>2 DEF Mark
  <2>4. lastRead' \in [Clients -> Nat]
    BY <1>3, <1>5 DEF Mark, At, Shaped
  <2>5. QED
    BY <1>5, <2>3, <2>4 DEF Mark, queue, room, page, extra, Shaped
<1>6. CASE MarkSender(m)
  <2>1. [host |-> work[m].host, step |-> "finish", viewer |-> 0, stamp |-> 0] \in Works
    BY <1>3, <1>6 DEF MarkSender, At, Works
  <2>2. work' \in [Sends -> Works \union {NoWork}]
    BY <1>2, <1>6, <2>1 DEF MarkSender
  <2>3. lastRead' \in [Clients -> Nat]
    BY <1>3, <1>6 DEF MarkSender, At, Shaped
  <2>4. QED
    BY <1>6, <2>2, <2>3 DEF MarkSender, queue, room, page, extra, Shaped
<1>7. CASE Finish(m)
  <2>1. work' \in [Sends -> Works \union {NoWork}]
    BY <1>2, <1>7 DEF Finish
  <2>2. QED
    BY <1>7, <2>1 DEF Finish, table, room, page, extra, Shaped
<1>8. QED
  BY <1>4, <1>5, <1>6, <1>7 DEF Process

(* A client shows rows.                                                     *)
LEMMA ShownRows ==
  ASSUME StoredInv, Genuine, NEW c \in Clients
  PROVE  Shown(c) \subseteq Rows
<1>1. list[c] \in Seq(Real)
  BY DEF Genuine
<1>2. \A n \in DOMAIN list[c] : list[c][n] \in Real
  BY <1>1, LenProperties, ElementOfSeq
<1>3. QED
  BY <1>2 DEF Shown, Real

LEMMA ShapedQueue ==
  ASSUME StoredInv, Genuine, Shaped, NEW m \in Sends
  PROVE  /\ \A later \in BOOLEAN : Send(m, later) => Shaped'
         /\ Fail(m) \/ BullMQ(m) => Shaped'
<1>1. ASSUME NEW later \in BOOLEAN, Send(m, later) PROVE Shaped'
  <2>1. recent' \subseteq {ContentOf[k] : k \in Sends}
    BY <1>1 DEF Send, Shaped
  <2>2. AuthorOf[m] \in Clients
    BY DeliveryAssumption
  <2>3. Shown(AuthorOf[m]) \in SUBSET Rows
    BY <2>2, ShownRows
  <2>4. seen' = [seen EXCEPT ![m] = Shown(AuthorOf[m])]
    BY <1>1 DEF Send
  <2>5. seen' \in [Sends -> SUBSET Rows]
    BY <2>3, <2>4 DEF Shaped
  <2>6. QED
    BY <1>1, <2>1, <2>5 DEF Send, table, room, page, extra, Shaped
<1>2. ASSUME Fail(m) PROVE Shaped'
  <2>1. work' \in [Sends -> Works \union {NoWork}]
    BY <1>2 DEF Fail, Shaped
  <2>2. faults' \in 0 .. MaxFaults
    BY <1>2, DeliveryAssumption DEF Fail, Shaped
  <2>3. QED
    BY <1>2, <2>1, <2>2 DEF Fail, table, room, page, Shaped
<1>3. ASSUME BullMQ(m) PROVE Shaped'
  BY <1>3 DEF BullMQ, Retry, Stalled, table, room, page, extra, Shaped
<1>4. QED
  BY <1>1, <1>2, <1>3

LEMMA ShapedInstance ==
  ASSUME StoredInv, Shaped, NEW i \in Instances, Start(i) \/ Crash(i)
  PROVE  Shaped'
<1>1. CASE Start(i)
  <2>1. [host |-> i, step |-> "create", viewer |-> 0, stamp |-> 0] \in Works
    BY DEF Works
  <2>2. work' \in [Sends -> Works \union {NoWork}]
    BY <1>1, <2>1 DEF Start, Shaped
  <2>3. QED
    BY <1>1, <2>2 DEF Start, table, room, page, extra, Shaped
<1>2. CASE Crash(i)
  <2>1. work' \in [Sends -> Works \union {NoWork}]
    BY <1>2 DEF Crash, Shaped
  <2>2. crashes' \in 0 .. MaxCrashes
    BY <1>2, DeliveryAssumption DEF Crash, Shaped
  <2>3. QED
    BY <1>2, <2>1, <2>2 DEF Crash, queue, table, page, Shaped
<1>3. QED
  BY <1>1, <1>2

LEMMA ShapedNext ==
  ASSUME StoredInv, Genuine, Shaped, [Next]_vars
  PROVE  Shaped'
<1>1. ASSUME NEW i \in Instances, NEW j \in Instances, Deliver(i, j) PROVE Shaped'
  BY <1>1 DEF Deliver, queue, table, room, page, extra, Shaped
<1>2. ASSUME NEW i \in Instances, NEW row \in Rows, RequestDelete(i, row) PROVE Shaped'
  <2>1. deletes' \in 0 .. MaxDeletes
    BY <1>2, DeliveryAssumption DEF RequestDelete, Shaped
  <2>2. QED
    BY <1>2, <2>1 DEF RequestDelete, queue, table, room, page, Shaped
<1>3. ASSUME NEW d \in erasing, Erase(d) PROVE Shaped'
  BY <1>3 DEF Erase, DeleteRow, EmitDeleted, DeleteAnswered, queue, table, room, page,
     extra, Shaped
<1>4. ASSUME NEW c \in Clients, Open(c) \/ Screen(c) \/ Receive(c) PROVE Shaped'
  <2>1. CASE Open(c) \/ FindMessages(c) \/ ShowMessages(c)
    BY <2>1 DEF Open, FindMessages, ShowMessages, queue, table, room, extra, Shaped
  <2>2. CASE Join(c) \/ Receive(c)
    BY <2>2 DEF Join, Receive, queue, table, page, room, extra, Shaped
  <2>3. QED
    BY <1>4, <2>1, <2>2 DEF Screen
<1>5. ASSUME UNCHANGED vars PROVE Shaped'
  BY <1>5 DEF vars, queue, table, room, page, extra, Shaped
<1>6. QED
  BY <1>1, <1>2, <1>3, <1>4, <1>5, ShapedProcess, ShapedQueue, ShapedInstance DEF Next

Sound == StoredInv /\ Genuine /\ Shaped

LEMMA SoundAlways == Spec => []Sound
<1>1. Init => Sound
  <2> SUFFICES ASSUME Init PROVE Sound
    OBVIOUS
  <2>1. \A R : <<>> \in Seq(R)
    OBVIOUS
  <2>2. Genuine
    BY <2>1 DEF Init, Genuine
  <2>3. Shaped
    BY DeliveryAssumption DEF Init, Shaped
  <2>4. QED
    BY <2>2, <2>3, StoredInit DEF Sound
<1>2. Sound /\ [Next]_vars => Sound'
  BY StoredNext, GenuineNext, ShapedNext DEF Sound
<1>3. QED
  BY <1>1, <1>2, PTL DEF Spec

(* Every variable keeps its type, the messages on the screens and in the    *)
(* broadcasts among them: they are rows that have been stored.              *)
THEOREM TypeCorrect == Spec => []TypeOK
<1>1. Sound => TypeOK
  <2> SUFFICES ASSUME Sound PROVE TypeOK
    OBVIOUS
  <2>1. \A m \in Sends : /\ made[m] \in 0 .. Copies /\ failures[m] \in 0 .. Attempts
                         /\ stalls[m] \in 0 .. MaxStalls + 1
    <3>1. \A m \in Sends : made[m] <= Attempts + MaxStalls /\ Paid(m)
      BY StoredBound DEF Sound, StoredInv, Stored
    <3>2. Attempts \in Nat /\ MaxStalls \in Nat
      BY DeliveryAssumption
    <3>3. QED
      BY <3>1, <3>2 DEF Sound, StoredInv, QueueOK, Paid, Copies
  <2>2. made \in [Sends -> 0 .. Copies] /\ failures \in [Sends -> 0 .. Attempts]
        /\ stalls \in [Sends -> 0 .. MaxStalls + 1]
    BY <2>1 DEF Sound, StoredInv, QueueOK
  <2>3. Real \subseteq Rows /\ EventsOf(Rows) = Events
    BY DEF Real, EventsOf, Events
  <2>4. /\ created \in Seq(Rows) /\ alive \subseteq Rows
        /\ wire \in [Instances \X Instances -> Seq(Events)]
        /\ inbox \in [Clients -> Seq(Events)]
        /\ answer \in [Clients -> Seq(Rows)] /\ list \in [Clients -> Seq(Rows)]
        /\ erasing \subseteq Erasures
    BY <2>3, GenuineGrown DEF Sound, Erasures
  <2>5. QED
    BY <2>2, <2>4 DEF Sound, StoredInv, QueueOK, Shaped, TypeOK
<1>2. QED
  BY <1>1, SoundAlways, PTL

-----------------------------------------------------------------------------
(* Delivery implements AtLeastOnce, step by step.                           *)

Fate == [m \in Sends |-> FateOf(job[m])]
Screens == [c \in Clients |-> Shown(c)]

LEMMA Fates ==
  /\ FateOf("unsent") = "unsent"
  /\ \A s \in {"waiting", "active", "delayed"} : FateOf(s) = "accepted"
  /\ FateOf("completed") = "done" /\ FateOf("dropped") = "refused"
  /\ FateOf("failed") = "failed"
  BY DEF FateOf

LEMMA FateChanges ==
  ASSUME StoredInv, NEW m \in Sends, NEW s, job' = [job EXCEPT ![m] = s]
  PROVE  Fate' = [Fate EXCEPT ![m] = FateOf(s)] /\ Fate[m] = FateOf(job[m])
  BY DEF StoredInv, QueueOK, Fate

(* A step that changes neither fates, copies nor screens.                   *)
LEMMA PromiseStutters ==
  ASSUME Fate' = Fate, UNCHANGED <<made, list>>
  PROVE  UNCHANGED Promise!vars
  BY DEF Promise!vars, Fate, Shown

LEMMA PromiseEnds ==
  ASSUME StoredInv, NEW m \in Sends, job[m] \in {"active", "waiting", "delayed"},
         NEW s \in {"completed", "failed"}, job' = [job EXCEPT ![m] = s],
         s = "completed" => made[m] > 0, UNCHANGED <<made, list>>
  PROVE  Promise!Next
<1>1. /\ Fate[m] = "accepted" /\ Fate' = [Fate EXCEPT ![m] = FateOf(s)]
      /\ FateOf(s) \in {"done", "failed"} /\ (FateOf(s) = "done" => made[m] > 0)
  BY FateChanges, Fates
<1>2. Screens' = Screens
  BY DEF Screens, Shown
<1>3. Promise!End(m)
  BY <1>1, <1>2 DEF Promise!End, Fate, Screens
<1>4. QED
  BY <1>3 DEF Promise!Next

LEMMA PromiseRefreshes ==
  ASSUME Sound', NEW c \in Clients, NEW l, list' = [list EXCEPT ![c] = l],
         Sound, UNCHANGED <<job, made>>
  PROVE  Promise!Next
<1>1. list'[c] \in Seq(Real') /\ list \in [Clients -> Seq(Real)]
  BY DEF Sound, Genuine
<1>2. \A r \in Screens'[c] : r \in Real'
  BY <1>1, LenProperties, ElementOfSeq DEF Screens, Shown
<1>3. \A r \in Real' : r.msg \in Sends /\ r.copy \in 1 .. made[r.msg]
  BY DEF Real, Rows, Sound, StoredInv, QueueOK
<1>4. Screens' = [Screens EXCEPT ![c] = Screens'[c]]
  <2>1. \A d \in Clients : d # c => Shown(d)' = Shown(d)
    BY <1>1 DEF Shown
  <2>2. QED
    BY <2>1 DEF Screens
<1>5. Promise!Refresh(c)
  BY <1>2, <1>3, <1>4 DEF Promise!Refresh, Screens
<1>6. QED
  BY <1>5 DEF Promise!Next

LEMMA PromiseStep ==
  ASSUME Sound, Sound', [Next]_vars
  PROVE  [Promise!Next]_(Promise!vars)
<1>1. StoredInv /\ StoredInv'
  BY DEF Sound
<1>2. ASSUME NEW m \in Sends, NEW later \in BOOLEAN, Send(m, later) PROVE Promise!Next
  <2>1. PICK s \in {"waiting", "dropped"} : job' = [job EXCEPT ![m] = s]
    BY <1>2 DEF Send
  <2>2. /\ Fate[m] = "unsent" /\ Fate' = [Fate EXCEPT ![m] = FateOf(s)]
        /\ FateOf(s) \in {"accepted", "refused"}
    BY <1>1, <1>2, <2>1, FateChanges, Fates DEF Send
  <2>3. Screens' = Screens /\ made' = made
    BY <1>2 DEF Send, table, page, Screens, Shown
  <2>4. Promise!Send(m)
    BY <2>2, <2>3 DEF Promise!Send, Fate, Screens
  <2>5. QED
    BY <2>4 DEF Promise!Next
<1>3. ASSUME NEW m \in Sends, Create(m) PROVE Promise!Next
  <2>1. /\ job[m] = "active" /\ job' = job /\ list' = list
        /\ made' = [made EXCEPT ![m] = @ + 1]
    BY <1>1, <1>3 DEF Create, queue, page, At, StoredInv, Working
  <2>2. made[m] < Copies
    <3>1. made'[m] <= Attempts + MaxStalls
      <4>1. (StoredInv => Stored)'
        BY StoredBound, PTL
      <4>2. QED
        BY <1>1, <4>1 DEF Stored
    <3>2. Attempts \in Nat /\ MaxStalls \in Nat /\ made[m] \in Nat /\ made'[m] = made[m] + 1
      BY <1>1, <2>1, DeliveryAssumption DEF StoredInv, QueueOK
    <3>3. QED
      BY <3>1, <3>2 DEF Copies
  <2>3. Fate[m] = "accepted" /\ Fate' = Fate /\ Screens' = Screens
    BY <2>1, Fates DEF Fate, Screens, Shown
  <2>4. Promise!Store(m)
    BY <2>1, <2>2, <2>3 DEF Promise!Store, Fate, Screens
  <2>5. QED
    BY <2>4 DEF Promise!Next
<1>4. ASSUME NEW m \in Sends, Mark(m) \/ MarkSender(m) PROVE UNCHANGED Promise!vars
  BY <1>4, PromiseStutters DEF Mark, MarkSender, queue, page, Fate
<1>5. ASSUME NEW m \in Sends, Finish(m) PROVE Promise!Next
  <2>1. job[m] = "active" /\ made[m] > 0
    BY <1>1, <1>5 DEF Finish, At, StoredInv, Working
  <2>2. QED
    BY <1>1, <1>5, <2>1, PromiseEnds DEF Finish, table, page
<1>6. ASSUME NEW m \in Sends, Fail(m) \/ BullMQ(m)
      PROVE  Promise!Next \/ UNCHANGED Promise!vars
  <2>1. /\ job[m] \in {"active", "delayed"} /\ UNCHANGED <<made, list>>
        /\ \/ job' = [job EXCEPT ![m] = "failed"]
           \/ job' = [job EXCEPT ![m] = "delayed"]
           \/ job' = [job EXCEPT ![m] = "waiting"]
    <3>1. CASE Fail(m)
      BY <1>1, <3>1 DEF Fail, At, StoredInv, Working, table, page
    <3>2. CASE BullMQ(m)
      BY <3>2 DEF BullMQ, Retry, Stalled, table, page
    <3>3. QED
      BY <1>6, <3>1, <3>2
  <2>2. CASE job' = [job EXCEPT ![m] = "failed"]
    BY <1>1, <2>1, <2>2, PromiseEnds
  <2>3. CASE job' = [job EXCEPT ![m] = "delayed"] \/ job' = [job EXCEPT ![m] = "waiting"]
    <3>1. Fate' = [Fate EXCEPT ![m] = "accepted"] /\ Fate[m] = "accepted"
      BY <1>1, <2>1, <2>3, FateChanges, Fates
    <3>2. Fate' = Fate
      BY <3>1 DEF Fate
    <3>3. QED
      BY <2>1, <3>2, PromiseStutters
  <2>4. QED
    BY <2>1, <2>2, <2>3
<1>7. ASSUME NEW i \in Instances, Start(i) PROVE UNCHANGED Promise!vars
  <2>1. waiting \in Seq(Sends) /\ waiting # <<>>
    BY <1>1, <1>7 DEF Start, StoredInv, QueueOK
  <2>2. PICK m \in Sends : m = Head(waiting) /\ m = waiting[1] /\ 1 \in 1 .. Len(waiting)
    BY <2>1
  <2>3. job[m] = "waiting" /\ job' = [job EXCEPT ![m] = "active"]
    BY <1>1, <1>7, <2>2 DEF Start, StoredInv, Queued
  <2>4. Fate' = [Fate EXCEPT ![m] = "accepted"] /\ Fate[m] = "accepted"
    <3>1. Fate' = [Fate EXCEPT ![m] = FateOf("active")] /\ Fate[m] = FateOf("waiting")
      BY <1>1, <2>3, FateChanges
    <3>2. QED
      BY <3>1, Fates
  <2>5. Fate' = Fate
    BY <2>4 DEF Fate
  <2>6. QED
    BY <1>7, <2>5, PromiseStutters DEF Start, table, page
<1>8. ASSUME NEW i \in Instances, Crash(i) PROVE UNCHANGED Promise!vars
  BY <1>8, PromiseStutters DEF Crash, queue, table, page, Fate
<1>9. ASSUME NEW i \in Instances, NEW j \in Instances, Deliver(i, j)
      PROVE  UNCHANGED Promise!vars
  BY <1>9, PromiseStutters DEF Deliver, queue, table, page, Fate
<1>10. ASSUME NEW i \in Instances, NEW row \in Rows, RequestDelete(i, row)
       PROVE  UNCHANGED Promise!vars
  BY <1>10, PromiseStutters DEF RequestDelete, queue, table, page, Fate
<1>11. ASSUME NEW d \in erasing, DeleteRow(d) \/ EmitDeleted(d)
       PROVE  UNCHANGED Promise!vars
  BY <1>11, PromiseStutters DEF DeleteRow, EmitDeleted, queue, table, page, Fate
<1>12. ASSUME NEW d \in erasing, DeleteAnswered(d) PROVE Promise!Next
  <2>1. AuthorOf[d.row.msg] \in Clients
    BY DeliveryAssumption DEF Sound, Genuine, Real, Rows
  <2>2. QED
    BY <1>12, <2>1, PromiseRefreshes DEF DeleteAnswered, queue, table
<1>13. ASSUME NEW c \in Clients, Open(c) \/ Join(c) \/ FindMessages(c)
       PROVE  UNCHANGED Promise!vars
  BY <1>13, PromiseStutters DEF Open, Join, FindMessages, queue, table, page, Fate
<1>14. ASSUME NEW c \in Clients, ShowMessages(c) \/ Receive(c) PROVE Promise!Next
  BY <1>14, PromiseRefreshes DEF ShowMessages, Receive, queue, table
<1>15. ASSUME UNCHANGED vars PROVE UNCHANGED Promise!vars
  BY <1>15, PromiseStutters DEF vars, queue, table, page, Fate
<1>16. QED
  BY <1>2, <1>3, <1>4, <1>5, <1>6, <1>7, <1>8, <1>9, <1>10, <1>11, <1>12, <1>13, <1>14,
     <1>15 DEF Next, Process, Erase, Screen

(* The safety of the promise, for any number of everything: each step of    *)
(* queue, workers, table, network and pages is a step of AtLeastOnce or     *)
(* changes nothing of what it speaks of.                                    *)
THEOREM Implements == Spec => Promise!Spec
<1>1. Init => Promise!Init
  <2>1. FateOf("unsent") = "unsent"
    BY Fates
  <2>2. QED
    BY <2>1 DEF Init, Promise!Init, Shown
<1>2. QED
  BY <1>1, SoundAlways, PromiseStep, PTL DEF Spec, Promise!Spec
-----------------------------------------------------------------------------
(* What a client has, or will have once it has handled its events: l is its *)
(* list and q the events on their way to it.                                *)

NewOf(r) == [kind |-> "new", row |-> r]
GoneOf(r) == [kind |-> "deleted", row |-> r]
In(l, x) == \E n \in 1 .. Len(l) : l[n] = x
Carries(q, r) == In(q, NewOf(r))
HasIn(l, q, r) == In(l, r) \/ Carries(q, r)

(* r comes before s, on the screen or in what is on its way there.          *)
BeforeIn(l, q, r, s) ==
  \/ \E n, k \in 1 .. Len(l) : n < k /\ l[n] = r /\ l[k] = s
  \/ In(l, r) /\ Carries(q, s)
  \/ \E n, k \in 1 .. Len(q) : n < k /\ q[n] = NewOf(r) /\ q[k] = NewOf(s)

LEMMA NewNotGone ==
  /\ \A r, s : NewOf(r) # GoneOf(s)
  /\ \A r, s : NewOf(r) = NewOf(s) => r = s
  /\ \A r, s : GoneOf(r) = GoneOf(s) => r = s
<1>1. \A r : NewOf(r).kind = "new" /\ NewOf(r).row = r
  BY DEF NewOf
<1>2. \A r : GoneOf(r).kind = "deleted" /\ GoneOf(r).row = r
  BY DEF GoneOf
<1>3. QED
  BY <1>1, <1>2

LEMMA EventIs ==
  ASSUME NEW R, NEW e \in EventsOf(R)
  PROVE  e.row \in R /\ e = (IF e.kind = "new" THEN NewOf(e.row) ELSE GoneOf(e.row))
  BY DEF EventsOf, NewOf, GoneOf

(* The next event is a new message.                                         *)
LEMMA TakeNew ==
  ASSUME NEW R, NEW l \in Seq(R), NEW q \in Seq(EventsOf(R)), q # <<>>,
         NEW r \in R, Head(q) = NewOf(r)
  PROVE  /\ \A x : HasIn(Append(l, r), Tail(q), x) <=> HasIn(l, q, x)
         /\ \A x, y : BeforeIn(Append(l, r), Tail(q), x, y) => BeforeIn(l, q, x, y)
<1> DEFINE l2 == Append(l, r)
           q2 == Tail(q)
<1>1. /\ Len(l) \in Nat /\ Len(l) + 1 \in 1 .. Len(l2) /\ l2[Len(l) + 1] = r
      /\ \A n \in 1 .. Len(l) : n \in 1 .. Len(l2) /\ l2[n] = l[n]
      /\ \A n \in 1 .. Len(l2) : (n \in 1 .. Len(l) /\ l2[n] = l[n]) \/ n = Len(l) + 1
  BY AppendAt
<1>2. /\ q[1] = NewOf(r) /\ 1 \in 1 .. Len(q) /\ Len(q) \in Nat
      /\ \A n \in 1 .. Len(q2) : n + 1 \in 1 .. Len(q) /\ q2[n] = q[n + 1]
      /\ \A n \in 1 .. Len(q) : n # 1 => n - 1 \in 1 .. Len(q2) /\ q2[n - 1] = q[n]
  BY TailAt
<1> HIDE DEF l2, q2
<1>3. \A x : In(l2, x) <=> In(l, x) \/ x = r
  BY <1>1 DEF In
<1>4. \A x : Carries(q, x) <=> Carries(q2, x) \/ x = r
  BY <1>2, NewNotGone DEF In, Carries
<1>5. \A x : HasIn(l2, q2, x) <=> HasIn(l, q, x)
  BY <1>3, <1>4 DEF HasIn
<1>6. ASSUME NEW x, NEW y, BeforeIn(l2, q2, x, y) PROVE BeforeIn(l, q, x, y)
  <2>1. CASE \E n, k \in 1 .. Len(l2) : n < k /\ l2[n] = x /\ l2[k] = y
    <3>1. PICK n \in 1 .. Len(l2), k \in 1 .. Len(l2) : n < k /\ l2[n] = x /\ l2[k] = y
      BY <2>1
    <3>2. n \in 1 .. Len(l) /\ l[n] = x
      BY <1>1, <3>1
    <3>3. CASE k \in 1 .. Len(l)
      BY <1>1, <3>1, <3>2, <3>3 DEF BeforeIn
    <3>4. CASE k = Len(l) + 1
      <4>1. y = r /\ In(l, x) /\ Carries(q, y)
        BY <1>1, <1>4, <3>1, <3>2, <3>4 DEF In
      <4>2. QED
        BY <4>1 DEF BeforeIn
    <3>5. QED
      BY <1>1, <3>3, <3>4
  <2>2. CASE In(l2, x) /\ Carries(q2, y)
    <3>1. CASE In(l, x)
      BY <1>4, <2>2, <3>1 DEF BeforeIn
    <3>2. CASE x = r
      <4>1. PICK k \in 1 .. Len(q2) : q2[k] = NewOf(y)
        BY <2>2 DEF Carries, In
      <4>2. k + 1 \in 1 .. Len(q) /\ q[k + 1] = NewOf(y) /\ 1 < k + 1
        BY <1>2, <4>1
      <4>3. QED
        BY <1>2, <3>2, <4>2 DEF BeforeIn
    <3>3. QED
      BY <1>3, <2>2, <3>1, <3>2
  <2>3. CASE \E n, k \in 1 .. Len(q2) : n < k /\ q2[n] = NewOf(x) /\ q2[k] = NewOf(y)
    <3>1. PICK n \in 1 .. Len(q2), k \in 1 .. Len(q2) :
            n < k /\ q2[n] = NewOf(x) /\ q2[k] = NewOf(y)
      BY <2>3
    <3>2. /\ n + 1 \in 1 .. Len(q) /\ k + 1 \in 1 .. Len(q) /\ n + 1 < k + 1
          /\ q[n + 1] = NewOf(x) /\ q[k + 1] = NewOf(y)
      BY <1>2, <3>1
    <3>3. QED
      BY <3>2 DEF BeforeIn
  <2>4. QED
    BY <1>6, <2>1, <2>2, <2>3 DEF BeforeIn
<1>7. QED
  BY <1>5, <1>6 DEF l2, q2

(* The next event is a deletion: the event itself changes nothing.          *)
LEMMA TakeGone ==
  ASSUME NEW R, NEW l, NEW q \in Seq(EventsOf(R)), q # <<>>, NEW r, Head(q) = GoneOf(r)
  PROVE  /\ \A x : HasIn(l, Tail(q), x) <=> HasIn(l, q, x)
         /\ \A x, y : BeforeIn(l, Tail(q), x, y) => BeforeIn(l, q, x, y)
<1> DEFINE q2 == Tail(q)
<1>1. /\ q[1] = GoneOf(r) /\ Len(q) \in Nat
      /\ \A n \in 1 .. Len(q2) : n + 1 \in 1 .. Len(q) /\ q2[n] = q[n + 1]
      /\ \A n \in 1 .. Len(q) : n # 1 => n - 1 \in 1 .. Len(q2) /\ q2[n - 1] = q[n]
  BY TailAt
<1> HIDE DEF q2
<1>2. \A x : Carries(q2, x) <=> Carries(q, x)
  BY <1>1, NewNotGone DEF Carries, In
<1>3. ASSUME NEW x, NEW y, NEW n \in 1 .. Len(q2), NEW k \in 1 .. Len(q2),
             n < k, q2[n] = NewOf(x), q2[k] = NewOf(y)
      PROVE  BeforeIn(l, q, x, y)
  <2>1. /\ n + 1 \in 1 .. Len(q) /\ k + 1 \in 1 .. Len(q) /\ n + 1 < k + 1
        /\ q[n + 1] = NewOf(x) /\ q[k + 1] = NewOf(y)
    BY <1>1, <1>3
  <2>2. QED
    BY <2>1 DEF BeforeIn
<1>4. QED
  BY <1>2, <1>3 DEF HasIn, BeforeIn, q2

(* A list that loses some of its entries.                                   *)
LEMMA DropSome ==
  ASSUME NEW R, NEW l \in Seq(R), NEW q, NEW S
  PROVE  /\ \A x : HasIn(Only(l, S), q, x) => HasIn(l, q, x)
         /\ \A x \in S : HasIn(l, q, x) => HasIn(Only(l, S), q, x)
         /\ \A x, y : BeforeIn(Only(l, S), q, x, y) => BeforeIn(l, q, x, y)
<1> DEFINE o == Only(l, S)
<1>1. /\ \A i \in 1 .. Len(o) : o[i] \in S /\ \E n \in 1 .. Len(l) : l[n] = o[i]
      /\ \A n \in 1 .. Len(l) : l[n] \in S => \E i \in 1 .. Len(o) : o[i] = l[n]
      /\ \A i, j \in 1 .. Len(o) : i < j =>
           \E n, k \in 1 .. Len(l) : n < k /\ l[n] = o[i] /\ l[k] = o[j]
  BY OnlyKeeps
<1> HIDE DEF o
<1>2. ASSUME NEW x PROVE In(o, x) <=> In(l, x) /\ x \in S
  <2>1. In(o, x) => In(l, x) /\ x \in S
    BY <1>1 DEF In
  <2>2. ASSUME NEW n \in 1 .. Len(l), l[n] = x, x \in S PROVE In(o, x)
    BY <1>1, <2>2 DEF In
  <2>3. QED
    BY <2>1, <2>2 DEF In
<1>3. ASSUME NEW x, NEW y, BeforeIn(o, q, x, y) PROVE BeforeIn(l, q, x, y)
  <2>1. CASE \E n, k \in 1 .. Len(o) : n < k /\ o[n] = x /\ o[k] = y
    <3>1. PICK i \in 1 .. Len(o), j \in 1 .. Len(o) : i < j /\ o[i] = x /\ o[j] = y
      BY <2>1
    <3>2. PICK n \in 1 .. Len(l), k \in 1 .. Len(l) :
            n < k /\ l[n] = o[i] /\ l[k] = o[j]
      BY <1>1, <3>1
    <3>3. QED
      BY <3>1, <3>2 DEF BeforeIn
  <2>2. QED
    BY <1>2, <1>3, <2>1 DEF BeforeIn
<1>4. QED
  BY <1>2, <1>3 DEF HasIn, o

(* Nothing is on its way any more.                                          *)
LEMMA Lose ==
  ASSUME NEW l, NEW q
  PROVE  /\ \A x : HasIn(l, <<>>, x) => HasIn(l, q, x)
         /\ \A x, y : BeforeIn(l, <<>>, x, y) => BeforeIn(l, q, x, y)
<1>1. \A x : ~Carries(<<>>, x)
  BY DEF Carries, In
<1>2. QED
  BY <1>1 DEF HasIn, BeforeIn

(* One more event is on its way.                                            *)
LEMMA GetNew ==
  ASSUME NEW R, NEW l, NEW q \in Seq(EventsOf(R)), NEW r \in R
  PROVE  LET q2 == Append(q, NewOf(r)) IN
         /\ \A x : HasIn(l, q2, x) <=> HasIn(l, q, x) \/ x = r
         /\ \A x, y : BeforeIn(l, q2, x, y) =>
              BeforeIn(l, q, x, y) \/ (y = r /\ HasIn(l, q, x))
<1> DEFINE q2 == Append(q, NewOf(r))
<1>1. NewOf(r) \in EventsOf(R)
  BY DEF NewOf, EventsOf
<1>2. /\ Len(q) \in Nat /\ Len(q) + 1 \in 1 .. Len(q2) /\ q2[Len(q) + 1] = NewOf(r)
      /\ \A n \in 1 .. Len(q) : n \in 1 .. Len(q2) /\ q2[n] = q[n]
      /\ \A n \in 1 .. Len(q2) : (n \in 1 .. Len(q) /\ q2[n] = q[n]) \/ n = Len(q) + 1
  BY <1>1, AppendAt
<1> HIDE DEF q2
<1>3. \A x : Carries(q2, x) <=> Carries(q, x) \/ x = r
  BY <1>2, NewNotGone DEF Carries, In
<1>4. ASSUME NEW x, NEW y, BeforeIn(l, q2, x, y)
      PROVE  BeforeIn(l, q, x, y) \/ (y = r /\ HasIn(l, q, x))
  <2>1. CASE In(l, x) /\ Carries(q2, y)
    BY <1>3, <2>1 DEF BeforeIn, HasIn
  <2>2. CASE \E n, k \in 1 .. Len(q2) : n < k /\ q2[n] = NewOf(x) /\ q2[k] = NewOf(y)
    <3>1. PICK n \in 1 .. Len(q2), k \in 1 .. Len(q2) :
            n < k /\ q2[n] = NewOf(x) /\ q2[k] = NewOf(y)
      BY <2>2
    <3>2. n \in 1 .. Len(q) /\ q[n] = NewOf(x)
      BY <1>2, <3>1
    <3>3. CASE k \in 1 .. Len(q)
      BY <1>2, <3>1, <3>2, <3>3 DEF BeforeIn
    <3>4. CASE k = Len(q) + 1
      BY <1>2, <3>1, <3>2, <3>4, NewNotGone DEF HasIn, Carries, In
    <3>5. QED
      BY <1>2, <3>3, <3>4
  <2>3. QED
    BY <1>4, <2>1, <2>2 DEF BeforeIn
<1>5. QED
  BY <1>3, <1>4 DEF HasIn, q2

LEMMA GetGone ==
  ASSUME NEW R, NEW l, NEW q \in Seq(EventsOf(R)), NEW r \in R
  PROVE  LET q2 == Append(q, GoneOf(r)) IN
         /\ \A x : HasIn(l, q2, x) <=> HasIn(l, q, x)
         /\ \A x, y : BeforeIn(l, q2, x, y) => BeforeIn(l, q, x, y)
<1> DEFINE q2 == Append(q, GoneOf(r))
<1>1. GoneOf(r) \in EventsOf(R)
  BY DEF GoneOf, EventsOf
<1>2. /\ Len(q) \in Nat /\ Len(q) + 1 \in 1 .. Len(q2) /\ q2[Len(q) + 1] = GoneOf(r)
      /\ \A n \in 1 .. Len(q) : n \in 1 .. Len(q2) /\ q2[n] = q[n]
      /\ \A n \in 1 .. Len(q2) : (n \in 1 .. Len(q) /\ q2[n] = q[n]) \/ n = Len(q) + 1
  BY <1>1, AppendAt
<1> HIDE DEF q2
<1>3. \A n \in 1 .. Len(q2) : \A x : q2[n] = NewOf(x) => n \in 1 .. Len(q) /\ q[n] = NewOf(x)
  BY <1>2, NewNotGone
<1>4. \A x : Carries(q2, x) <=> Carries(q, x)
  BY <1>2, <1>3 DEF Carries, In
<1>5. \A x, y : BeforeIn(l, q2, x, y) => BeforeIn(l, q, x, y)
  BY <1>3, <1>4 DEF BeforeIn
<1>6. QED
  BY <1>4, <1>5 DEF HasIn, q2

LEMMA BeforeHas ==
  ASSUME NEW l, NEW q, NEW x, NEW y, BeforeIn(l, q, x, y)
  PROVE  HasIn(l, q, x) /\ HasIn(l, q, y)
  BY DEF BeforeIn, HasIn, In, Carries

LEMMA NothingYet ==
  ASSUME NEW l, NEW q
  PROVE  /\ \A x : HasIn(<<>>, q, x) => HasIn(l, q, x)
         /\ \A x, y : BeforeIn(<<>>, q, x, y) => BeforeIn(l, q, x, y)
<1>1. \A x : ~In(<<>>, x)
  BY DEF In
<1>2. QED
  BY <1>1 DEF HasIn, BeforeIn

-----------------------------------------------------------------------------
(* What clients have, and in which order.                                   *)

Has(c, r) == HasIn(list[c], inbox[c], r)
Before(c, r, s) == BeforeIn(list[c], inbox[c], r, s)

(* The broadcast of r has been made, or never will be: the handler that     *)
(* stored r is past it, or gone.                                            *)
Aired(r) ==
  \/ r.copy < made[r.msg]
  \/ r.copy = made[r.msg] /\ ~At(r.msg, "mark") /\ ~At(r.msg, "sender")

(* When clients open the room early, they have done so before any message.  *)
Ready ==
  \/ \A m \in Sends : job[m] = "unsent" /\ made[m] = 0
  \/ \A c \in Clients : load[c] = "done" /\ c \notin joining

(* Clients of one instance get their messages in one order, each once.      *)
Ordered ==
  \A c, d \in Clients : HostOf[c] = HostOf[d] =>
    \A r, s \in Rows : ~(Before(c, r, s) /\ Before(d, s, r))

(* A row is broadcast once to each instance.                                *)
Single ==
  \A i, j, k \in Instances, r \in Rows :
    \A n \in 1 .. Len(wire[<<i, k>>]), p \in 1 .. Len(wire[<<j, k>>]) :
      wire[<<i, k>>][n] = NewOf(r) /\ wire[<<j, k>>][p] = NewOf(r) => i = j /\ n = p

(* A row on its way to an instance is new to the clients of that instance.  *)
Apart ==
  \A i \in Instances, c \in Clients, r \in Rows :
    Carries(wire[<<i, HostOf[c]>>], r) => ~Has(c, r)

OnAir ==
  \A r \in Rows :
    /\ \A c \in Clients : Has(c, r) => Aired(r)
    /\ \A ij \in Instances \X Instances : Carries(wire[ij], r) => Aired(r)

Steady == Ordered /\ Single /\ Apart /\ OnAir

-----------------------------------------------------------------------------
(* A step that brings no client and no instance anything new.               *)
LEMMA SteadyShrinks ==
  ASSUME Steady,
         \A c \in Clients : \A r, s \in Rows :
           (Has(c, r)' => Has(c, r)) /\ (Before(c, r, s)' => Before(c, r, s)),
         \A ij \in Instances \X Instances : \A n \in 1 .. Len(wire'[ij]) : \A r \in Rows :
           wire'[ij][n] = NewOf(r) => n \in 1 .. Len(wire[ij]) /\ wire[ij][n] = NewOf(r),
         \A r \in Rows : Aired(r) => Aired(r)'
  PROVE  Steady'
<1>1. \A ij \in Instances \X Instances : \A r \in Rows :
        Carries(wire'[ij], r) => Carries(wire[ij], r)
  BY DEF Carries, In
<1>2. Ordered'
  BY DEF Steady, Ordered
<1>3. Single'
  <2>1. \A i, k \in Instances : <<i, k>> \in Instances \X Instances
    OBVIOUS
  <2>2. QED
    BY <2>1 DEF Steady, Single
<1>4. Apart'
  <2>1. ASSUME NEW i \in Instances, NEW c \in Clients, NEW r \in Rows,
               Carries(wire'[<<i, HostOf[c]>>], r)
        PROVE  ~Has(c, r)'
    <3>1. HostOf[c] \in Instances /\ <<i, HostOf[c]>> \in Instances \X Instances
      BY DeliveryAssumption
    <3>2. Carries(wire[<<i, HostOf[c]>>], r)
      BY <1>1, <2>1, <3>1
    <3>3. ~Has(c, r)
      BY <3>2 DEF Steady, Apart
    <3>4. QED
      BY <3>3
  <2>2. QED
    BY <2>1 DEF Apart
<1>5. OnAir'
  <2>1. ASSUME NEW r \in Rows, NEW c \in Clients, Has(c, r)' PROVE Aired(r)'
    BY <2>1 DEF Steady, OnAir
  <2>2. ASSUME NEW r \in Rows, NEW ij \in Instances \X Instances, Carries(wire'[ij], r)
        PROVE  Aired(r)'
    BY <1>1, <2>2 DEF Steady, OnAir
  <2>3. QED
    BY <2>1, <2>2 DEF OnAir
<1>6. QED
  BY <1>2, <1>3, <1>4, <1>5 DEF Steady

(* What the broadcast of a row brings.                                      *)
LEMMA EmitNewAdds ==
  ASSUME Sound, NEW i \in Instances, NEW r \in Real, Emit(i, NewOf(r)), UNCHANGED list
  PROVE  /\ \A c \in Clients : \A x, y :
              /\ Has(c, x)' => Has(c, x) \/ (x = r /\ HostOf[c] = i)
              /\ Before(c, x, y)' => Before(c, x, y) \/ (y = r /\ Has(c, x))
         /\ \A ij \in Instances \X Instances : \A n \in 1 .. Len(wire'[ij]), x \in Rows :
              wire'[ij][n] = NewOf(x) =>
                \/ n \in 1 .. Len(wire[ij]) /\ wire[ij][n] = NewOf(x)
                \/ x = r /\ ij[1] = i /\ ij[2] # i /\ n = Len(wire[ij]) + 1
<1>1. ASSUME NEW c \in Clients, NEW x, NEW y
      PROVE  /\ Has(c, x)' => Has(c, x) \/ (x = r /\ HostOf[c] = i)
             /\ Before(c, x, y)' => Before(c, x, y) \/ (y = r /\ Has(c, x))
  <2>1. inbox[c] \in Seq(EventsOf(Real))
    BY DEF Sound, Genuine
  <2>2. CASE HostOf[c] = i /\ c \in viewing
    <3>1. inbox'[c] = Append(inbox[c], NewOf(r))
      BY <2>2 DEF Emit, Push
    <3>2. /\ HasIn(list[c], Append(inbox[c], NewOf(r)), x) => Has(c, x) \/ x = r
          /\ BeforeIn(list[c], Append(inbox[c], NewOf(r)), x, y) =>
               Before(c, x, y) \/ (y = r /\ Has(c, x))
      BY <2>1, GetNew DEF Has, Before
    <3>3. QED
      BY <2>2, <3>1, <3>2 DEF Has, Before
  <2>3. CASE ~(HostOf[c] = i /\ c \in viewing)
    BY <2>3 DEF Emit, Push, Has, Before
  <2>4. QED
    BY <2>2, <2>3
<1>2. ASSUME NEW ij \in Instances \X Instances, NEW n \in 1 .. Len(wire'[ij]), NEW x \in Rows,
             wire'[ij][n] = NewOf(x)
      PROVE  \/ n \in 1 .. Len(wire[ij]) /\ wire[ij][n] = NewOf(x)
             \/ x = r /\ ij[1] = i /\ ij[2] # i /\ n = Len(wire[ij]) + 1
  <2>1. wire[ij] \in Seq(EventsOf(Real)) /\ NewOf(r) \in EventsOf(Real)
    BY DEF Sound, Genuine, EventsOf, NewOf
  <2>2. CASE ij[1] = i /\ ij[2] # i
    <3>1. wire'[ij] = Append(wire[ij], NewOf(r))
      BY <2>2 DEF Emit
    <3>2. QED
      BY <1>2, <2>1, <2>2, <3>1, AppendAt, NewNotGone
  <2>3. CASE ~(ij[1] = i /\ ij[2] # i)
    BY <1>2, <2>3 DEF Emit
  <2>4. QED
    BY <2>2, <2>3
<1>3. QED
  BY <1>1, <1>2

(* The broadcast of a row, by the instance that has stored it.              *)
LEMMA SteadyEmitNew ==
  ASSUME Sound, Steady, NEW i \in Instances, NEW r \in Real, Emit(i, NewOf(r)),
         ~Aired(r), Aired(r)', UNCHANGED list, \A x \in Rows : Aired(x) => Aired(x)'
  PROVE  Steady'
<1>1. /\ r \in Rows /\ \A c \in Clients : ~Has(c, r)
      /\ \A ij \in Instances \X Instances : ~Carries(wire[ij], r)
  BY DEF Real, Steady, OnAir
<1>2. ASSUME NEW c \in Clients, NEW x, NEW y
      PROVE  /\ Has(c, x)' => Has(c, x) \/ (x = r /\ HostOf[c] = i)
             /\ Before(c, x, y)' => Before(c, x, y) \/ (y = r /\ Has(c, x))
  BY EmitNewAdds
<1>3. ASSUME NEW ij \in Instances \X Instances, NEW n \in 1 .. Len(wire'[ij]), NEW x \in Rows,
             wire'[ij][n] = NewOf(x)
      PROVE  \/ n \in 1 .. Len(wire[ij]) /\ wire[ij][n] = NewOf(x)
             \/ x = r /\ ij[1] = i /\ ij[2] # i /\ n = Len(wire[ij]) + 1
  BY <1>3, EmitNewAdds
<1>4. ASSUME NEW ij \in Instances \X Instances, NEW x \in Rows, Carries(wire'[ij], x)
      PROVE  Carries(wire[ij], x) \/ (x = r /\ ij[1] = i /\ ij[2] # i)
  BY <1>3, <1>4 DEF Carries, In
<1>5. Ordered'
  <2>1. ASSUME NEW c \in Clients, NEW d \in Clients, HostOf[c] = HostOf[d],
               NEW x \in Rows, NEW y \in Rows, Before(c, x, y)', Before(d, y, x)'
        PROVE  FALSE
    <3>1. \A e \in Clients : ~Has(e, r)
      BY <1>1
    <3>2. \A e \in Clients : \A z : ~Before(e, r, z) /\ ~Before(e, z, r)
      BY <3>1, BeforeHas DEF Has, Before
    <3>3. Before(c, x, y) \/ (y = r /\ Has(c, x))
      BY <1>2, <2>1
    <3>4. Before(d, y, x) \/ (x = r /\ Has(d, y))
      BY <1>2, <2>1
    <3>5. Before(c, x, y) /\ Before(d, y, x)
      BY <3>1, <3>2, <3>3, <3>4
    <3>6. QED
      BY <2>1, <3>5 DEF Steady, Ordered
  <2>2. QED
    BY <2>1 DEF Ordered
<1>6. Single'
  <2>1. ASSUME NEW a \in Instances, NEW b \in Instances, NEW k \in Instances, NEW x \in Rows,
               NEW n \in 1 .. Len(wire'[<<a, k>>]), NEW p \in 1 .. Len(wire'[<<b, k>>]),
               wire'[<<a, k>>][n] = NewOf(x), wire'[<<b, k>>][p] = NewOf(x)
        PROVE  a = b /\ n = p
    <3>1. <<a, k>> \in Instances \X Instances /\ <<b, k>> \in Instances \X Instances
      OBVIOUS
    <3>2. \/ n \in 1 .. Len(wire[<<a, k>>]) /\ wire[<<a, k>>][n] = NewOf(x)
          \/ x = r /\ a = i /\ n = Len(wire[<<a, k>>]) + 1
      BY <1>3, <2>1, <3>1
    <3>3. \/ p \in 1 .. Len(wire[<<b, k>>]) /\ wire[<<b, k>>][p] = NewOf(x)
          \/ x = r /\ b = i /\ p = Len(wire[<<b, k>>]) + 1
      BY <1>3, <2>1, <3>1
    <3>4. CASE x = r
      <4>1. ~Carries(wire[<<a, k>>], r) /\ ~Carries(wire[<<b, k>>], r)
        BY <1>1, <3>1
      <4>2. a = i /\ n = Len(wire[<<a, k>>]) + 1 /\ b = i /\ p = Len(wire[<<b, k>>]) + 1
        BY <3>2, <3>3, <3>4, <4>1 DEF Carries, In
      <4>3. QED
        BY <4>2
    <3>5. CASE x # r
      BY <3>2, <3>3, <3>5 DEF Steady, Single
    <3>6. QED
      BY <3>4, <3>5
  <2>2. QED
    BY <2>1 DEF Single
<1>7. Apart'
  <2>1. ASSUME NEW a \in Instances, NEW c \in Clients, NEW x \in Rows,
               Carries(wire'[<<a, HostOf[c]>>], x), Has(c, x)'
        PROVE  FALSE
    <3>1. HostOf[c] \in Instances /\ <<a, HostOf[c]>> \in Instances \X Instances
      BY DeliveryAssumption
    <3>2. Carries(wire[<<a, HostOf[c]>>], x) \/ (x = r /\ HostOf[c] # i)
      BY <1>4, <2>1, <3>1
    <3>3. Has(c, x) \/ (x = r /\ HostOf[c] = i)
      BY <1>2, <2>1
    <3>4. CASE x = r
      BY <1>1, <3>1, <3>2, <3>3, <3>4
    <3>5. CASE x # r
      BY <3>2, <3>3, <3>5 DEF Steady, Apart
    <3>6. QED
      BY <3>4, <3>5
  <2>2. QED
    BY <2>1 DEF Apart
<1>8. OnAir'
  <2>1. ASSUME NEW x \in Rows, NEW c \in Clients, Has(c, x)' PROVE Aired(x)'
    BY <1>2, <2>1 DEF Steady, OnAir
  <2>2. ASSUME NEW x \in Rows, NEW ij \in Instances \X Instances, Carries(wire'[ij], x)
        PROVE  Aired(x)'
    BY <1>4, <2>2 DEF Steady, OnAir
  <2>3. QED
    BY <2>1, <2>2 DEF OnAir
<1>9. QED
  BY <1>5, <1>6, <1>7, <1>8 DEF Steady

(* The broadcast of a deletion brings no row.                               *)
LEMMA EmitGoneAdds ==
  ASSUME Sound, NEW i \in Instances, NEW r \in Real, Emit(i, GoneOf(r)), UNCHANGED list
  PROVE  /\ \A c \in Clients : \A x, y :
              (Has(c, x)' => Has(c, x)) /\ (Before(c, x, y)' => Before(c, x, y))
         /\ \A ij \in Instances \X Instances : \A n \in 1 .. Len(wire'[ij]), x \in Rows :
              wire'[ij][n] = NewOf(x) => n \in 1 .. Len(wire[ij]) /\ wire[ij][n] = NewOf(x)
<1>1. ASSUME NEW c \in Clients, NEW x, NEW y
      PROVE  (Has(c, x)' => Has(c, x)) /\ (Before(c, x, y)' => Before(c, x, y))
  <2>1. inbox[c] \in Seq(EventsOf(Real))
    BY DEF Sound, Genuine
  <2>2. CASE HostOf[c] = i /\ c \in viewing
    <3>1. inbox'[c] = Append(inbox[c], GoneOf(r))
      BY <2>2 DEF Emit, Push
    <3>2. QED
      BY <2>1, <3>1, GetGone DEF Has, Before
  <2>3. CASE ~(HostOf[c] = i /\ c \in viewing)
    BY <2>3 DEF Emit, Push, Has, Before
  <2>4. QED
    BY <2>2, <2>3
<1>2. ASSUME NEW ij \in Instances \X Instances, NEW n \in 1 .. Len(wire'[ij]), NEW x \in Rows,
             wire'[ij][n] = NewOf(x)
      PROVE  n \in 1 .. Len(wire[ij]) /\ wire[ij][n] = NewOf(x)
  <2>1. wire[ij] \in Seq(EventsOf(Real)) /\ GoneOf(r) \in EventsOf(Real)
    BY DEF Sound, Genuine, EventsOf, GoneOf
  <2>2. CASE ij[1] = i /\ ij[2] # i
    <3>1. wire'[ij] = Append(wire[ij], GoneOf(r))
      BY <2>2 DEF Emit
    <3>2. QED
      BY <1>2, <2>1, <2>2, <3>1, AppendAt, NewNotGone
  <2>3. CASE ~(ij[1] = i /\ ij[2] # i)
    BY <1>2, <2>3 DEF Emit
  <2>4. QED
    BY <2>2, <2>3
<1>3. QED
  BY <1>1, <1>2

(* The broadcast of a deletion.                                             *)
LEMMA SteadyEmitGone ==
  ASSUME Sound, Steady, NEW i \in Instances, NEW r \in Real, Emit(i, GoneOf(r)),
         UNCHANGED list, \A x \in Rows : Aired(x) => Aired(x)'
  PROVE  Steady'
  BY EmitGoneAdds, SteadyShrinks

(* An instance gets the broadcast of another.                               *)
LEMMA SteadyDeliver ==
  ASSUME Sound, Steady, NEW i \in Instances, NEW j \in Instances, Deliver(i, j),
         \A x \in Rows : Aired(x) => Aired(x)'
  PROVE  Steady'
<1> DEFINE w == wire[<<i, j>>]
           e == Head(w)
           r == e.row
<1>1. /\ w \in Seq(EventsOf(Real)) /\ w # <<>> /\ Push(j, e) /\ list' = list
      /\ wire' = [wire EXCEPT ![<<i, j>>] = Tail(w)]
      /\ wire \in [Instances \X Instances -> Seq(EventsOf(Real))]
  BY DEF Deliver, Sound, Genuine, page
<1>2. /\ Tail(w) \in Seq(EventsOf(Real)) /\ e = w[1] /\ 1 \in 1 .. Len(w)
      /\ e \in EventsOf(Real) /\ Len(w) \in Nat
      /\ \A n \in 1 .. Len(Tail(w)) : n + 1 \in 1 .. Len(w) /\ Tail(w)[n] = w[n + 1]
  BY <1>1, TailAt
<1>3. r \in Real /\ r \in Rows /\ (e = NewOf(r) \/ e = GoneOf(r))
  BY <1>2, EventIs DEF Real
<1> HIDE DEF w, e, r
<1>4. ASSUME NEW c \in Clients, NEW x, NEW y
      PROVE  /\ Has(c, x)' => Has(c, x) \/ (x = r /\ e = NewOf(r) /\ HostOf[c] = j)
             /\ Before(c, x, y)' => \/ Before(c, x, y)
                                    \/ y = r /\ e = NewOf(r) /\ HostOf[c] = j /\ Has(c, x)
  <2>1. inbox[c] \in Seq(EventsOf(Real))
    BY DEF Sound, Genuine
  <2>2. CASE HostOf[c] = j /\ c \in viewing
    <3>1. inbox'[c] = Append(inbox[c], e)
      BY <1>1, <2>2 DEF Push
    <3>2. CASE e = NewOf(r)
      <4>1. /\ HasIn(list[c], Append(inbox[c], NewOf(r)), x) => Has(c, x) \/ x = r
            /\ BeforeIn(list[c], Append(inbox[c], NewOf(r)), x, y) =>
                 Before(c, x, y) \/ (y = r /\ Has(c, x))
        BY <1>3, <2>1, GetNew DEF Has, Before
      <4>2. QED
        BY <1>1, <2>2, <3>1, <3>2, <4>1 DEF Has, Before
    <3>3. CASE e = GoneOf(r)
      BY <1>1, <1>3, <2>1, <2>2, <3>1, <3>3, GetGone DEF Has, Before
    <3>4. QED
      BY <1>3, <3>2, <3>3
  <2>3. CASE ~(HostOf[c] = j /\ c \in viewing)
    BY <1>1, <2>3 DEF Push, Has, Before
  <2>4. QED
    BY <2>2, <2>3
<1>5. ASSUME NEW ij \in Instances \X Instances, NEW n \in 1 .. Len(wire'[ij])
      PROVE  \/ ij = <<i, j>> /\ n + 1 \in 1 .. Len(wire[ij]) /\ wire'[ij][n] = wire[ij][n + 1]
                /\ wire'[ij] = Tail(w)
             \/ ij # <<i, j>> /\ n \in 1 .. Len(wire[ij]) /\ wire'[ij][n] = wire[ij][n]
  <2>1. CASE ij = <<i, j>>
    <3>1. wire'[ij] = Tail(w)
      BY <1>1, <2>1
    <3>2. QED
      BY <1>2, <2>1, <3>1 DEF w
  <2>2. CASE ij # <<i, j>>
    BY <1>1, <2>2
  <2>3. QED
    BY <2>1, <2>2
<1>6. ASSUME NEW ij \in Instances \X Instances, NEW x, Carries(wire'[ij], x)
      PROVE  Carries(wire[ij], x)
  BY <1>5, <1>6 DEF Carries, In
<1>7. e = NewOf(r) => /\ \A a \in Instances : ~Carries(wire'[<<a, j>>], r)
                      /\ \A c \in Clients : HostOf[c] = j => ~Has(c, r)
                      /\ Aired(r)
  <2>1. SUFFICES ASSUME e = NewOf(r)
                 PROVE  /\ \A a \in Instances : ~Carries(wire'[<<a, j>>], r)
                        /\ \A c \in Clients : HostOf[c] = j => ~Has(c, r)
                        /\ Aired(r)
    OBVIOUS
  <2>2. wire[<<i, j>>][1] = NewOf(r) /\ 1 \in 1 .. Len(wire[<<i, j>>])
    BY <1>2, <2>1 DEF w
  <2>3. Carries(wire[<<i, j>>], r) /\ <<i, j>> \in Instances \X Instances
    BY <2>2 DEF Carries, In
  <2>4. ASSUME NEW a \in Instances, NEW n \in 1 .. Len(wire'[<<a, j>>]),
               wire'[<<a, j>>][n] = NewOf(r)
        PROVE  FALSE
    <3>1. <<a, j>> \in Instances \X Instances
      OBVIOUS
    <3>2. CASE a = i
      <4>1. n + 1 \in 1 .. Len(wire[<<i, j>>]) /\ wire[<<i, j>>][n + 1] = NewOf(r)
        BY <1>5, <2>4, <3>1, <3>2
      <4>2. n + 1 = 1
        BY <1>3, <2>2, <4>1 DEF Steady, Single
      <4>3. n \in Nat \ {0}
        BY <1>1, <1>2, <1>5, <2>4, <3>1, <3>2, <4>1 DEF w
      <4>4. QED
        BY <4>2, <4>3
    <3>3. CASE a # i
      <4>1. n \in 1 .. Len(wire[<<a, j>>]) /\ wire[<<a, j>>][n] = NewOf(r)
        BY <1>5, <2>4, <3>1, <3>3
      <4>2. a = i
        BY <1>3, <2>2, <4>1 DEF Steady, Single
      <4>3. QED
        BY <3>3, <4>2
    <3>4. QED
      BY <3>2, <3>3
  <2>5. QED
    BY <1>3, <2>3, <2>4 DEF Carries, In, Steady, Apart, OnAir
<1>8. Ordered'
  <2>1. ASSUME NEW c \in Clients, NEW d \in Clients, HostOf[c] = HostOf[d],
               NEW x \in Rows, NEW y \in Rows, Before(c, x, y)', Before(d, y, x)'
        PROVE  FALSE
    <3>1. \/ Before(c, x, y)
          \/ y = r /\ e = NewOf(r) /\ HostOf[c] = j /\ Has(c, x)
      BY <1>4, <2>1
    <3>2. \/ Before(d, y, x)
          \/ x = r /\ e = NewOf(r) /\ HostOf[d] = j /\ Has(d, y)
      BY <1>4, <2>1
    <3>3. Before(c, x, y) => Has(c, x) /\ Has(c, y)
      BY BeforeHas DEF Before, Has
    <3>4. Before(d, y, x) => Has(d, x) /\ Has(d, y)
      BY BeforeHas DEF Before, Has
    <3>5. Before(c, x, y) /\ Before(d, y, x)
      BY <1>7, <2>1, <3>1, <3>2, <3>3, <3>4
    <3>6. QED
      BY <2>1, <3>5 DEF Steady, Ordered
  <2>2. QED
    BY <2>1 DEF Ordered
<1>9. Single'
  <2>1. ASSUME NEW a \in Instances, NEW b \in Instances, NEW k \in Instances, NEW x \in Rows,
               NEW n \in 1 .. Len(wire'[<<a, k>>]), NEW p \in 1 .. Len(wire'[<<b, k>>]),
               wire'[<<a, k>>][n] = NewOf(x), wire'[<<b, k>>][p] = NewOf(x)
        PROVE  a = b /\ n = p
    <3> DEFINE n2 == IF <<a, k>> = <<i, j>> THEN n + 1 ELSE n
               p2 == IF <<b, k>> = <<i, j>> THEN p + 1 ELSE p
    <3>1. <<a, k>> \in Instances \X Instances /\ <<b, k>> \in Instances \X Instances
      OBVIOUS
    <3>2. n2 \in 1 .. Len(wire[<<a, k>>]) /\ wire[<<a, k>>][n2] = NewOf(x)
      BY <1>5, <2>1, <3>1
    <3>3. p2 \in 1 .. Len(wire[<<b, k>>]) /\ wire[<<b, k>>][p2] = NewOf(x)
      BY <1>5, <2>1, <3>1
    <3> HIDE DEF n2, p2
    <3>4. a = b /\ n2 = p2
      BY <3>2, <3>3 DEF Steady, Single
    <3>5. wire'[<<a, k>>] \in Seq(EventsOf(Real)) /\ wire'[<<b, k>>] \in Seq(EventsOf(Real))
      BY <1>1, <1>2, <3>1
    <3>6. n \in Nat /\ p \in Nat
      BY <3>5
    <3>7. QED
      BY <3>4, <3>6 DEF n2, p2
  <2>2. QED
    BY <2>1 DEF Single
<1>10. Apart'
  <2>1. ASSUME NEW a \in Instances, NEW c \in Clients, NEW x \in Rows,
               Carries(wire'[<<a, HostOf[c]>>], x), Has(c, x)'
        PROVE  FALSE
    <3>1. HostOf[c] \in Instances /\ <<a, HostOf[c]>> \in Instances \X Instances
      BY DeliveryAssumption
    <3>2. Carries(wire[<<a, HostOf[c]>>], x)
      BY <1>6, <2>1, <3>1
    <3>3. Has(c, x) \/ (x = r /\ e = NewOf(r) /\ HostOf[c] = j)
      BY <1>4, <2>1
    <3>4. CASE Has(c, x)
      BY <3>2, <3>4 DEF Steady, Apart
    <3>5. CASE x = r /\ e = NewOf(r) /\ HostOf[c] = j
      BY <1>7, <2>1, <3>5
    <3>6. QED
      BY <3>3, <3>4, <3>5
  <2>2. QED
    BY <2>1 DEF Apart
<1>11. OnAir'
  <2>1. ASSUME NEW x \in Rows, NEW c \in Clients, Has(c, x)' PROVE Aired(x)'
    <3>1. Has(c, x) \/ (x = r /\ e = NewOf(r))
      BY <1>4, <2>1
    <3>2. QED
      BY <1>7, <3>1 DEF Steady, OnAir
  <2>2. ASSUME NEW x \in Rows, NEW ij \in Instances \X Instances, Carries(wire'[ij], x)
        PROVE  Aired(x)'
    BY <1>6, <2>2 DEF Steady, OnAir
  <2>3. QED
    BY <2>1, <2>2 DEF OnAir
<1>12. QED
  BY <1>8, <1>9, <1>10, <1>11 DEF Steady

-----------------------------------------------------------------------------
(* Once aired, a row stays so.                                              *)
LEMMA AiredGrows ==
  ASSUME Sound, [Next]_vars, NEW r \in Rows, Aired(r)
  PROVE  Aired(r)'
<1> DEFINE k == r.msg
<1>1. k \in Sends /\ r.copy \in Nat /\ made[k] \in Nat
  BY DEF Rows, Sound, StoredInv, QueueOK
<1>2. work \in [Sends -> Works \union {NoWork}]
  BY DEF Sound, Shaped
<1>3. ASSUME made'[k] = made[k],
             work'[k] = work[k] \/ work'[k] = NoWork
             \/ work'[k].step \in {"create", "finish"} \/ At(k, "mark") \/ At(k, "sender")
      PROVE  Aired(r)'
  BY <1>3 DEF Aired, At
<1>4. ASSUME NEW m \in Sends, NEW later \in BOOLEAN, Send(m, later) PROVE Aired(r)'
  BY <1>3, <1>4 DEF Send, table
<1>5. ASSUME NEW m \in Sends, Create(m) PROVE Aired(r)'
  <2>1. CASE m = k
    <3>1. At(k, "create") /\ made'[k] = made[k] + 1
      BY <1>5, <2>1 DEF Create, Sound, StoredInv, QueueOK
    <3>2. r.copy <= made[k]
      BY <1>1 DEF Aired
    <3>3. QED
      BY <1>1, <3>1, <3>2 DEF Aired
  <2>2. CASE m # k
    BY <1>1, <1>2, <1>3, <1>5, <2>2 DEF Create, Sound, StoredInv, QueueOK
  <2>3. QED
    BY <2>1, <2>2
<1>6. ASSUME NEW m \in Sends, Mark(m) \/ MarkSender(m) PROVE Aired(r)'
  <2>1. CASE m = k
    BY <1>3, <1>6, <2>1 DEF Mark, MarkSender
  <2>2. CASE m # k
    BY <1>1, <1>2, <1>3, <1>6, <2>2 DEF Mark, MarkSender
  <2>3. QED
    BY <2>1, <2>2
<1>7. ASSUME NEW m \in Sends, Finish(m) \/ Fail(m) PROVE Aired(r)'
  BY <1>1, <1>2, <1>3, <1>7 DEF Finish, Fail, table
<1>8. ASSUME NEW m \in Sends, BullMQ(m) PROVE Aired(r)'
  BY <1>3, <1>8 DEF BullMQ, Retry, Stalled, table
<1>9. ASSUME NEW i \in Instances, Start(i) PROVE Aired(r)'
  <2>1. PICK m : work' = [work EXCEPT ![m] = [host |-> i, step |-> "create",
                                             viewer |-> 0, stamp |-> 0]]
    BY <1>9 DEF Start
  <2>2. work'[k] = work[k] \/ work'[k].step = "create"
    BY <1>1, <1>2, <2>1
  <2>3. QED
    BY <1>3, <1>9, <2>2 DEF Start, table
<1>10. ASSUME NEW i \in Instances, Crash(i) PROVE Aired(r)'
  BY <1>1, <1>3, <1>10 DEF Crash, table
<1>11. ASSUME UNCHANGED <<made, work>> PROVE Aired(r)'
  BY <1>3, <1>11
<1>12. ASSUME NEW i \in Instances, NEW j \in Instances, Deliver(i, j) PROVE Aired(r)'
  BY <1>11, <1>12 DEF Deliver, table
<1>13. ASSUME NEW i \in Instances, NEW row \in Rows, RequestDelete(i, row) PROVE Aired(r)'
  BY <1>11, <1>13 DEF RequestDelete, table
<1>14. ASSUME NEW d \in erasing, Erase(d) PROVE Aired(r)'
  BY <1>11, <1>14 DEF Erase, DeleteRow, EmitDeleted, DeleteAnswered, table
<1>15. ASSUME NEW c \in Clients, Open(c) \/ Screen(c) \/ Receive(c) PROVE Aired(r)'
  BY <1>11, <1>15 DEF Open, Screen, Join, FindMessages, ShowMessages, Receive, table
<1>16. ASSUME UNCHANGED vars PROVE Aired(r)'
  BY <1>11, <1>16 DEF vars, table
<1>17. QED
  BY <1>4, <1>5, <1>6, <1>7, <1>8, <1>9, <1>10, <1>12, <1>13, <1>14, <1>15, <1>16
  DEF Next, Process

LEMMA ReadyNext ==
  ASSUME Early, Sound, Ready, [Next]_vars
  PROVE  Ready'
<1>1. ASSUME \A c \in Clients : load[c] = "done" /\ c \notin joining,
             UNCHANGED <<load, joining>>
      PROVE  Ready'
  BY <1>1 DEF Ready
<1>2. ASSUME UNCHANGED <<job, made, load, joining>> PROVE Ready'
  BY <1>2 DEF Ready
<1>3. ASSUME NEW m \in Sends, NEW later \in BOOLEAN, Send(m, later) PROVE Ready'
  BY <1>1, <1>3 DEF Send, page, room
<1>4. ASSUME NEW m \in Sends, At(m, "create") \/ At(m, "mark") \/ At(m, "sender")
                              \/ At(m, "finish") \/ job[m] # "unsent",
             UNCHANGED <<load, joining>>
      PROVE  Ready'
  <2>1. job[m] # "unsent"
    BY <1>4 DEF At, Sound, StoredInv, Working
  <2>2. QED
    BY <1>1, <1>4, <2>1 DEF Ready
<1>5. ASSUME NEW m \in Sends, Process(m) PROVE Ready'
  BY <1>4, <1>5 DEF Process, Create, Mark, MarkSender, Finish, page, room
<1>6. ASSUME NEW m \in Sends, Fail(m) \/ BullMQ(m) PROVE Ready'
  BY <1>4, <1>6 DEF Fail, BullMQ, Retry, Stalled, page, room
<1>7. ASSUME NEW i \in Instances, Start(i) PROVE Ready'
  <2>1. waiting \in Seq(Sends) /\ waiting # <<>>
    BY <1>7 DEF Start, Sound, StoredInv, QueueOK
  <2>2. waiting[1] \in Sends /\ 1 \in 1 .. Len(waiting)
    BY <2>1
  <2>3. job[waiting[1]] = "waiting"
    BY <2>2 DEF Sound, StoredInv, Queued
  <2>4. QED
    BY <1>4, <1>7, <2>2, <2>3 DEF Start, page, room
<1>8. ASSUME NEW i \in Instances, Crash(i) PROVE Ready'
  BY <1>8 DEF Crash, queue, table, page, Ready
<1>9. ASSUME NEW i \in Instances, NEW j \in Instances, Deliver(i, j) PROVE Ready'
  BY <1>2, <1>9 DEF Deliver, queue, table, page, room
<1>10. ASSUME NEW i \in Instances, NEW row \in Rows, RequestDelete(i, row) PROVE Ready'
  BY <1>2, <1>10 DEF RequestDelete, queue, table, page, room
<1>11. ASSUME NEW d \in erasing, Erase(d) PROVE Ready'
  BY <1>2, <1>11 DEF Erase, DeleteRow, EmitDeleted, DeleteAnswered, queue, table, page, room
<1>12. ASSUME NEW c \in Clients, Open(c) \/ FindMessages(c) \/ ShowMessages(c) PROVE Ready'
  <2>1. load[c] # "done" /\ UNCHANGED <<job, made>>
    BY <1>12 DEF Open, FindMessages, ShowMessages, queue, table
  <2>2. QED
    BY <2>1 DEF Ready
<1>13. ASSUME NEW c \in Clients, Join(c) PROVE Ready'
  BY <1>13 DEF Join, queue, table, page, Ready
<1>14. ASSUME NEW c \in Clients, Receive(c) PROVE Ready'
  BY <1>2, <1>14 DEF Receive, queue, table, room
<1>15. ASSUME UNCHANGED vars PROVE Ready'
  BY <1>2, <1>15 DEF vars, queue, table, page, room
<1>16. QED
  BY <1>3, <1>5, <1>6, <1>7, <1>8, <1>9, <1>10, <1>11, <1>12, <1>13, <1>14, <1>15
  DEF Next, Screen

(* A client handles an event: it has the same messages as before, but for   *)
(* one that the event deletes.                                              *)
LEMMA ReceiveKeeps ==
  ASSUME Sound, NEW c \in Clients, Receive(c)
  PROVE  /\ \A x, y : /\ Has(c, x)' => Has(c, x)
                      /\ Before(c, x, y)' => Before(c, x, y)
         /\ \A x \in Rows : Has(c, x) /\ inbox[c][1] # GoneOf(x) => Has(c, x)'
<1> DEFINE q == inbox[c]
           e == Head(q)
           r == e.row
           l == list[c]
<1>1. /\ q \in Seq(EventsOf(Real)) /\ q # <<>> /\ l \in Seq(Real)
      /\ inbox'[c] = Tail(q)
      /\ list'[c] = IF e.kind = "new" THEN Append(l, r) ELSE Only(l, Rows \ {r})
  BY DEF Receive, Sound, Genuine, Without
<1>2. e = q[1] /\ e \in EventsOf(Real)
  BY <1>1, TailAt
<1>3. r \in Real /\ e = (IF e.kind = "new" THEN NewOf(r) ELSE GoneOf(r))
  BY <1>2, EventIs
<1> HIDE DEF q, e, r, l
<1>4. CASE e.kind = "new"
  <2>1. /\ \A x : HasIn(Append(l, r), Tail(q), x) <=> HasIn(l, q, x)
        /\ \A x, y : BeforeIn(Append(l, r), Tail(q), x, y) => BeforeIn(l, q, x, y)
    <3>1. Head(q) = NewOf(r)
      BY <1>3, <1>4 DEF e
    <3>2. QED
      BY <1>1, <1>3, <3>1, TakeNew
  <2>2. QED
    BY <1>1, <1>4, <2>1 DEF Has, Before, q, l
<1>5. CASE e.kind # "new"
  <2> DEFINE o == Only(l, Rows \ {r})
  <2>1. /\ \A x : HasIn(o, Tail(q), x) => HasIn(l, Tail(q), x)
        /\ \A x \in Rows \ {r} : HasIn(l, Tail(q), x) => HasIn(o, Tail(q), x)
        /\ \A x, y : BeforeIn(o, Tail(q), x, y) => BeforeIn(l, Tail(q), x, y)
    BY <1>1, DropSome
  <2>2. /\ \A x : HasIn(l, Tail(q), x) <=> HasIn(l, q, x)
        /\ \A x, y : BeforeIn(l, Tail(q), x, y) => BeforeIn(l, q, x, y)
    <3>1. Head(q) = GoneOf(r)
      BY <1>3, <1>5 DEF e
    <3>2. QED
      BY <1>1, <3>1, TakeGone
  <2>3. list'[c] = o /\ q[1] = GoneOf(r)
    BY <1>1, <1>2, <1>3, <1>5
  <2> HIDE DEF o
  <2>4. \A x : Has(c, x)' = HasIn(o, Tail(q), x) /\ Has(c, x) = HasIn(l, q, x)
    BY <1>1, <2>3 DEF Has, q, l
  <2>5. \A x, y : Before(c, x, y)' = BeforeIn(o, Tail(q), x, y)
                  /\ Before(c, x, y) = BeforeIn(l, q, x, y)
    BY <1>1, <2>3 DEF Before, q, l
  <2>6. \A x \in Rows : inbox[c][1] # GoneOf(x) => x \in Rows \ {r}
    BY <2>3 DEF q
  <2>7. QED
    BY <2>1, <2>2, <2>4, <2>5, <2>6
<1>6. QED
  BY <1>4, <1>5

(* The author's page removes a message once the request is answered.        *)
LEMMA AnsweredKeeps ==
  ASSUME Sound, NEW d \in erasing, DeleteAnswered(d), NEW c \in Clients
  PROVE  /\ \A x, y : /\ Has(c, x)' => Has(c, x)
                      /\ Before(c, x, y)' => Before(c, x, y)
         /\ \A x \in Rows : Has(c, x) /\ x # d.row => Has(c, x)'
<1>1. list' = [list EXCEPT ![AuthorOf[d.row.msg]] = Without(@, d.row)] /\ inbox' = inbox
  BY DEF DeleteAnswered, net
<1>2. CASE c = AuthorOf[d.row.msg]
  <2>1. list'[c] = Only(list[c], Rows \ {d.row}) /\ list[c] \in Seq(Real)
    BY <1>1, <1>2 DEF Sound, Genuine, Without
  <2>2. /\ \A x : HasIn(Only(list[c], Rows \ {d.row}), inbox[c], x)
                    => HasIn(list[c], inbox[c], x)
        /\ \A x \in Rows \ {d.row} : HasIn(list[c], inbox[c], x) =>
             HasIn(Only(list[c], Rows \ {d.row}), inbox[c], x)
        /\ \A x, y : BeforeIn(Only(list[c], Rows \ {d.row}), inbox[c], x, y)
                       => BeforeIn(list[c], inbox[c], x, y)
    BY <2>1, DropSome
  <2>3. \A x, y : /\ HasIn(list'[c], inbox'[c], x) => HasIn(list[c], inbox[c], x)
                  /\ BeforeIn(list'[c], inbox'[c], x, y) => BeforeIn(list[c], inbox[c], x, y)
    BY <1>1, <2>1, <2>2
  <2>4. \A x \in Rows : HasIn(list[c], inbox[c], x) /\ x # d.row
                          => HasIn(list'[c], inbox'[c], x)
    BY <1>1, <2>1, <2>2
  <2>5. QED
    BY <2>3, <2>4 DEF Has, Before
<1>3. CASE c # AuthorOf[d.row.msg]
  <2>1. list'[c] = list[c]
    BY <1>1, <1>3 DEF Sound, Genuine
  <2>2. QED
    BY <1>1, <2>1 DEF Has, Before
<1>4. QED
  BY <1>2, <1>3

LEMMA SteadyFrame ==
  ASSUME Sound, Steady, [Next]_vars, UNCHANGED <<list, inbox, wire>>
  PROVE  Steady'
<1>1. \A r \in Rows : Aired(r) => Aired(r)'
  BY AiredGrows
<1>2. QED
  BY <1>1, SteadyShrinks DEF Has, Before

LEMMA SteadyNext ==
  ASSUME Sound, Ready, Steady, [Next]_vars
  PROVE  Steady'
<1>1. \A r \in Rows : Aired(r) => Aired(r)'
  BY AiredGrows
<1>2. ASSUME \A c \in Clients : \A r, s \in Rows :
               (Has(c, r)' => Has(c, r)) /\ (Before(c, r, s)' => Before(c, r, s)),
             \A ij \in Instances \X Instances : wire'[ij] = wire[ij] \/ wire'[ij] = <<>>
      PROVE  Steady'
  BY <1>1, <1>2, SteadyShrinks
<1>3. ASSUME NEW m \in Sends, NEW later \in BOOLEAN, Send(m, later) PROVE Steady'
  BY <1>3, SteadyFrame DEF Send, net, page
<1>4. ASSUME NEW m \in Sends, Create(m) \/ Mark(m) \/ Finish(m) PROVE Steady'
  BY <1>4, SteadyFrame DEF Create, Mark, Finish, net, page
<1>5. ASSUME NEW m \in Sends, MarkSender(m) PROVE Steady'
  <2>1. made[m] > 0 /\ At(m, "sender")
    BY <1>5 DEF MarkSender, Sound, StoredInv, Working
  <2>2. PICK r \in Real : r = [msg |-> m, copy |-> made[m]]
    BY <2>1, RowOfWork DEF Sound
  <2>3. made' = made /\ work'[m].step = "finish" /\ Emit(work[m].host, NewOf(r)) /\ list' = list
    BY <1>5, <2>2 DEF MarkSender, NewOf, page, Sound, Shaped
  <2>4. work[m].host \in Instances
    BY <2>1 DEF At, Sound, Shaped, Works
  <2>5. ~Aired(r) /\ Aired(r)'
    <3>1. r.msg = m /\ r.copy = made[m] /\ made[m] \in Nat
      BY <2>2 DEF Sound, StoredInv, QueueOK
    <3>2. QED
      BY <2>1, <2>3, <3>1 DEF Aired, At
  <2>6. QED
    BY <1>1, <2>2, <2>3, <2>4, <2>5, SteadyEmitNew
<1>6. ASSUME NEW m \in Sends, Fail(m) \/ BullMQ(m) PROVE Steady'
  BY <1>6, SteadyFrame DEF Fail, BullMQ, Retry, Stalled, net, page
<1>7. ASSUME NEW i \in Instances, Start(i) PROVE Steady'
  BY <1>7, SteadyFrame DEF Start, net, page
<1>8. ASSUME NEW i \in Instances, Crash(i) PROVE Steady'
  <2>1. \A c \in Clients : inbox'[c] = inbox[c] \/ inbox'[c] = <<>>
    BY <1>8 DEF Crash
  <2>2. \A ij \in Instances \X Instances : wire'[ij] = wire[ij] \/ wire'[ij] = <<>>
    BY <1>8 DEF Crash
  <2>3. list' = list
    BY <1>8 DEF Crash, page
  <2>4. QED
    BY <1>2, <2>1, <2>2, <2>3, Lose DEF Has, Before
<1>9. ASSUME NEW i \in Instances, NEW j \in Instances, Deliver(i, j) PROVE Steady'
  BY <1>1, <1>9, SteadyDeliver
<1>10. ASSUME NEW i \in Instances, NEW row \in Rows, RequestDelete(i, row) PROVE Steady'
  BY <1>10, SteadyFrame DEF RequestDelete, net, page
<1>11. ASSUME NEW d \in erasing, DeleteRow(d) PROVE Steady'
  BY <1>11, SteadyFrame DEF DeleteRow, net, page
<1>12. ASSUME NEW d \in erasing, EmitDeleted(d) PROVE Steady'
  <2>1. d.row \in Real /\ d.host \in Instances
    BY DEF Sound, Genuine
  <2>2. Emit(d.host, GoneOf(d.row)) /\ list' = list
    BY <1>12 DEF EmitDeleted, GoneOf, page
  <2>3. QED
    BY <1>1, <2>1, <2>2, SteadyEmitGone
<1>13. ASSUME NEW d \in erasing, DeleteAnswered(d) PROVE Steady'
  BY <1>2, <1>13, AnsweredKeeps DEF DeleteAnswered, net
<1>14. ASSUME NEW c \in Clients, Open(c) \/ Join(c) \/ FindMessages(c) PROVE Steady'
  BY <1>14, SteadyFrame DEF Open, Join, FindMessages, net, page
<1>15. ASSUME NEW c \in Clients, ShowMessages(c) PROVE Steady'
  <2>1. \A m \in Sends : made[m] = 0
    BY <1>15 DEF ShowMessages, Ready
  <2>2. Real = {}
    BY <2>1 DEF Real, Rows
  <2>3. answer[c] = <<>>
    <3>1. answer[c] \in Seq({})
      BY <2>2 DEF Sound, Genuine
    <3>2. QED
      BY <3>1
  <2>4. inbox' = inbox /\ wire' = wire /\ list' = [list EXCEPT ![c] = <<>>]
    BY <1>15, <2>3 DEF ShowMessages, net
  <2>5. \A u \in Clients : list'[u] = list[u] \/ list'[u] = <<>>
    BY <2>4 DEF Sound, Genuine
  <2>6. QED
    BY <1>2, <2>4, <2>5, NothingYet DEF Has, Before
<1>16. ASSUME NEW c \in Clients, Receive(c) PROVE Steady'
  <2>1. \A u \in Clients : u # c => list'[u] = list[u] /\ inbox'[u] = inbox[u]
    BY <1>16 DEF Receive, Sound, Genuine
  <2>2. wire' = wire
    BY <1>16 DEF Receive
  <2>3. \A u \in Clients : u # c => \A r, s : Has(u, r)' = Has(u, r)
                                              /\ Before(u, r, s)' = Before(u, r, s)
    BY <2>1 DEF Has, Before
  <2>4. QED
    BY <1>2, <1>16, <2>2, <2>3, ReceiveKeeps
<1>17. ASSUME UNCHANGED vars PROVE Steady'
  BY <1>17, SteadyFrame DEF vars, net, page
<1>18. QED
  BY <1>3, <1>4, <1>5, <1>6, <1>7, <1>8, <1>9, <1>10, <1>11, <1>12, <1>13, <1>14, <1>15,
     <1>16, <1>17 DEF Next, Process, Erase, Screen

LEMMA SteadyAlways ==
  ASSUME Early
  PROVE  Spec => [](Sound /\ Ready /\ Steady)
<1>1. Init => Ready /\ Steady
  <2> SUFFICES ASSUME Init PROVE Ready /\ Steady
    OBVIOUS
  <2>1. Ready
    BY DEF Init, Ready
  <2>2. \A x : ~In(<<>>, x)
    BY DEF In
  <2>3. \A c \in Clients : \A x, y : ~Has(c, x) /\ ~Before(c, x, y)
    BY <2>2 DEF Init, Has, Before, HasIn, BeforeIn, Carries
  <2>4. \A ij \in Instances \X Instances : wire[ij] = <<>>
    BY DEF Init
  <2>5. \A i \in Instances, c \in Clients : <<i, HostOf[c]>> \in Instances \X Instances
    BY DeliveryAssumption
  <2>6. Single
    BY <2>4 DEF Single
  <2>7. Apart /\ Ordered /\ OnAir
    BY <2>2, <2>3, <2>4, <2>5 DEF Apart, Ordered, OnAir, Carries
  <2>8. QED
    BY <2>1, <2>6, <2>7 DEF Steady
<1>2. Sound /\ Ready /\ Steady /\ [Next]_vars => Ready' /\ Steady'
  BY ReadyNext, SteadyNext
<1>3. QED
  BY <1>1, <1>2, SoundAlways, PTL DEF Spec

(* Clients that had the room on screen before the first message: none ever  *)
(* shows a stored message twice, for any number of instances that broadcast *)
(* it, of retries and of crashes.                                           *)
THEOREM Once ==
  ASSUME Early
  PROVE  Spec => []NothingTwice
<1>1. Sound /\ Steady => NothingTwice
  <2> SUFFICES ASSUME Sound, Steady, NEW c \in Clients,
                      NEW n \in DOMAIN list[c], NEW k \in DOMAIN list[c],
                      list[c][n] = list[c][k], n # k
               PROVE  FALSE
    BY DEF NothingTwice
  <2>1. list[c] \in Seq(Real)
    BY DEF Sound, Genuine
  <2>2. n \in 1 .. Len(list[c]) /\ k \in 1 .. Len(list[c]) /\ Len(list[c]) \in Nat
    BY <2>1, LenProperties
  <2>3. list[c][n] \in Rows
    BY <2>1, <2>2, ElementOfSeq DEF Real
  <2>4. n < k \/ k < n
    BY <2>2
  <2>5. Before(c, list[c][n], list[c][n])
    BY <2>2, <2>4 DEF Before, BeforeIn
  <2>6. QED
    BY <2>3, <2>5 DEF Steady, Ordered
<1>2. QED
  BY <1>1, SteadyAlways, PTL

-----------------------------------------------------------------------------
(* An answer is not shown before what it answers.                           *)

(* Instance i has heard of r, and will not again.                           *)
Passed(i, r) == Aired(r) /\ \A j \in Instances : ~Carries(wire[<<j, i>>], r)

(* What was on the screen of the sender has passed its instance: no client  *)
(* of the instance will get it after the message.                           *)
Followed ==
  \A m \in Sends :
    /\ job[m] = "unsent" => made[m] = 0
    /\ \A r \in seen[m] : r.msg # m
    /\ \A r \in seen[m], c \in Clients : HostOf[c] = HostOf[AuthorOf[m]] =>
         /\ Passed(HostOf[c], r)
         /\ \A s \in Rows : s.msg = m => ~Before(c, s, r)

(* A step that brings no instance a row that has passed it.                 *)
LEMMA FollowedKeeps ==
  ASSUME Shaped, Followed, seen' = seen,
         \A m \in Sends : job'[m] = "unsent" => job[m] = "unsent" /\ made'[m] = made[m],
         \A r \in Rows : Aired(r) => Aired(r)',
         \A ij \in Instances \X Instances : \A r \in Rows :
           Carries(wire'[ij], r) => Carries(wire[ij], r) \/ ~Aired(r),
         \A c \in Clients : \A r, s \in Rows :
           Before(c, s, r)' => Before(c, s, r) \/ ~Passed(HostOf[c], r)
  PROVE  Followed'
<1>1. ASSUME NEW i \in Instances, NEW r \in Rows, Passed(i, r) PROVE Passed(i, r)'
  <2>1. ASSUME NEW j \in Instances PROVE ~Carries(wire'[<<j, i>>], r)
    <3>1. <<j, i>> \in Instances \X Instances /\ ~Carries(wire[<<j, i>>], r) /\ Aired(r)
      BY <1>1 DEF Passed
    <3>2. QED
      BY <3>1
  <2>2. QED
    BY <1>1, <2>1 DEF Passed
<1>2. ASSUME NEW m \in Sends, NEW r \in seen'[m], NEW c \in Clients,
             HostOf[c] = HostOf[AuthorOf[m]]
      PROVE  /\ Passed(HostOf[c], r)'
             /\ \A s \in Rows : s.msg = m => ~Before(c, s, r)'
  <2>1. r \in Rows /\ r \in seen[m] /\ HostOf[c] \in Instances
    BY <1>2, DeliveryAssumption DEF Shaped
  <2>2. Passed(HostOf[c], r) /\ \A s \in Rows : s.msg = m => ~Before(c, s, r)
    BY <1>2, <2>1 DEF Followed
  <2>3. QED
    BY <1>1, <2>1, <2>2
<1>3. \A m \in Sends : /\ job'[m] = "unsent" => made'[m] = 0
                        /\ \A r \in seen'[m] : r.msg # m
  BY DEF Followed
<1>4. QED
  BY <1>2, <1>3 DEF Followed

(* The sender has on its screen what its instance has passed on.            *)
LEMMA FollowedSend ==
  ASSUME Sound, Steady, Followed, NEW m \in Sends, NEW later \in BOOLEAN, Send(m, later)
  PROVE  Followed'
<1>1. /\ job[m] = "unsent" /\ seen' = [seen EXCEPT ![m] = Shown(AuthorOf[m])]
      /\ UNCHANGED <<made, work, wire, inbox, list>>
      /\ \A k \in Sends : job'[k] = "unsent" => job[k] = "unsent"
  BY DEF Send, table, net, page, Sound, StoredInv, QueueOK
<1>2. \A i, r : Passed(i, r)' = Passed(i, r)
  BY <1>1 DEF Passed, Aired, At, Carries
<1>3. \A c, r, s : Before(c, r, s)' = Before(c, r, s)
  BY <1>1 DEF Before
<1>4. ASSUME NEW r \in Shown(AuthorOf[m]), NEW c \in Clients,
             HostOf[c] = HostOf[AuthorOf[m]]
      PROVE  /\ Passed(HostOf[c], r) /\ r.msg # m
             /\ \A s \in Rows : s.msg = m => ~Before(c, s, r)
  <2>1. AuthorOf[m] \in Clients /\ HostOf[c] \in Instances
    BY DeliveryAssumption
  <2>2. r \in Rows /\ Has(AuthorOf[m], r)
    <3>1. list[AuthorOf[m]] \in Seq(Real)
      BY <2>1 DEF Sound, Genuine
    <3>2. PICK n \in 1 .. Len(list[AuthorOf[m]]) : list[AuthorOf[m]][n] = r
      BY <3>1, LenProperties DEF Shown
    <3>3. r \in Real
      BY <3>1, <3>2, ElementOfSeq
    <3>4. QED
      BY <3>2, <3>3 DEF Real, Has, HasIn, In
  <2>3. Passed(HostOf[c], r)
    <3>1. Aired(r)
      BY <2>1, <2>2 DEF Steady, OnAir
    <3>2. ASSUME NEW j \in Instances PROVE ~Carries(wire[<<j, HostOf[c]>>], r)
      BY <1>4, <2>1, <2>2 DEF Steady, Apart
    <3>3. QED
      BY <3>1, <3>2 DEF Passed
  <2>4. ASSUME NEW s \in Rows, s.msg = m, Before(c, s, r) PROVE FALSE
    <3>1. Has(c, s)
      BY <2>4, BeforeHas DEF Has, Before
    <3>2. Aired(s)
      BY <3>1 DEF Steady, OnAir
    <3>3. made[m] = 0 /\ s.copy \in Nat \ {0}
      BY <1>1 DEF Followed, Rows
    <3>4. QED
      BY <2>4, <3>2, <3>3 DEF Aired
  <2>5. r.msg # m
    <3>1. Aired(r) /\ made[m] = 0 /\ r.copy \in Nat \ {0}
      BY <1>1, <2>2, <2>3 DEF Passed, Followed, Rows
    <3>2. QED
      BY <3>1 DEF Aired
  <2>6. QED
    BY <2>3, <2>4, <2>5
<1>5. ASSUME NEW k \in Sends, NEW r \in seen'[k], NEW c \in Clients,
             HostOf[c] = HostOf[AuthorOf[k]]
      PROVE  /\ Passed(HostOf[c], r)'
             /\ \A s \in Rows : s.msg = k => ~Before(c, s, r)'
  <2>1. CASE k = m
    <3>1. r \in Shown(AuthorOf[m])
      BY <1>1, <1>5, <2>1 DEF Sound, Shaped
    <3>2. QED
      BY <1>2, <1>3, <1>4, <1>5, <2>1, <3>1
  <2>2. CASE k # m
    <3>1. r \in seen[k]
      BY <1>1, <1>5, <2>2
    <3>2. QED
      BY <1>2, <1>3, <1>5, <3>1 DEF Followed
  <2>3. QED
    BY <2>1, <2>2
<1>6. \A k \in Sends : job'[k] = "unsent" => made'[k] = 0
  BY <1>1 DEF Followed
<1>7. ASSUME NEW k \in Sends, NEW r \in seen'[k] PROVE r.msg # k
  <2>1. CASE k = m
    <3>1. r \in Shown(AuthorOf[m]) /\ AuthorOf[m] \in Clients
      BY <1>1, <1>7, <2>1, DeliveryAssumption DEF Sound, Shaped
    <3>2. QED
      BY <1>4, <2>1, <3>1
  <2>2. CASE k # m
    BY <1>1, <1>7, <2>2 DEF Followed
  <2>3. QED
    BY <2>1, <2>2
<1>8. QED
  BY <1>5, <1>6, <1>7 DEF Followed

(* Every other step: a message that has not been sent has no row.           *)
LEMMA StillUnsent ==
  ASSUME Sound, [Next]_vars, NEW k \in Sends, job'[k] = "unsent"
  PROVE  job[k] = "unsent" /\ made'[k] = made[k]
<1> USE DEF Sound, StoredInv, QueueOK
<1>1. CASE UNCHANGED <<job, made>>
  BY <1>1
<1>2. ASSUME NEW m \in Sends, NEW later \in BOOLEAN, Send(m, later)
      PROVE  job[k] = "unsent" /\ made'[k] = made[k]
  BY <1>2 DEF Send, table
<1>3. ASSUME NEW m \in Sends, Create(m) PROVE job[k] = "unsent" /\ made'[k] = made[k]
  <2>1. job' = job /\ job[m] = "active" /\ made' = [made EXCEPT ![m] = made[m] + 1]
    BY <1>3 DEF Create, queue, At, Working
  <2>2. QED
    BY <2>1
<1>4. ASSUME NEW m \in Sends, Mark(m) \/ MarkSender(m)
      PROVE  job[k] = "unsent" /\ made'[k] = made[k]
  BY <1>4 DEF Mark, MarkSender, queue
<1>5. ASSUME NEW m \in Sends, Finish(m) \/ Fail(m) \/ BullMQ(m)
      PROVE  job[k] = "unsent" /\ made'[k] = made[k]
  BY <1>5 DEF Finish, Fail, BullMQ, Retry, Stalled, table
<1>6. ASSUME NEW i \in Instances, Start(i) PROVE job[k] = "unsent" /\ made'[k] = made[k]
  BY <1>6 DEF Start, table
<1>7. ASSUME NEW i \in Instances, Crash(i) PROVE job[k] = "unsent" /\ made'[k] = made[k]
  BY <1>1, <1>7 DEF Crash, queue, table
<1>8. ASSUME NEW i \in Instances, NEW j \in Instances, Deliver(i, j)
      PROVE  job[k] = "unsent" /\ made'[k] = made[k]
  BY <1>1, <1>8 DEF Deliver, queue, table
<1>9. ASSUME NEW i \in Instances, NEW row \in Rows, RequestDelete(i, row)
      PROVE  job[k] = "unsent" /\ made'[k] = made[k]
  BY <1>1, <1>9 DEF RequestDelete, queue, table
<1>10. ASSUME NEW d \in erasing, Erase(d) PROVE job[k] = "unsent" /\ made'[k] = made[k]
  BY <1>1, <1>10 DEF Erase, DeleteRow, EmitDeleted, DeleteAnswered, queue, table
<1>11. ASSUME NEW c \in Clients, Open(c) \/ Screen(c) \/ Receive(c)
       PROVE  job[k] = "unsent" /\ made'[k] = made[k]
  BY <1>1, <1>11 DEF Open, Screen, Join, FindMessages, ShowMessages, Receive, queue, table
<1>12. CASE UNCHANGED vars
  BY <1>1, <1>12 DEF vars, queue, table
<1>13. QED
  BY <1>2, <1>3, <1>4, <1>5, <1>6, <1>7, <1>8, <1>9, <1>10, <1>11, <1>12 DEF Next, Process

(* What an instance gets from another.                                      *)
LEMMA DeliverAdds ==
  ASSUME Sound, NEW i \in Instances, NEW j \in Instances, Deliver(i, j)
  PROVE  /\ \A c \in Clients : \A x, y : Before(c, x, y)' =>
              Before(c, x, y) \/ (HostOf[c] = j /\ Carries(wire[<<i, j>>], y))
         /\ \A ij \in Instances \X Instances : \A x :
              Carries(wire'[ij], x) => Carries(wire[ij], x)
<1> DEFINE w == wire[<<i, j>>]
           e == Head(w)
           r == e.row
<1>1. /\ w \in Seq(EventsOf(Real)) /\ w # <<>> /\ Push(j, e) /\ list' = list
      /\ wire' = [wire EXCEPT ![<<i, j>>] = Tail(w)]
      /\ wire \in [Instances \X Instances -> Seq(EventsOf(Real))]
  BY DEF Deliver, Sound, Genuine, page
<1>2. /\ e = w[1] /\ 1 \in 1 .. Len(w) /\ e \in EventsOf(Real) /\ Len(w) \in Nat
      /\ \A n \in 1 .. Len(Tail(w)) : n + 1 \in 1 .. Len(w) /\ Tail(w)[n] = w[n + 1]
  BY <1>1, TailAt
<1>3. r \in Real /\ (e = NewOf(r) \/ e = GoneOf(r))
  BY <1>2, EventIs
<1>4. e = NewOf(r) => Carries(w, r)
  BY <1>2 DEF Carries, In
<1> HIDE DEF w, e, r
<1>5. ASSUME NEW c \in Clients, NEW x, NEW y, Before(c, x, y)'
      PROVE  Before(c, x, y) \/ (HostOf[c] = j /\ Carries(w, y))
  <2>1. inbox[c] \in Seq(EventsOf(Real))
    BY DEF Sound, Genuine
  <2>2. CASE HostOf[c] = j /\ c \in viewing
    <3>1. inbox'[c] = Append(inbox[c], e)
      BY <1>1, <2>2 DEF Push
    <3>2. CASE e = NewOf(r)
      <4>1. BeforeIn(list[c], Append(inbox[c], NewOf(r)), x, y) => Before(c, x, y) \/ y = r
        BY <1>3, <2>1, GetNew DEF Before
      <4>2. QED
        BY <1>1, <1>4, <1>5, <2>2, <3>1, <3>2, <4>1 DEF Before
    <3>3. CASE e = GoneOf(r)
      BY <1>1, <1>3, <1>5, <2>1, <3>1, <3>3, GetGone DEF Before
    <3>4. QED
      BY <1>3, <3>2, <3>3
  <2>3. CASE ~(HostOf[c] = j /\ c \in viewing)
    BY <1>1, <1>5, <2>3 DEF Push, Before
  <2>4. QED
    BY <2>2, <2>3
<1>6. ASSUME NEW ij \in Instances \X Instances, NEW x, Carries(wire'[ij], x)
      PROVE  Carries(wire[ij], x)
  <2>1. CASE ij = <<i, j>>
    <3>1. wire'[ij] = Tail(w)
      BY <1>1, <2>1
    <3>2. PICK n \in 1 .. Len(Tail(w)) : Tail(w)[n] = NewOf(x)
      BY <1>6, <3>1 DEF Carries, In
    <3>3. n + 1 \in 1 .. Len(w) /\ w[n + 1] = NewOf(x)
      BY <1>2, <3>2
    <3>4. QED
      BY <2>1, <3>3 DEF Carries, In, w
  <2>2. CASE ij # <<i, j>>
    BY <1>1, <1>6, <2>2
  <2>3. QED
    BY <2>1, <2>2
<1>7. QED
  BY <1>5, <1>6 DEF w

LEMMA FollowedNext ==
  ASSUME Sound, Ready, Steady, Followed, [Next]_vars
  PROVE  Followed'
<1>1. /\ Shaped /\ \A r \in Rows : Aired(r) => Aired(r)'
      /\ \A m \in Sends : job'[m] = "unsent" => job[m] = "unsent" /\ made'[m] = made[m]
  BY AiredGrows, StillUnsent DEF Sound
<1>2. ASSUME seen' = seen,
             \A c \in Clients : \A r, s \in Rows : Before(c, r, s)' => Before(c, r, s),
             \A ij \in Instances \X Instances : \A r \in Rows :
               Carries(wire'[ij], r) => Carries(wire[ij], r)
      PROVE  Followed'
  BY <1>1, <1>2, FollowedKeeps
<1>3. ASSUME UNCHANGED <<seen, list, inbox, wire>> PROVE Followed'
  BY <1>2, <1>3 DEF Before
<1>4. ASSUME NEW m \in Sends, NEW later \in BOOLEAN, Send(m, later) PROVE Followed'
  BY <1>4, FollowedSend
<1>5. ASSUME NEW m \in Sends, Create(m) \/ Mark(m) \/ Finish(m) PROVE Followed'
  BY <1>3, <1>5 DEF Create, Mark, Finish, net, page, extra
<1>6. ASSUME NEW m \in Sends, MarkSender(m) PROVE Followed'
  <2>1. made[m] > 0 /\ At(m, "sender")
    BY <1>6 DEF MarkSender, Sound, StoredInv, Working
  <2>2. PICK r \in Real : r = [msg |-> m, copy |-> made[m]]
    BY <2>1, RowOfWork DEF Sound
  <2>3. Emit(work[m].host, NewOf(r)) /\ list' = list /\ seen' = seen
    BY <1>6, <2>2 DEF MarkSender, NewOf, page, extra
  <2>4. work[m].host \in Instances
    BY <2>1 DEF At, Sound, Shaped, Works
  <2>5. ~Aired(r)
    <3>1. r.msg = m /\ r.copy = made[m] /\ made[m] \in Nat
      BY <2>2 DEF Sound, StoredInv, QueueOK
    <3>2. QED
      BY <2>1, <3>1 DEF Aired
  <2>6. /\ \A c \in Clients : \A x, y : Before(c, x, y)' => Before(c, x, y) \/ y = r
        /\ \A ij \in Instances \X Instances : \A n \in 1 .. Len(wire'[ij]), x \in Rows :
             wire'[ij][n] = NewOf(x) =>
               (n \in 1 .. Len(wire[ij]) /\ wire[ij][n] = NewOf(x)) \/ x = r
    BY <2>3, <2>4, EmitNewAdds
  <2>7. \A ij \in Instances \X Instances : \A x \in Rows :
          Carries(wire'[ij], x) => Carries(wire[ij], x) \/ ~Aired(x)
    BY <2>5, <2>6 DEF Carries, In
  <2>8. \A c \in Clients : \A y, x \in Rows :
          Before(c, x, y)' => Before(c, x, y) \/ ~Passed(HostOf[c], y)
    BY <2>5, <2>6 DEF Passed
  <2>9. QED
    BY <1>1, <2>3, <2>7, <2>8, FollowedKeeps
<1>7. ASSUME NEW m \in Sends, Fail(m) \/ BullMQ(m) PROVE Followed'
  BY <1>3, <1>7 DEF Fail, BullMQ, Retry, Stalled, net, page, extra
<1>8. ASSUME NEW i \in Instances, Start(i) PROVE Followed'
  BY <1>3, <1>8 DEF Start, net, page, extra
<1>9. ASSUME NEW i \in Instances, Crash(i) PROVE Followed'
  <2>1. \A c \in Clients : inbox'[c] = inbox[c] \/ inbox'[c] = <<>>
    BY <1>9 DEF Crash
  <2>2. \A ij \in Instances \X Instances : wire'[ij] = wire[ij] \/ wire'[ij] = <<>>
    BY <1>9 DEF Crash
  <2>3. list' = list /\ seen' = seen /\ \A x : ~Carries(<<>>, x)
    BY <1>9 DEF Crash, page, Carries, In
  <2>4. \A c \in Clients : \A x, y : Before(c, x, y)' => Before(c, x, y)
    BY <2>1, <2>3, Lose DEF Before
  <2>5. \A ij \in Instances \X Instances : \A x \in Rows :
          Carries(wire'[ij], x) => Carries(wire[ij], x)
    BY <2>2, <2>3
  <2>6. QED
    BY <1>2, <2>3, <2>4, <2>5
<1>10. ASSUME NEW i \in Instances, NEW j \in Instances, Deliver(i, j) PROVE Followed'
  <2>1. /\ \A c \in Clients : \A x, y : Before(c, x, y)' =>
             Before(c, x, y) \/ (HostOf[c] = j /\ Carries(wire[<<i, j>>], y))
        /\ \A ij \in Instances \X Instances : \A x :
             Carries(wire'[ij], x) => Carries(wire[ij], x)
    BY <1>10, DeliverAdds
  <2>2. \A c \in Clients : \A y, x \in Rows :
          Before(c, x, y)' => Before(c, x, y) \/ ~Passed(HostOf[c], y)
    BY <2>1 DEF Passed
  <2>3. seen' = seen
    BY <1>10 DEF Deliver, extra
  <2>4. QED
    BY <1>1, <2>1, <2>2, <2>3, FollowedKeeps
<1>11. ASSUME NEW i \in Instances, NEW row \in Rows, RequestDelete(i, row) PROVE Followed'
  BY <1>3, <1>11 DEF RequestDelete, net, page
<1>12. ASSUME NEW d \in erasing, DeleteRow(d) PROVE Followed'
  BY <1>3, <1>12 DEF DeleteRow, net, page, extra
<1>13. ASSUME NEW d \in erasing, EmitDeleted(d) PROVE Followed'
  <2>1. d.row \in Real /\ d.host \in Instances
    BY DEF Sound, Genuine
  <2>2. Emit(d.host, GoneOf(d.row)) /\ list' = list /\ seen' = seen
    BY <1>13 DEF EmitDeleted, GoneOf, page, extra
  <2>3. /\ \A c \in Clients : \A x, y : Before(c, x, y)' => Before(c, x, y)
        /\ \A ij \in Instances \X Instances : \A n \in 1 .. Len(wire'[ij]), x \in Rows :
             wire'[ij][n] = NewOf(x) => n \in 1 .. Len(wire[ij]) /\ wire[ij][n] = NewOf(x)
    BY <2>1, <2>2, EmitGoneAdds
  <2>4. \A ij \in Instances \X Instances : \A x \in Rows :
          Carries(wire'[ij], x) => Carries(wire[ij], x)
    BY <2>3 DEF Carries, In
  <2>5. QED
    BY <1>2, <2>2, <2>3, <2>4
<1>14. ASSUME NEW d \in erasing, DeleteAnswered(d) PROVE Followed'
  <2>1. seen' = seen /\ wire' = wire
    BY <1>14 DEF DeleteAnswered, net, extra
  <2>2. QED
    BY <1>2, <1>14, <2>1, AnsweredKeeps
<1>15. ASSUME NEW c \in Clients, Open(c) \/ Join(c) \/ FindMessages(c) PROVE Followed'
  BY <1>3, <1>15 DEF Open, Join, FindMessages, net, page, extra
<1>16. ASSUME NEW c \in Clients, ShowMessages(c) PROVE Followed'
  <2>1. \A m \in Sends : made[m] = 0
    BY <1>16 DEF ShowMessages, Ready
  <2>2. Real = {}
    BY <2>1 DEF Real, Rows
  <2>3. answer[c] = <<>>
    <3>1. answer[c] \in Seq({})
      BY <2>2 DEF Sound, Genuine
    <3>2. QED
      BY <3>1
  <2>4. /\ inbox' = inbox /\ wire' = wire /\ list' = [list EXCEPT ![c] = <<>>]
        /\ seen' = seen
    BY <1>16, <2>3 DEF ShowMessages, net, extra
  <2>5. \A u \in Clients : list'[u] = list[u] \/ list'[u] = <<>>
    BY <2>4 DEF Sound, Genuine
  <2>6. \A u \in Clients : \A x, y : Before(u, x, y)' => Before(u, x, y)
    BY <2>4, <2>5, NothingYet DEF Before
  <2>7. QED
    BY <1>2, <2>4, <2>6
<1>17. ASSUME NEW c \in Clients, Receive(c) PROVE Followed'
  <2>1. \A u \in Clients : u # c => list'[u] = list[u] /\ inbox'[u] = inbox[u]
    BY <1>17 DEF Receive, Sound, Genuine
  <2>2. wire' = wire /\ seen' = seen
    BY <1>17 DEF Receive, extra
  <2>3. \A u \in Clients : u # c => \A r, s : Before(u, r, s)' = Before(u, r, s)
    BY <2>1 DEF Before
  <2>4. QED
    BY <1>2, <1>17, <2>2, <2>3, ReceiveKeeps
<1>18. ASSUME UNCHANGED vars PROVE Followed'
  BY <1>3, <1>18 DEF vars, net, page, extra
<1>19. QED
  BY <1>4, <1>5, <1>6, <1>7, <1>8, <1>9, <1>10, <1>11, <1>12, <1>13, <1>14, <1>15, <1>16,
     <1>17, <1>18 DEF Next, Process, Erase, Screen

(* Clients that had the room on screen before the first message, of the     *)
(* instance of the one that answers, on any number of instances: whichever  *)
(* of them process and broadcast the two messages, through retries, stalls  *)
(* and crashes, an answer is never shown before what its sender had seen.   *)
THEOREM AnswersNotFirst ==
  ASSUME Early
  PROVE  Spec => []AnswersFollow
<1>1. Init => Followed
  <2> SUFFICES ASSUME Init PROVE Followed
    OBVIOUS
  <2>1. \A m \in Sends : made[m] = 0 /\ seen[m] = {}
    BY DEF Init
  <2>2. QED
    BY <2>1 DEF Followed
<1>2. Sound /\ Ready /\ Steady /\ Followed /\ [Next]_vars => Followed'
  BY FollowedNext
<1>3. Sound /\ Steady /\ Followed => AnswersFollow
  <2> SUFFICES ASSUME Sound, Steady, Followed, NEW m \in Sends, NEW c \in Clients,
                      HostOf[c] = HostOf[AuthorOf[m]],
                      NEW n \in DOMAIN list[c], NEW k \in DOMAIN list[c],
                      list[c][n].msg = m, list[c][k] \in seen[m], ~(k < n)
               PROVE  FALSE
    BY DEF AnswersFollow
  <2>1. list[c] \in Seq(Real)
    BY DEF Sound, Genuine
  <2>2. n \in 1 .. Len(list[c]) /\ k \in 1 .. Len(list[c]) /\ Len(list[c]) \in Nat
    BY <2>1, LenProperties
  <2>3. list[c][n] \in Rows
    BY <2>1, <2>2, ElementOfSeq DEF Real
  <2>4. ~Before(c, list[c][n], list[c][k])
    BY <2>3 DEF Followed
  <2>5. n = k
    BY <2>2, <2>4 DEF Before, BeforeIn
  <2>6. list[c][k].msg # m
    BY DEF Followed
  <2>7. QED
    BY <2>5, <2>6
<1>4. QED
  BY <1>1, <1>2, <1>3, SteadyAlways, PTL DEF Spec

-----------------------------------------------------------------------------
(* Deleted rows stay deleted, and are not broadcast any more.               *)

RowOf(m) == [msg |-> m, copy |-> made[m]]

Dead ==
  /\ \A r \in Real : ~Aired(r) => r \in alive
  /\ \A d \in erasing : Aired(d.row) /\ (d.step # "delete" => d.row \notin alive)
  /\ \A r \in Real :
       /\ \A c \in Clients : In(inbox[c], GoneOf(r)) => r \notin alive
       /\ \A ij \in Instances \X Instances : In(wire[ij], GoneOf(r)) => r \notin alive

LEMMA InAppend ==
  ASSUME NEW T, NEW q \in Seq(T), NEW e \in T
  PROVE  \A x : In(Append(q, e), x) <=> In(q, x) \/ x = e
<1> DEFINE a == Append(q, e)
<1>1. /\ Len(q) + 1 \in 1 .. Len(a) /\ a[Len(q) + 1] = e
      /\ \A n \in 1 .. Len(q) : n \in 1 .. Len(a) /\ a[n] = q[n]
      /\ \A n \in 1 .. Len(a) : (n \in 1 .. Len(q) /\ a[n] = q[n]) \/ n = Len(q) + 1
  BY AppendAt
<1> HIDE DEF a
<1>2. QED
  BY <1>1 DEF In, a

LEMMA InTail ==
  ASSUME NEW T, NEW q \in Seq(T), q # <<>>
  PROVE  \A x : In(q, x) <=> In(Tail(q), x) \/ x = Head(q)
<1> DEFINE a == Tail(q)
<1>1. /\ Head(q) = q[1] /\ 1 \in 1 .. Len(q) /\ Len(q) \in Nat
      /\ \A n \in 1 .. Len(a) : n + 1 \in 1 .. Len(q) /\ a[n] = q[n + 1]
      /\ \A n \in 1 .. Len(q) : n # 1 => n - 1 \in 1 .. Len(a) /\ a[n - 1] = q[n]
  BY TailAt
<1> HIDE DEF a
<1>2. QED
  BY <1>1 DEF In, a

LEMMA HasReal ==
  ASSUME Genuine, NEW c \in Clients, NEW r, Has(c, r)
  PROVE  r \in Real
<1>1. list[c] \in Seq(Real) /\ inbox[c] \in Seq(EventsOf(Real))
  BY DEF Genuine
<1>2. CASE In(list[c], r)
  BY <1>1, <1>2, ElementOfSeq DEF In
<1>3. CASE Carries(inbox[c], r)
  <2>1. NewOf(r) \in EventsOf(Real)
    BY <1>1, <1>3, ElementOfSeq DEF Carries, In
  <2>2. QED
    BY <2>1 DEF NewOf, EventsOf
<1>4. QED
  BY <1>2, <1>3 DEF Has, HasIn

(* A deleted row does not come back.                                        *)
LEMMA DeadStays ==
  ASSUME Sound, [Next]_vars, NEW r \in Real, r \notin alive
  PROVE  r \notin alive'
<1>1. ASSUME NEW m \in Sends, Create(m) PROVE r \notin alive'
  <2>1. r.copy <= made[r.msg] /\ made[m] \in Nat
    BY DEF Real, Sound, StoredInv, QueueOK
  <2>2. [msg |-> m, copy |-> made[m] + 1] # r
    BY <2>1
  <2>3. QED
    BY <1>1, <2>2 DEF Create
<1>2. ASSUME NEW m \in Sends, NEW later \in BOOLEAN, Send(m, later) PROVE alive' = alive
  BY <1>2 DEF Send, table
<1>3. ASSUME NEW m \in Sends,
             Mark(m) \/ MarkSender(m) \/ Finish(m) \/ Fail(m) \/ BullMQ(m)
      PROVE  alive' = alive
  BY <1>3 DEF Mark, MarkSender, Finish, Fail, BullMQ, Retry, Stalled, table
<1>4. ASSUME NEW i \in Instances, Start(i) \/ Crash(i) PROVE alive' = alive
  BY <1>4 DEF Start, Crash, table
<1>5. ASSUME NEW i \in Instances, NEW j \in Instances, Deliver(i, j) PROVE alive' = alive
  BY <1>5 DEF Deliver, table
<1>6. ASSUME NEW i \in Instances, NEW row \in Rows, RequestDelete(i, row)
      PROVE  alive' = alive
  BY <1>6 DEF RequestDelete, table
<1>7. ASSUME NEW d \in erasing, Erase(d) PROVE r \notin alive'
  BY <1>7 DEF Erase, DeleteRow, EmitDeleted, DeleteAnswered, table
<1>8. ASSUME NEW c \in Clients, Open(c) \/ Screen(c) \/ Receive(c) PROVE alive' = alive
  BY <1>8 DEF Open, Screen, Join, FindMessages, ShowMessages, Receive, table
<1>9. ASSUME UNCHANGED vars PROVE alive' = alive
  BY <1>9 DEF vars, table
<1>10. QED
  BY <1>1, <1>2, <1>3, <1>4, <1>5, <1>6, <1>7, <1>8, <1>9 DEF Next, Process

(* Where the news of a deletion comes from.                                 *)
LEMMA GoneFrom ==
  ASSUME Sound, [Next]_vars, NEW r \in Real,
         \/ \E c \in Clients : In(inbox'[c], GoneOf(r))
         \/ \E ij \in Instances \X Instances : In(wire'[ij], GoneOf(r))
  PROVE  \/ \E c \in Clients : In(inbox[c], GoneOf(r))
         \/ \E ij \in Instances \X Instances : In(wire[ij], GoneOf(r))
         \/ \E d \in erasing : d.row = r /\ EmitDeleted(d)
<1>1. /\ \A c \in Clients : inbox[c] \in Seq(EventsOf(Real))
      /\ \A ij \in Instances \X Instances : wire[ij] \in Seq(EventsOf(Real))
  BY DEF Sound, Genuine
<1>2. ~In(<<>>, GoneOf(r))
  BY DEF In
<1>3. ASSUME NEW i, NEW e \in EventsOf(Real), Emit(i, e)
      PROVE  \/ \E c \in Clients : In(inbox[c], GoneOf(r))
             \/ \E ij \in Instances \X Instances : In(wire[ij], GoneOf(r))
             \/ e = GoneOf(r)
  <2>1. ASSUME NEW c \in Clients, In(inbox'[c], GoneOf(r))
        PROVE  In(inbox[c], GoneOf(r)) \/ e = GoneOf(r)
    <3>1. inbox'[c] = inbox[c] \/ inbox'[c] = Append(inbox[c], e)
      BY <1>3 DEF Emit, Push
    <3>2. \A x : In(Append(inbox[c], e), x) <=> In(inbox[c], x) \/ x = e
      BY <1>1, InAppend
    <3>3. QED
      BY <2>1, <3>1, <3>2
  <2>2. ASSUME NEW ij \in Instances \X Instances, In(wire'[ij], GoneOf(r))
        PROVE  In(wire[ij], GoneOf(r)) \/ e = GoneOf(r)
    <3>1. wire'[ij] = wire[ij] \/ wire'[ij] = Append(wire[ij], e)
      BY <1>3 DEF Emit
    <3>2. \A x : In(Append(wire[ij], e), x) <=> In(wire[ij], x) \/ x = e
      BY <1>1, InAppend
    <3>3. QED
      BY <2>2, <3>1, <3>2
  <2>3. QED
    BY <2>1, <2>2
<1>4. ASSUME NEW m \in Sends, MarkSender(m)
      PROVE  \/ \E c \in Clients : In(inbox[c], GoneOf(r))
             \/ \E ij \in Instances \X Instances : In(wire[ij], GoneOf(r))
  <2>1. made[m] > 0
    BY <1>4 DEF MarkSender, Sound, StoredInv, Working
  <2>2. RowOf(m) \in Real
    BY <2>1, RowOfWork DEF RowOf, Sound
  <2>3. NewOf(RowOf(m)) \in EventsOf(Real)
    BY <2>2, EventType DEF NewOf
  <2>4. Emit(work[m].host, NewOf(RowOf(m)))
    BY <1>4 DEF MarkSender, NewOf, RowOf
  <2>5. QED
    BY <1>3, <2>3, <2>4, NewNotGone
<1>5. ASSUME NEW d \in erasing, EmitDeleted(d)
      PROVE  \/ \E c \in Clients : In(inbox[c], GoneOf(r))
             \/ \E ij \in Instances \X Instances : In(wire[ij], GoneOf(r))
             \/ d.row = r
  <2>1. GoneOf(d.row) \in EventsOf(Real)
    BY EventType DEF GoneOf, Sound, Genuine
  <2>2. Emit(d.host, GoneOf(d.row))
    BY <1>5 DEF EmitDeleted, GoneOf
  <2>3. QED
    BY <1>3, <2>1, <2>2, NewNotGone
<1>6. ASSUME NEW i \in Instances, NEW j \in Instances, Deliver(i, j)
      PROVE  \/ \E c \in Clients : In(inbox[c], GoneOf(r))
             \/ \E ij \in Instances \X Instances : In(wire[ij], GoneOf(r))
  <2> DEFINE w == wire[<<i, j>>]
  <2>1. /\ w \in Seq(EventsOf(Real)) /\ w # <<>> /\ Push(j, Head(w))
        /\ wire' = [wire EXCEPT ![<<i, j>>] = Tail(w)] /\ <<i, j>> \in Instances \X Instances
    BY <1>1, <1>6 DEF Deliver
  <2>2. Head(w) \in EventsOf(Real) /\ \A x : In(w, x) <=> In(Tail(w), x) \/ x = Head(w)
    BY <2>1, TailAt, InTail
  <2>3. ASSUME NEW c \in Clients, In(inbox'[c], GoneOf(r))
        PROVE  In(inbox[c], GoneOf(r)) \/ In(w, GoneOf(r))
    <3>1. inbox'[c] = inbox[c] \/ inbox'[c] = Append(inbox[c], Head(w))
      BY <2>1 DEF Push
    <3>2. \A x : In(Append(inbox[c], Head(w)), x) <=> In(inbox[c], x) \/ x = Head(w)
      BY <1>1, <2>2, InAppend
    <3>3. QED
      BY <2>2, <2>3, <3>1, <3>2
  <2>4. ASSUME NEW ij \in Instances \X Instances, In(wire'[ij], GoneOf(r))
        PROVE  In(wire[ij], GoneOf(r))
    <3>1. CASE ij = <<i, j>>
      BY <2>1, <2>2, <2>4, <3>1 DEF Sound, Genuine
    <3>2. CASE ij # <<i, j>>
      BY <2>1, <2>4, <3>2 DEF Sound, Genuine
    <3>3. QED
      BY <3>1, <3>2
  <2>5. QED
    BY <2>1, <2>3, <2>4
<1>7. ASSUME NEW c \in Clients, Receive(c)
      PROVE  \/ \E u \in Clients : In(inbox[u], GoneOf(r))
             \/ \E ij \in Instances \X Instances : In(wire[ij], GoneOf(r))
  <2>1. /\ inbox[c] # <<>> /\ wire' = wire
        /\ \A u \in Clients : inbox'[u] = inbox[u] \/ (u = c /\ inbox'[u] = Tail(inbox[c]))
    BY <1>7 DEF Receive, Sound, Genuine
  <2>2. \A x : In(Tail(inbox[c]), x) => In(inbox[c], x)
    BY <1>1, <2>1, InTail
  <2>3. QED
    BY <2>1, <2>2
<1>8. ASSUME NEW i \in Instances, Crash(i)
      PROVE  \/ \E c \in Clients : In(inbox[c], GoneOf(r))
             \/ \E ij \in Instances \X Instances : In(wire[ij], GoneOf(r))
  <2>1. /\ \A c \in Clients : inbox'[c] = inbox[c] \/ inbox'[c] = <<>>
        /\ \A ij \in Instances \X Instances : wire'[ij] = wire[ij] \/ wire'[ij] = <<>>
    BY <1>8 DEF Crash
  <2>2. QED
    BY <1>2, <2>1
<1>9. ASSUME UNCHANGED <<inbox, wire>>
      PROVE  \/ \E c \in Clients : In(inbox[c], GoneOf(r))
             \/ \E ij \in Instances \X Instances : In(wire[ij], GoneOf(r))
  BY <1>9
<1>10. ASSUME NEW m \in Sends, NEW later \in BOOLEAN, Send(m, later)
       PROVE  UNCHANGED <<inbox, wire>>
  BY <1>10 DEF Send, net
<1>11. ASSUME NEW m \in Sends, Create(m) \/ Mark(m) \/ Finish(m) \/ Fail(m) \/ BullMQ(m)
       PROVE  UNCHANGED <<inbox, wire>>
  BY <1>11 DEF Create, Mark, Finish, Fail, BullMQ, Retry, Stalled, net
<1>12. ASSUME NEW i \in Instances, Start(i) PROVE UNCHANGED <<inbox, wire>>
  BY <1>12 DEF Start, net
<1>13. ASSUME NEW i \in Instances, NEW row \in Rows, RequestDelete(i, row)
       PROVE  UNCHANGED <<inbox, wire>>
  BY <1>13 DEF RequestDelete, net
<1>14. ASSUME NEW d \in erasing, DeleteRow(d) \/ DeleteAnswered(d)
       PROVE  UNCHANGED <<inbox, wire>>
  BY <1>14 DEF DeleteRow, DeleteAnswered, net
<1>15. ASSUME NEW c \in Clients, Open(c) \/ Screen(c) PROVE UNCHANGED <<inbox, wire>>
  BY <1>15 DEF Open, Screen, Join, FindMessages, ShowMessages, net
<1>16. ASSUME UNCHANGED vars PROVE UNCHANGED <<inbox, wire>>
  BY <1>16 DEF vars, net
<1>17. QED
  BY <1>4, <1>5, <1>6, <1>7, <1>8, <1>9, <1>10, <1>11, <1>12, <1>13, <1>14, <1>15, <1>16
  DEF Next, Process, Erase

LEMMA DeadNext ==
  ASSUME Sound, Steady, Dead, [Next]_vars
  PROVE  Dead'
<1>1. ASSUME NEW r \in Real', ~Aired(r)' PROVE r \in alive'
  <2>1. r \in Rows
    BY DEF Real
  <2>2. CASE r \in Real
    <3>1. ~Aired(r) /\ r \in alive
      BY <1>1, <2>1, <2>2, AiredGrows DEF Dead
    <3>2. ASSUME NEW d \in erasing, DeleteRow(d) PROVE r \in alive'
      BY <3>1, <3>2 DEF DeleteRow, Dead
    <3>3. ASSUME NEW m \in Sends, Process(m) \/ Fail(m) \/ BullMQ(m) PROVE r \in alive'
      BY <3>1, <3>3 DEF Process, Create, Mark, MarkSender, Finish, Fail, BullMQ, Retry,
         Stalled, table
    <3>4. ASSUME NEW m \in Sends, NEW later \in BOOLEAN, Send(m, later) PROVE r \in alive'
      BY <3>1, <3>4 DEF Send, table
    <3>5. ASSUME NEW i \in Instances, Start(i) \/ Crash(i) PROVE r \in alive'
      BY <3>1, <3>5 DEF Start, Crash, table
    <3>6. ASSUME NEW i \in Instances, NEW j \in Instances, Deliver(i, j) PROVE r \in alive'
      BY <3>1, <3>6 DEF Deliver, table
    <3>7. ASSUME NEW i \in Instances, NEW row \in Rows, RequestDelete(i, row)
          PROVE  r \in alive'
      BY <3>1, <3>7 DEF RequestDelete, table
    <3>8. ASSUME NEW d \in erasing, EmitDeleted(d) \/ DeleteAnswered(d) PROVE r \in alive'
      BY <3>1, <3>8 DEF EmitDeleted, DeleteAnswered, table
    <3>9. ASSUME NEW c \in Clients, Open(c) \/ Screen(c) \/ Receive(c) PROVE r \in alive'
      BY <3>1, <3>9 DEF Open, Screen, Join, FindMessages, ShowMessages, Receive, table
    <3>10. ASSUME UNCHANGED vars PROVE r \in alive'
      BY <3>1, <3>10 DEF vars, table
    <3>11. QED
      BY <3>2, <3>3, <3>4, <3>5, <3>6, <3>7, <3>8, <3>9, <3>10 DEF Next, Erase
  <2>3. CASE r \notin Real
    <3>1. made'[r.msg] # made[r.msg]
      BY <2>1, <2>3 DEF Real
    <3>2. PICK m \in Sends : Create(m)
      BY <3>1 DEF Next, Process, Send, Mark, MarkSender, Finish, Fail, BullMQ, Retry, Stalled,
         Start, Crash, Deliver, RequestDelete, Erase, DeleteRow, EmitDeleted, DeleteAnswered,
         Open, Screen, Join, FindMessages, ShowMessages, Receive, table, vars
    <3>3. m = r.msg /\ made'[m] = made[m] + 1 /\ made[m] \in Nat
      BY <3>1, <3>2 DEF Create, Sound, StoredInv, QueueOK
    <3>4. r.copy = made[m] + 1
      BY <2>1, <2>3, <3>3 DEF Real, Rows
    <3>5. r = [msg |-> m, copy |-> made[m] + 1]
      BY <2>1, <3>3, <3>4 DEF Rows
    <3>6. QED
      BY <3>2, <3>5 DEF Create
  <2>4. QED
    BY <2>2, <2>3
<1>2. ASSUME NEW d \in erasing'
      PROVE  Aired(d.row)' /\ (d.step # "delete" => d.row \notin alive')
  <2>1. ASSUME NEW f \in erasing, d.row = f.row,
               d.step # "delete" => f.step # "delete" \/ d.row \notin alive'
        PROVE  Aired(d.row)' /\ (d.step # "delete" => d.row \notin alive')
    <3>1. f.row \in Real /\ f.row \in Rows
      BY DEF Sound, Genuine, Real
    <3>2. Aired(f.row)'
      BY <3>1, AiredGrows DEF Dead
    <3>3. Aired(d.row)'
      BY <2>1, <3>2 DEF Aired
    <3>4. f.step # "delete" => f.row \notin alive'
      BY <3>1, DeadStays DEF Dead
    <3>5. QED
      BY <2>1, <3>3, <3>4
  <2>2. CASE d \in erasing
    BY <2>1, <2>2
  <2>3. CASE d \notin erasing
    <3>1. ASSUME NEW i \in Instances, NEW row \in Rows, RequestDelete(i, row)
          PROVE  Aired(d.row)' /\ d.step = "delete"
      <4>1. d = [row |-> row, host |-> i, step |-> "delete"]
        BY <2>3, <3>1 DEF RequestDelete
      <4>2. AuthorOf[row.msg] \in Clients
        BY DeliveryAssumption DEF Rows
      <4>3. row \in Shown(AuthorOf[row.msg]) /\ list[AuthorOf[row.msg]] \in Seq(Real)
        BY <3>1, <4>2 DEF RequestDelete, Shown, Sound, Genuine
      <4>4. Has(AuthorOf[row.msg], row)
        BY <4>3, LenProperties DEF Has, HasIn, In, Shown
      <4>5. Aired(row)
        BY <4>2, <4>4 DEF Steady, OnAir
      <4>6. Aired(row)'
        BY <4>5, AiredGrows
      <4>7. QED
        BY <4>1, <4>6 DEF Aired
    <3>2. ASSUME NEW f \in erasing, Erase(f)
          PROVE  Aired(d.row)' /\ (d.step # "delete" => d.row \notin alive')
      <4>1. f.row \in Real /\ f \in [row : Real, host : Instances,
                                     step : {"delete", "emit", "answer"}]
        BY DEF Sound, Genuine
      <4>2. CASE DeleteRow(f)
        <5>1. d = [f EXCEPT !.step = "emit"] /\ alive' = alive \ {f.row}
          BY <2>3, <4>2 DEF DeleteRow
        <5>2. QED
          BY <2>1, <4>1, <5>1
      <4>3. CASE EmitDeleted(f)
        <5>1. d = [f EXCEPT !.step = "answer"] /\ f.step = "emit"
          BY <2>3, <4>3 DEF EmitDeleted
        <5>2. QED
          BY <2>1, <4>1, <5>1
      <4>4. CASE DeleteAnswered(f)
        BY <2>3, <4>4 DEF DeleteAnswered
      <4>5. QED
        BY <3>2, <4>2, <4>3, <4>4 DEF Erase
    <3>3. CASE UNCHANGED erasing \/ \E i \in Instances : Crash(i)
      BY <2>3, <3>3 DEF Crash
    <3>4. (\E i \in Instances, row \in Rows : RequestDelete(i, row))
          \/ (\E f \in erasing : Erase(f))
          \/ UNCHANGED erasing \/ \E i \in Instances : Crash(i)
      BY DEF Next, Process, Create, Send, Mark, MarkSender, Finish, Fail, BullMQ, Retry,
         Stalled, Start, Deliver, Open, Screen, Join, FindMessages, ShowMessages, Receive, vars
    <3>5. QED
      BY <3>1, <3>2, <3>3, <3>4
  <2>4. QED
    BY <2>2, <2>3
<1>3. ASSUME NEW r \in Real',
             \/ \E c \in Clients : In(inbox'[c], GoneOf(r))
             \/ \E ij \in Instances \X Instances : In(wire'[ij], GoneOf(r))
      PROVE  r \notin alive'
  <2>1. CASE r \in Real
    <3>1. r \notin alive
      <4>1. \/ \E c \in Clients : In(inbox[c], GoneOf(r))
            \/ \E ij \in Instances \X Instances : In(wire[ij], GoneOf(r))
            \/ \E d \in erasing : d.row = r /\ EmitDeleted(d)
        BY <1>3, <2>1, GoneFrom
      <4>2. QED
        BY <2>1, <4>1 DEF Dead, EmitDeleted
    <3>2. QED
      BY <2>1, <3>1, DeadStays
  <2>2. CASE r \notin Real
    <3>1. made'[r.msg] # made[r.msg]
      BY <2>2 DEF Real
    <3>2. PICK m \in Sends : Create(m)
      BY <3>1 DEF Next, Process, Send, Mark, MarkSender, Finish, Fail, BullMQ, Retry, Stalled,
         Start, Crash, Deliver, RequestDelete, Erase, DeleteRow, EmitDeleted, DeleteAnswered,
         Open, Screen, Join, FindMessages, ShowMessages, Receive, table, vars
    <3>3. UNCHANGED <<inbox, wire>>
      BY <3>2 DEF Create, net
    <3>4. ASSUME NEW q \in Seq(EventsOf(Real)), In(q, GoneOf(r)) PROVE r \in Real
      BY <3>4, ElementOfSeq DEF In, GoneOf, EventsOf
    <3>5. QED
      BY <1>3, <2>2, <3>3, <3>4 DEF Sound, Genuine
  <2>3. QED
    BY <2>1, <2>2
<1>4. QED
  BY <1>1, <1>2, <1>3 DEF Dead

-----------------------------------------------------------------------------
(* What process() has finished with reaches every client in the room.       *)

Ended(m) == job[m] = "completed" \/ At(m, "finish")
Reached(c, r) ==
  Has(c, r) \/ \E i \in Instances : Carries(wire[<<i, HostOf[c]>>], r)
Arrived ==
  \A c \in viewing, m \in Sends : Ended(m) /\ RowOf(m) \in alive => Reached(c, RowOf(m))

LEMMA ReachedEmit ==
  ASSUME Sound, NEW i \in Instances, NEW e \in EventsOf(Real), Emit(i, e), list' = list,
         NEW c \in Clients, NEW r
  PROVE  /\ Reached(c, r) => Reached(c, r)'
         /\ c \in viewing /\ e = NewOf(r) => Reached(c, r)'
<1>1. /\ inbox[c] \in Seq(EventsOf(Real)) /\ <<i, HostOf[c]>> \in Instances \X Instances
      /\ \A j \in Instances : <<j, HostOf[c]>> \in Instances \X Instances
      /\ \A ij \in Instances \X Instances : wire[ij] \in Seq(EventsOf(Real))
  BY DeliveryAssumption DEF Sound, Genuine
<1>2. \A x : In(Append(inbox[c], e), x) <=> In(inbox[c], x) \/ x = e
  BY <1>1, InAppend
<1>3. ASSUME NEW ij \in Instances \X Instances
      PROVE  \A x : In(Append(wire[ij], e), x) <=> In(wire[ij], x) \/ x = e
  BY <1>1, InAppend
<1>4. inbox'[c] = (IF HostOf[c] = i /\ c \in viewing THEN Append(inbox[c], e) ELSE inbox[c])
  BY DEF Emit, Push
<1>5. \A ij \in Instances \X Instances :
        wire'[ij] = IF ij[1] = i /\ ij[2] # i THEN Append(wire[ij], e) ELSE wire[ij]
  BY DEF Emit
<1>6. Has(c, r) => Has(c, r)'
  BY <1>2, <1>4 DEF Has, HasIn, Carries
<1>7. \A j \in Instances : Carries(wire[<<j, HostOf[c]>>], r)
                             => Carries(wire'[<<j, HostOf[c]>>], r)
  BY <1>1, <1>3, <1>5 DEF Carries
<1>8. ASSUME c \in viewing, e = NewOf(r) PROVE Reached(c, r)'
  <2>1. CASE HostOf[c] = i
    <3>1. In(inbox'[c], NewOf(r))
      BY <1>2, <1>4, <1>8, <2>1
    <3>2. QED
      BY <3>1 DEF Reached, Has, HasIn, Carries
  <2>2. CASE HostOf[c] # i
    <3>1. wire'[<<i, HostOf[c]>>] = Append(wire[<<i, HostOf[c]>>], e)
      BY <1>1, <1>5, <2>2
    <3>2. In(wire'[<<i, HostOf[c]>>], NewOf(r))
      BY <1>1, <1>3, <1>8, <3>1
    <3>3. QED
      BY <3>2 DEF Reached, Carries
  <2>3. QED
    BY <2>1, <2>2
<1>9. QED
  BY <1>6, <1>7, <1>8 DEF Reached

LEMMA ReachedDeliver ==
  ASSUME Sound, NEW i \in Instances, NEW j \in Instances, Deliver(i, j),
         NEW c \in viewing, NEW r, Reached(c, r)
  PROVE  Reached(c, r)'
<1> DEFINE w == wire[<<i, j>>]
<1>1. /\ w \in Seq(EventsOf(Real)) /\ w # <<>> /\ Push(j, Head(w)) /\ list' = list
      /\ wire' = [wire EXCEPT ![<<i, j>>] = Tail(w)] /\ c \in Clients
      /\ inbox[c] \in Seq(EventsOf(Real))
  BY DEF Deliver, Sound, Genuine, Shaped, page
<1>2. \A ij \in Instances \X Instances :
        wire'[ij] = IF ij = <<i, j>> THEN Tail(w) ELSE wire[ij]
  BY <1>1 DEF Sound, Genuine
<1>3. Head(w) \in EventsOf(Real) /\ \A x : In(w, x) <=> In(Tail(w), x) \/ x = Head(w)
  BY <1>1, TailAt, InTail
<1>4. inbox'[c] = (IF HostOf[c] = j THEN Append(inbox[c], Head(w)) ELSE inbox[c])
  BY <1>1 DEF Push
<1> HIDE DEF w
<1>5. \A x : In(Append(inbox[c], Head(w)), x) <=> In(inbox[c], x) \/ x = Head(w)
  BY <1>1, <1>3, InAppend
<1>6. Has(c, r) => Has(c, r)'
  BY <1>1, <1>4, <1>5 DEF Has, HasIn, Carries
<1>7. ASSUME NEW k \in Instances, Carries(wire[<<k, HostOf[c]>>], r)
      PROVE  Reached(c, r)'
  <2>1. <<k, HostOf[c]>> \in Instances \X Instances
    BY <1>1, DeliveryAssumption
  <2>2. CASE <<k, HostOf[c]>> = <<i, j>>
    <3>1. In(Tail(w), NewOf(r)) \/ NewOf(r) = Head(w)
      BY <1>3, <1>7, <2>2 DEF Carries, w
    <3>2. CASE In(Tail(w), NewOf(r))
      <4>1. Carries(wire'[<<k, HostOf[c]>>], r)
        BY <1>2, <2>1, <2>2, <3>2 DEF Carries
      <4>2. QED
        BY <4>1 DEF Reached
    <3>3. CASE NewOf(r) = Head(w)
      <4>1. HostOf[c] = j
        BY <2>2
      <4>2. In(inbox'[c], NewOf(r))
        BY <1>4, <1>5, <3>3, <4>1
      <4>3. QED
        BY <4>2 DEF Reached, Has, HasIn, Carries
    <3>4. QED
      BY <3>1, <3>2, <3>3
  <2>3. CASE <<k, HostOf[c]>> # <<i, j>>
    <3>1. Carries(wire'[<<k, HostOf[c]>>], r)
      BY <1>2, <1>7, <2>1, <2>3
    <3>2. QED
      BY <3>1 DEF Reached
  <2>4. QED
    BY <2>2, <2>3
<1>8. QED
  BY <1>6, <1>7 DEF Reached

(* A step that neither ends a message nor takes anything from a screen.     *)
LEMMA ArrivedFrame ==
  ASSUME Arrived,
         \A m \in Sends : Ended(m)' => Ended(m),
         \A m \in Sends : Ended(m)' /\ RowOf(m)' \in alive'
           => RowOf(m)' = RowOf(m) /\ RowOf(m) \in alive,
         \A c \in viewing', m \in Sends : RowOf(m) \in alive /\ RowOf(m) \in alive'
           => c \in viewing /\ (Reached(c, RowOf(m)) => \A r : r = RowOf(m) => Reached(c, r)')
  PROVE  Arrived'
<1> SUFFICES ASSUME NEW c \in viewing', NEW m \in Sends, Ended(m)', RowOf(m)' \in alive'
             PROVE  Reached(c, RowOf(m))'
  BY DEF Arrived
<1>1. RowOf(m)' = RowOf(m) /\ RowOf(m) \in alive /\ RowOf(m) \in alive' /\ Ended(m)
  OBVIOUS
<1>2. Reached(c, RowOf(m))
  BY <1>1 DEF Arrived
<1>3. \A r : r = RowOf(m) => Reached(c, r)'
  BY <1>1, <1>2
<1>4. QED
  BY <1>1, <1>3 DEF Reached, Has

LEMMA ArrivedNext ==
  ASSUME Sound, Ready, Dead, Arrived, [Next]_vars
  PROVE  Arrived'
<1>1. /\ work \in [Sends -> Works \union {NoWork}] /\ viewing \subseteq Clients
      /\ job \in [Sends -> JobStates] /\ made \in [Sends -> Nat]
  BY DEF Sound, Shaped, StoredInv, QueueOK
<1>2. ASSUME NEW m \in Sends, Ended(m) PROVE job[m] # "unsent"
  BY <1>2 DEF Ended, At, Sound, StoredInv, Working
<1>3. ASSUME UNCHANGED <<wire, inbox, list, viewing>>,
             \A m \in Sends : Ended(m)' => Ended(m),
             \A m \in Sends : Ended(m)' /\ RowOf(m)' \in alive'
               => RowOf(m)' = RowOf(m) /\ RowOf(m) \in alive
      PROVE  Arrived'
  BY <1>3, ArrivedFrame DEF Reached, Has
<1>4. ASSUME UNCHANGED <<wire, inbox, list, viewing, job, work, made>>, alive' \subseteq alive
      PROVE  Arrived'
  BY <1>3, <1>4 DEF Ended, At, RowOf
<1>5. ASSUME NEW m \in Sends, NEW later \in BOOLEAN, Send(m, later) PROVE Arrived'
  BY <1>1, <1>3, <1>5 DEF Send, net, page, room, table, Ended, At, RowOf
<1>6. ASSUME NEW m \in Sends, Create(m) PROVE Arrived'
  <2>1. At(m, "create") /\ job[m] # "completed"
    BY <1>6 DEF Create, At, Sound, StoredInv, Working
  <2>2. work'[m].step # "finish" /\ job' = job
    BY <1>1, <1>6 DEF Create, MarkAfter, queue
  <2>3. ~Ended(m)'
    BY <2>1, <2>2 DEF Ended, At
  <2>4. \A k \in Sends : k # m => work'[k] = work[k] /\ made'[k] = made[k]
    BY <1>1, <1>6 DEF Create
  <2>5. \A k \in Sends : Ended(k)' => Ended(k) /\ RowOf(k)' = RowOf(k) /\ k # m
    BY <2>2, <2>3, <2>4 DEF Ended, At, RowOf
  <2>6. \A k \in Sends : k # m /\ RowOf(k) \in alive' => RowOf(k) \in alive
    BY <1>6 DEF Create, RowOf
  <2>7. QED
    BY <1>3, <1>6, <2>5, <2>6 DEF Create, net, page, room
<1>7. ASSUME NEW m \in Sends, Mark(m) PROVE Arrived'
  <2>1. job[m] # "completed" /\ job' = job /\ made' = made /\ alive' = alive
    BY <1>7 DEF Mark, At, Sound, StoredInv, Working, queue
  <2>2. work'[m].step # "finish"
    BY <1>1, <1>7 DEF Mark, MarkAfter
  <2>3. \A k \in Sends : k # m => work'[k] = work[k]
    BY <1>1, <1>7 DEF Mark
  <2>4. \A k \in Sends : Ended(k)' => Ended(k)
    BY <2>1, <2>2, <2>3 DEF Ended, At
  <2>5. QED
    BY <1>3, <1>7, <2>1, <2>4 DEF Mark, net, page, room, RowOf
<1>8. ASSUME NEW m \in Sends, MarkSender(m) PROVE Arrived'
  <2>1. made[m] > 0 /\ At(m, "sender")
    BY <1>8 DEF MarkSender, Sound, StoredInv, Working
  <2>2. RowOf(m) \in Real /\ NewOf(RowOf(m)) \in EventsOf(Real)
    <3>1. RowOf(m) \in Real
      BY <2>1, RowOfWork DEF RowOf, Sound
    <3>2. QED
      BY <3>1, EventType DEF NewOf
  <2>3. work[m].host \in Instances
    BY <1>1, <2>1 DEF At, Works
  <2>4. /\ Emit(work[m].host, NewOf(RowOf(m)))
        /\ list' = list /\ viewing' = viewing /\ made' = made /\ alive' = alive /\ job' = job
        /\ \A k \in Sends : k # m => work'[k] = work[k]
    BY <1>1, <1>8 DEF MarkSender, NewOf, RowOf, page, room, queue
  <2>5. ASSUME NEW c \in viewing, NEW r
        PROVE  /\ Reached(c, r) => Reached(c, r)'
               /\ r = RowOf(m) => Reached(c, r)'
    BY <1>1, <2>2, <2>3, <2>4, <2>5, ReachedEmit
  <2>6. ASSUME NEW c \in viewing', NEW k \in Sends, Ended(k)', RowOf(k)' \in alive'
        PROVE  Reached(c, RowOf(k))'
    <3>1. RowOf(k)' = RowOf(k)
      BY <2>4 DEF RowOf
    <3>2. CASE k = m
      <4>1. \A r : r = RowOf(m) => Reached(c, r)'
        BY <2>4, <2>5
      <4>2. QED
        BY <3>1, <3>2, <4>1 DEF Reached, Has
    <3>3. CASE k # m
      <4>1. Ended(k) /\ RowOf(k) \in alive
        BY <2>4, <2>6, <3>1, <3>3 DEF Ended, At
      <4>2. Reached(c, RowOf(k))
        BY <2>4, <4>1 DEF Arrived
      <4>3. \A r : r = RowOf(k) => Reached(c, r)'
        BY <2>4, <2>5, <4>2
      <4>4. QED
        BY <3>1, <4>3 DEF Reached, Has
    <3>4. QED
      BY <3>2, <3>3
  <2>7. QED
    BY <2>6 DEF Arrived
<1>9. ASSUME NEW m \in Sends, Finish(m) PROVE Arrived'
  <2>1. \A k \in Sends : Ended(k)' => Ended(k)
    BY <1>1, <1>9 DEF Finish, Ended, At
  <2>2. QED
    BY <1>3, <1>9, <2>1 DEF Finish, net, page, room, table, RowOf
<1>10. ASSUME NEW m \in Sends, Fail(m) \/ BullMQ(m) PROVE Arrived'
  <2>1. \A k \in Sends : Ended(k)' => Ended(k)
    BY <1>1, <1>10 DEF Fail, BullMQ, Retry, Stalled, Ended, At
  <2>2. QED
    BY <1>3, <1>10, <2>1 DEF Fail, BullMQ, Retry, Stalled, net, page, room, table, RowOf
<1>11. ASSUME NEW i \in Instances, Start(i) PROVE Arrived'
  <2>1. PICK m : /\ job' = [job EXCEPT ![m] = "active"]
                 /\ work' = [work EXCEPT ![m] = [host |-> i, step |-> "create",
                                                 viewer |-> 0, stamp |-> 0]]
    BY <1>11 DEF Start
  <2>2. \A k \in Sends : Ended(k)' => Ended(k)
    BY <1>1, <2>1 DEF Ended, At
  <2>3. QED
    BY <1>3, <1>11, <2>2 DEF Start, net, page, room, table, RowOf
<1>12. ASSUME NEW i \in Instances, Crash(i) PROVE Arrived'
  <2>1. /\ job' = job /\ made' = made /\ alive' = alive /\ list' = list
        /\ \A k \in Sends : work'[k] = work[k] \/ work'[k] = NoWork
        /\ \A c \in viewing' : c \in viewing /\ HostOf[c] # i /\ inbox'[c] = inbox[c]
    BY <1>1, <1>12 DEF Crash, queue, table, page
  <2>2. \A ij \in Instances \X Instances : ij[2] # i => wire'[ij] = wire[ij]
    BY <1>12 DEF Crash
  <2>3. \A c \in viewing' : \A j \in Instances :
          wire'[<<j, HostOf[c]>>] = wire[<<j, HostOf[c]>>]
    BY <1>1, <2>1, <2>2, DeliveryAssumption
  <2>4. \A c \in viewing' : \A r : Reached(c, r) => Reached(c, r)'
    BY <2>1, <2>3 DEF Reached, Has
  <2>5. \A k \in Sends : Ended(k)' => Ended(k)
    BY <2>1 DEF Ended, At
  <2>6. \A k \in Sends : RowOf(k)' = RowOf(k)
    BY <2>1 DEF RowOf
  <2>7. QED
    BY <2>1, <2>4, <2>5, <2>6, ArrivedFrame
<1>13. ASSUME NEW i \in Instances, NEW j \in Instances, Deliver(i, j) PROVE Arrived'
  <2>1. UNCHANGED <<job, work, made, alive, viewing>>
    BY <1>13 DEF Deliver, queue, table, room
  <2>2. \A c \in viewing : \A r : Reached(c, r) => Reached(c, r)'
    BY <1>13, ReachedDeliver
  <2>3. \A k \in Sends : Ended(k)' = Ended(k) /\ RowOf(k)' = RowOf(k)
    BY <2>1 DEF Ended, At, RowOf
  <2>4. QED
    BY <2>1, <2>2, <2>3, ArrivedFrame
<1>14. ASSUME NEW i \in Instances, NEW row \in Rows, RequestDelete(i, row) PROVE Arrived'
  BY <1>4, <1>14 DEF RequestDelete, queue, table, room, net, page
<1>15. ASSUME NEW d \in erasing, DeleteRow(d) PROVE Arrived'
  BY <1>4, <1>15 DEF DeleteRow, queue, room, net, page
<1>16. ASSUME NEW d \in erasing, EmitDeleted(d) PROVE Arrived'
  <2>1. GoneOf(d.row) \in EventsOf(Real) /\ d.host \in Instances
    BY EventType DEF GoneOf, Sound, Genuine
  <2>2. /\ Emit(d.host, GoneOf(d.row))
        /\ UNCHANGED <<job, work, made, alive, viewing, list>>
    BY <1>16 DEF EmitDeleted, GoneOf, queue, table, room, page
  <2>3. ASSUME NEW c \in viewing, NEW r, Reached(c, r) PROVE Reached(c, r)'
    BY <1>1, <2>1, <2>2, <2>3, ReachedEmit
  <2>4. \A k \in Sends : Ended(k)' = Ended(k) /\ RowOf(k)' = RowOf(k)
    BY <2>2 DEF Ended, At, RowOf
  <2>5. QED
    BY <2>2, <2>3, <2>4, ArrivedFrame
<1>17. ASSUME NEW d \in erasing, DeleteAnswered(d) PROVE Arrived'
  <2>1. d.row \notin alive
    BY <1>17 DEF DeleteAnswered, Dead
  <2>2. UNCHANGED <<job, work, made, alive, viewing, wire>>
    BY <1>17 DEF DeleteAnswered, queue, table, room, net
  <2>3. ASSUME NEW c \in viewing, NEW r \in alive, Reached(c, r) PROVE Reached(c, r)'
    <3>1. r \in Rows /\ c \in Clients
      BY <1>1 DEF Sound, Genuine, Real
    <3>2. Has(c, r) => Has(c, r)'
      BY <1>17, <2>1, <3>1, AnsweredKeeps
    <3>3. QED
      BY <2>2, <2>3, <3>2 DEF Reached
  <2>4. \A k \in Sends : Ended(k)' = Ended(k) /\ RowOf(k)' = RowOf(k)
    BY <2>2 DEF Ended, At, RowOf
  <2>5. QED
    BY <2>2, <2>3, <2>4, ArrivedFrame
<1>18. ASSUME \A m \in Sends : job[m] = "unsent" /\ made[m] = 0, UNCHANGED <<job, work>>
       PROVE  Arrived'
  <2>1. \A m \in Sends : ~Ended(m)
    BY <1>2, <1>18
  <2>2. QED
    BY <1>18, <2>1 DEF Arrived, Ended, At
<1>19. ASSUME NEW c \in Clients, Join(c) \/ ShowMessages(c) PROVE Arrived'
  BY <1>18, <1>19 DEF Join, ShowMessages, queue, Ready
<1>20. ASSUME NEW c \in Clients, Open(c) \/ FindMessages(c) PROVE Arrived'
  BY <1>4, <1>20 DEF Open, FindMessages, queue, table, net, room
<1>21. ASSUME NEW c \in Clients, Receive(c) PROVE Arrived'
  <2>1. /\ UNCHANGED <<job, work, made, alive, viewing, wire>>
        /\ inbox[c] # <<>> /\ inbox[c] \in Seq(EventsOf(Real))
        /\ \A u \in Clients : u # c => list'[u] = list[u] /\ inbox'[u] = inbox[u]
    BY <1>21 DEF Receive, queue, table, room, Sound, Genuine
  <2>2. 1 \in 1 .. Len(inbox[c])
    BY <2>1, TailAt
  <2>3. ASSUME NEW u \in viewing, NEW r \in alive, Reached(u, r) PROVE Reached(u, r)'
    <3>1. r \in Rows /\ r \in Real /\ u \in Clients
      BY <1>1 DEF Sound, Genuine, Real
    <3>2. inbox[c][1] # GoneOf(r)
      BY <2>2, <3>1 DEF Dead, In
    <3>3. Has(u, r) => Has(u, r)'
      <4>1. CASE u = c
        BY <1>21, <3>1, <3>2, <4>1, ReceiveKeeps
      <4>2. CASE u # c
        BY <2>1, <3>1, <4>2 DEF Has
      <4>3. QED
        BY <4>1, <4>2
    <3>4. QED
      BY <2>1, <2>3, <3>3 DEF Reached
  <2>4. \A k \in Sends : Ended(k)' = Ended(k) /\ RowOf(k)' = RowOf(k)
    BY <2>1 DEF Ended, At, RowOf
  <2>5. QED
    BY <2>1, <2>3, <2>4, ArrivedFrame
<1>22. ASSUME UNCHANGED vars PROVE Arrived'
  BY <1>4, <1>22 DEF vars, queue, table, room, net, page
<1>23. QED
  BY <1>5, <1>6, <1>7, <1>8, <1>9, <1>10, <1>11, <1>12, <1>13, <1>14, <1>15, <1>16, <1>17,
     <1>19, <1>20, <1>21, <1>22 DEF Next, Process, Erase, Screen

LEMMA ArrivedAlways ==
  ASSUME Early
  PROVE  Spec => [](Sound /\ Ready /\ Steady /\ Dead /\ Arrived)
<1>1. Init => Dead /\ Arrived
  <2> SUFFICES ASSUME Init PROVE Dead /\ Arrived
    OBVIOUS
  <2>1. Real = {} /\ erasing = {} /\ viewing = {}
    BY DEF Init, Real, Rows
  <2>2. QED
    BY <2>1 DEF Dead, Arrived
<1>2. Sound /\ Ready /\ Steady /\ Dead /\ Arrived /\ [Next]_vars => Dead' /\ Arrived'
  BY DeadNext, ArrivedNext
<1>3. QED
  BY <1>1, <1>2, SteadyAlways, PTL DEF Spec

(* Clients that had the room on screen before the first message: whenever   *)
(* everything has settled, each of them that is still in the room shows     *)
(* every message whose processing ended, if it was not deleted.  The        *)
(* broadcast, the deletions and the crashes of other instances never lose   *)
(* one on its way.                                                          *)
THEOREM Missed ==
  ASSUME Early
  PROVE  Spec => []NothingMissed
<1>1. Sound /\ Arrived => NothingMissed
  <2> SUFFICES ASSUME Sound, Arrived, Quiet, NEW c \in viewing, NEW m \in Sends,
                      job[m] = "completed", RowOf(m) \in alive
               PROVE  RowOf(m) \in Shown(c)
    BY DEF NothingMissed, RowOf
  <2>1. c \in Clients /\ list[c] \in Seq(Real)
    BY DEF Sound, Shaped, Genuine
  <2>2. inbox[c] = <<>> /\ \A i \in Instances : wire[<<i, HostOf[c]>>] = <<>>
    BY <2>1, DeliveryAssumption DEF Quiet
  <2>3. \A x : ~In(<<>>, x)
    BY DEF In
  <2>4. In(list[c], RowOf(m))
    BY <2>2, <2>3 DEF Arrived, Ended, Reached, Has, HasIn, Carries
  <2>5. QED
    BY <2>1, <2>4, LenProperties DEF Shown, In
<1>2. QED
  BY <1>1, ArrivedAlways, PTL

-----------------------------------------------------------------------------
(* With one instance, a client learns of every deletion.                    *)

OneInstance == \A i, j \in Instances : i = j

(* The news that r is gone is on its way, after any news of r itself.       *)
ToldIn(q, r) ==
  \E n \in 1 .. Len(q) :
    q[n] = GoneOf(r) /\ \A k \in 1 .. Len(q) : q[k] = NewOf(r) => k < n

Told(c, r) ==
  \/ r \in alive
  \/ \E d \in erasing : d.row = r /\ d.step = "emit"
  \/ ToldIn(inbox[c], r)

Covered ==
  /\ \A ij \in Instances \X Instances : wire[ij] = <<>>
  /\ \A c \in viewing, r \in Real : Has(c, r) => Told(c, r)

LEMMA TellMore ==
  ASSUME NEW T, NEW q \in Seq(T), NEW e \in T, NEW r
  PROVE  /\ e = GoneOf(r) => ToldIn(Append(q, e), r)
         /\ ToldIn(q, r) /\ e # NewOf(r) => ToldIn(Append(q, e), r)
<1> DEFINE a == Append(q, e)
<1>1. /\ Len(q) \in Nat /\ Len(q) + 1 \in 1 .. Len(a) /\ a[Len(q) + 1] = e
      /\ \A n \in 1 .. Len(q) : n \in 1 .. Len(a) /\ a[n] = q[n]
      /\ \A n \in 1 .. Len(a) : (n \in 1 .. Len(q) /\ a[n] = q[n]) \/ n = Len(q) + 1
  BY AppendAt
<1> HIDE DEF a
<1>2. ASSUME e = GoneOf(r) PROVE ToldIn(a, r)
  <2>1. \A k \in 1 .. Len(a) : a[k] = NewOf(r) => k < Len(q) + 1
    BY <1>1, <1>2, NewNotGone
  <2>2. QED
    BY <1>1, <1>2, <2>1 DEF ToldIn
<1>3. ASSUME ToldIn(q, r), e # NewOf(r) PROVE ToldIn(a, r)
  <2>1. PICK n \in 1 .. Len(q) :
          q[n] = GoneOf(r) /\ \A k \in 1 .. Len(q) : q[k] = NewOf(r) => k < n
    BY <1>3 DEF ToldIn
  <2>2. \A k \in 1 .. Len(a) : a[k] = NewOf(r) => k < n
    BY <1>1, <1>3, <2>1
  <2>3. QED
    BY <1>1, <2>1, <2>2 DEF ToldIn
<1>4. QED
  BY <1>2, <1>3 DEF a

LEMMA TellNext ==
  ASSUME NEW T, NEW q \in Seq(T), q # <<>>, NEW r, ToldIn(q, r)
  PROVE  ToldIn(Tail(q), r) \/ (q[1] = GoneOf(r) /\ ~Carries(q, r))
<1> DEFINE a == Tail(q)
<1>1. /\ Len(q) \in Nat /\ 1 \in 1 .. Len(q)
      /\ \A n \in 1 .. Len(a) : n + 1 \in 1 .. Len(q) /\ a[n] = q[n + 1]
      /\ \A n \in 1 .. Len(q) : n # 1 => n - 1 \in 1 .. Len(a) /\ a[n - 1] = q[n]
  BY TailAt
<1> HIDE DEF a
<1>2. PICK n \in 1 .. Len(q) :
        q[n] = GoneOf(r) /\ \A k \in 1 .. Len(q) : q[k] = NewOf(r) => k < n
  BY DEF ToldIn
<1>3. CASE n = 1
  BY <1>1, <1>2, <1>3 DEF Carries, In
<1>4. CASE n # 1
  <2>1. \A k \in 1 .. Len(a) : a[k] = NewOf(r) => k < n - 1
    <3>1. ASSUME NEW k \in 1 .. Len(a), a[k] = NewOf(r) PROVE k < n - 1
      <4>1. k + 1 < n
        BY <1>1, <1>2, <3>1
      <4>2. QED
        BY <4>1
    <3>2. QED
      BY <3>1
  <2>2. n - 1 \in 1 .. Len(a) /\ a[n - 1] = GoneOf(r)
    BY <1>1, <1>2, <1>4
  <2>3. QED
    BY <2>1, <2>2 DEF ToldIn, a
<1>5. QED
  BY <1>3, <1>4

(* The client hears that r is gone, and nothing brings r back.              *)
LEMMA HearGone ==
  ASSUME Sound, NEW c \in Clients, Receive(c), NEW r \in Rows,
         inbox[c][1] = GoneOf(r), ~Carries(inbox[c], r)
  PROVE  ~Has(c, r)'
<1> DEFINE q == inbox[c]
           o == Only(list[c], Rows \ {r})
<1>1. q \in Seq(EventsOf(Real)) /\ q # <<>> /\ list[c] \in Seq(Real)
  BY DEF Receive, Sound, Genuine
<1>2. Head(q) = GoneOf(r)
  BY <1>1, TailAt
<1>3. GoneOf(r).kind # "new" /\ GoneOf(r).row = r
  BY DEF GoneOf
<1>4. list'[c] = o /\ inbox'[c] = Tail(q)
  BY <1>2, <1>3 DEF Receive, Sound, Genuine, Without
<1>5. \A i \in 1 .. Len(o) : o[i] \in Rows \ {r}
  BY <1>1, OnlyKeeps
<1>6. ~In(o, r)
  BY <1>5 DEF In
<1>7. \A x : In(q, x) <=> In(Tail(q), x) \/ x = Head(q)
  BY <1>1, InTail
<1>8. ~Carries(Tail(q), r)
  BY <1>7 DEF Carries
<1>9. QED
  BY <1>4, <1>6, <1>8 DEF Has, HasIn

LEMMA CoveredNext ==
  ASSUME OneInstance, Sound, Ready, Steady, Dead, Covered, [Next]_vars
  PROVE  Covered'
<1>1. /\ viewing \subseteq Clients /\ \A c \in Clients : inbox[c] \in Seq(EventsOf(Real))
      /\ \A ij \in Instances \X Instances : ij[1] = ij[2]
  BY DEF OneInstance, Sound, Genuine, Shaped
<1>2. ASSUME UNCHANGED <<wire, inbox, list, viewing, erasing>>, alive \subseteq alive'
      PROVE  Covered'
  <2>1. ASSUME NEW c \in viewing', NEW r \in Real', Has(c, r)' PROVE Told(c, r)'
    <3>1. Has(c, r) /\ r \in Real
      BY <1>1, <1>2, <2>1, HasReal DEF Has, Sound
    <3>2. Told(c, r)
      BY <1>2, <3>1 DEF Covered
    <3>3. QED
      BY <1>2, <3>2 DEF Told
  <2>2. QED
    BY <1>2, <2>1 DEF Covered
<1>3. ASSUME UNCHANGED <<wire, made>>, Real = {} PROVE Covered'
  BY <1>3 DEF Covered, Real
<1>4. ASSUME NEW m \in Sends, NEW later \in BOOLEAN, Send(m, later) PROVE Covered'
  BY <1>2, <1>4 DEF Send, net, page, room, table
<1>5. ASSUME NEW m \in Sends, Create(m) \/ Mark(m) \/ Finish(m) \/ Fail(m) \/ BullMQ(m)
      PROVE  Covered'
  BY <1>2, <1>5 DEF Create, Mark, Finish, Fail, BullMQ, Retry, Stalled, net, page, room, table
<1>6. ASSUME NEW i \in Instances, Start(i) PROVE Covered'
  BY <1>2, <1>6 DEF Start, net, page, room, table
<1>7. ASSUME NEW i \in Instances, NEW e, Emit(i, e)
      PROVE  /\ \A ij \in Instances \X Instances : wire'[ij] = <<>>
             /\ \A c \in viewing : inbox'[c] = Append(inbox[c], e)
  <2>1. \A c \in viewing : HostOf[c] = i
    BY <1>1, DeliveryAssumption DEF OneInstance
  <2>2. \A c \in viewing : inbox'[c] = Append(inbox[c], e)
    BY <1>1, <1>7, <2>1 DEF Emit, Push
  <2>3. \A ij \in Instances \X Instances : wire'[ij] = wire[ij]
    BY <1>1, <1>7 DEF Emit
  <2>4. QED
    BY <2>2, <2>3 DEF Covered
<1>8. ASSUME NEW m \in Sends, MarkSender(m) PROVE Covered'
  <2>1. made[m] > 0 /\ At(m, "sender")
    BY <1>8 DEF MarkSender, Sound, StoredInv, Working
  <2>2. PICK s \in Real : s = RowOf(m)
    BY <2>1, RowOfWork DEF RowOf, Sound
  <2>3. work[m].host \in Instances /\ NewOf(s) \in EventsOf(Real)
    BY <2>1, <2>2, EventType DEF At, Sound, Shaped, Works, NewOf
  <2>4. /\ Emit(work[m].host, NewOf(s))
        /\ UNCHANGED <<list, viewing, alive, erasing, made>>
    BY <1>8, <2>2 DEF MarkSender, NewOf, RowOf, page, room
  <2>5. s \in alive
    <3>1. s.msg = m /\ s.copy = made[m] /\ made[m] \in Nat
      BY <2>2 DEF RowOf, Sound, StoredInv, QueueOK
    <3>2. ~Aired(s)
      BY <2>1, <3>1 DEF Aired
    <3>3. QED
      BY <3>2 DEF Dead
  <2>6. /\ \A ij \in Instances \X Instances : wire'[ij] = <<>>
        /\ \A c \in viewing : inbox'[c] = Append(inbox[c], NewOf(s))
    BY <1>7, <2>3, <2>4
  <2>7. ASSUME NEW c \in viewing, NEW r \in Real, Has(c, r)' PROVE Told(c, r)'
    <3>1. CASE r = s
      BY <2>4, <2>5, <3>1 DEF Told
    <3>2. CASE r # s
      <4>1. /\ inbox[c] \in Seq(EventsOf(Real)) /\ list'[c] = list[c]
            /\ inbox'[c] = Append(inbox[c], NewOf(s))
        BY <1>1, <2>4, <2>6
      <4>2. HasIn(list[c], Append(inbox[c], NewOf(s)), r)
              <=> HasIn(list[c], inbox[c], r) \/ r = s
        <5>1. ASSUME NEW q \in Seq(EventsOf(Real)), NEW l
              PROVE  \A x : HasIn(l, Append(q, NewOf(s)), x) <=> HasIn(l, q, x) \/ x = s
          BY GetNew
        <5>2. QED
          BY <4>1, <5>1
      <4>3. Has(c, r)
        BY <2>7, <3>2, <4>1, <4>2 DEF Has
      <4>4. Told(c, r)
        BY <4>3 DEF Covered
      <4>5. NewOf(s) # NewOf(r)
        BY <3>2, NewNotGone
      <4>6. ToldIn(inbox[c], r) => ToldIn(Append(inbox[c], NewOf(s)), r)
        BY <2>3, <4>1, <4>5, TellMore
      <4>7. QED
        BY <2>4, <4>1, <4>4, <4>6 DEF Told
    <3>3. QED
      BY <3>1, <3>2
  <2>8. Real' = Real
    BY <2>4 DEF Real
  <2>9. QED
    BY <2>4, <2>6, <2>7, <2>8 DEF Covered
<1>9. ASSUME NEW d \in erasing, EmitDeleted(d) PROVE Covered'
  <2>1. GoneOf(d.row) \in EventsOf(Real) /\ d.host \in Instances /\ d.row \in Real
    BY EventType DEF GoneOf, Sound, Genuine
  <2>2. /\ Emit(d.host, GoneOf(d.row))
        /\ UNCHANGED <<list, viewing, alive, made>>
        /\ erasing' = (erasing \ {d}) \union {[d EXCEPT !.step = "answer"]}
    BY <1>9 DEF EmitDeleted, GoneOf, table, room, page
  <2>3. /\ \A ij \in Instances \X Instances : wire'[ij] = <<>>
        /\ \A c \in viewing : inbox'[c] = Append(inbox[c], GoneOf(d.row))
    BY <1>7, <2>1, <2>2
  <2>4. ASSUME NEW c \in viewing, NEW r \in Real, Has(c, r)' PROVE Told(c, r)'
    <3>1. /\ inbox[c] \in Seq(EventsOf(Real)) /\ list'[c] = list[c]
          /\ inbox'[c] = Append(inbox[c], GoneOf(d.row))
      BY <1>1, <2>2, <2>3
    <3>2. HasIn(list[c], Append(inbox[c], GoneOf(d.row)), r) <=> HasIn(list[c], inbox[c], r)
      BY <2>1, <3>1, GetGone
    <3>3. Told(c, r)
      BY <2>4, <3>1, <3>2 DEF Covered, Has
    <3>4. /\ GoneOf(d.row) = GoneOf(r) => ToldIn(Append(inbox[c], GoneOf(d.row)), r)
          /\ ToldIn(inbox[c], r) /\ GoneOf(d.row) # NewOf(r)
               => ToldIn(Append(inbox[c], GoneOf(d.row)), r)
      BY <2>1, <3>1, TellMore
    <3>5. GoneOf(d.row) # NewOf(r)
      BY NewNotGone
    <3>6. CASE d.row = r
      BY <3>1, <3>4, <3>6 DEF Told
    <3>7. CASE d.row # r
      BY <2>2, <3>1, <3>3, <3>4, <3>5, <3>7 DEF Told
    <3>8. QED
      BY <3>6, <3>7
  <2>5. Real' = Real
    BY <2>2 DEF Real
  <2>6. QED
    BY <2>2, <2>3, <2>4, <2>5 DEF Covered
<1>10. ASSUME NEW i \in Instances, NEW j \in Instances, Deliver(i, j) PROVE Covered'
  BY <1>10 DEF Deliver, Covered
<1>11. ASSUME NEW d \in erasing, DeleteRow(d) PROVE Covered'
  <2>1. /\ UNCHANGED <<wire, inbox, list, viewing, made>> /\ alive' = alive \ {d.row}
        /\ d.step = "delete"
        /\ erasing' = (erasing \ {d}) \union
                      (IF d.row \in alive THEN {[d EXCEPT !.step = "emit"]} ELSE {})
    BY <1>11 DEF DeleteRow, net, page, room
  <2>2. d \in [row : Real, host : Instances, step : {"delete", "emit", "answer"}]
    BY DEF Sound, Genuine
  <2>3. ASSUME NEW c \in viewing, NEW r \in Real, Has(c, r) PROVE Told(c, r)'
    <3>1. Told(c, r)
      BY <2>3 DEF Covered
    <3>2. CASE r \in alive /\ r = d.row
      <4>1. [d EXCEPT !.step = "emit"] \in erasing'
        BY <2>1, <3>2
      <4>2. [d EXCEPT !.step = "emit"].row = r /\ [d EXCEPT !.step = "emit"].step = "emit"
        BY <2>2, <3>2
      <4>3. QED
        BY <4>1, <4>2 DEF Told
    <3>3. CASE r \in alive /\ r # d.row
      BY <2>1, <3>3 DEF Told
    <3>4. CASE \E f \in erasing : f.row = r /\ f.step = "emit"
      BY <2>1, <3>4 DEF Told
    <3>5. CASE ToldIn(inbox[c], r)
      BY <2>1, <3>5 DEF Told
    <3>6. QED
      BY <3>1, <3>2, <3>3, <3>4, <3>5 DEF Told
  <2>4. Real' = Real /\ \A c, r : Has(c, r)' = Has(c, r)
    BY <2>1 DEF Real, Has
  <2>5. QED
    BY <2>1, <2>3, <2>4 DEF Covered
<1>12. ASSUME NEW d \in erasing, DeleteAnswered(d) PROVE Covered'
  <2>1. /\ UNCHANGED <<wire, inbox, viewing, made, alive>> /\ erasing' = erasing \ {d}
        /\ d.step = "answer"
    BY <1>12 DEF DeleteAnswered, net, table, room
  <2>2. \A c \in viewing : \A r : Has(c, r)' => Has(c, r)
    BY <1>1, <1>12, AnsweredKeeps
  <2>3. \A c, r : Told(c, r) => Told(c, r)'
    BY <2>1 DEF Told
  <2>4. Real' = Real
    BY <2>1 DEF Real
  <2>5. QED
    BY <2>1, <2>2, <2>3, <2>4 DEF Covered
<1>13. ASSUME NEW c \in Clients, Receive(c) PROVE Covered'
  <2>1. /\ UNCHANGED <<wire, viewing, made, alive, erasing>>
        /\ inbox[c] # <<>> /\ inbox'[c] = Tail(inbox[c])
        /\ \A u \in Clients : u # c => list'[u] = list[u] /\ inbox'[u] = inbox[u]
    BY <1>13 DEF Receive, table, room, Sound, Genuine
  <2>2. ASSUME NEW u \in viewing, NEW r \in Real, Has(u, r)' PROVE Told(u, r)'
    <3>1. CASE u = c
      <4>1. Has(c, r) /\ inbox[c] \in Seq(EventsOf(Real)) /\ r \in Rows
        BY <1>1, <1>13, <2>2, <3>1, ReceiveKeeps DEF Real
      <4>2. Told(c, r)
        BY <3>1, <4>1 DEF Covered
      <4>3. ToldIn(inbox[c], r) => ToldIn(Tail(inbox[c]), r)
        <5>1. ASSUME ToldIn(inbox[c], r)
              PROVE  \/ ToldIn(Tail(inbox[c]), r)
                     \/ inbox[c][1] = GoneOf(r) /\ ~Carries(inbox[c], r)
          BY <2>1, <4>1, <5>1, TellNext
        <5>2. QED
          BY <1>13, <2>2, <3>1, <4>1, <5>1, HearGone
      <4>4. QED
        BY <2>1, <3>1, <4>2, <4>3 DEF Told
    <3>2. CASE u # c
      <4>1. list'[u] = list[u] /\ inbox'[u] = inbox[u]
        BY <1>1, <2>1, <3>2
      <4>2. Told(u, r)
        BY <2>2, <4>1 DEF Covered, Has
      <4>3. QED
        BY <2>1, <4>1, <4>2 DEF Told
    <3>3. QED
      BY <3>1, <3>2
  <2>3. Real' = Real
    BY <2>1 DEF Real
  <2>4. QED
    BY <2>1, <2>2, <2>3 DEF Covered
<1>14. ASSUME NEW i \in Instances, Crash(i) PROVE Covered'
  <2>1. viewing' = {}
    BY <1>1, <1>14, DeliveryAssumption DEF Crash, OneInstance
  <2>2. \A ij \in Instances \X Instances : wire'[ij] = <<>>
    BY <1>14 DEF Crash, Covered
  <2>3. QED
    BY <2>1, <2>2 DEF Covered
<1>15. ASSUME NEW i \in Instances, NEW row \in Rows, RequestDelete(i, row) PROVE Covered'
  <2>1. UNCHANGED <<wire, inbox, list, viewing, made, alive>> /\ erasing \subseteq erasing'
    BY <1>15 DEF RequestDelete, net, page, room, table
  <2>2. \A c, r : (Told(c, r) => Told(c, r)') /\ Has(c, r)' = Has(c, r)
    BY <2>1 DEF Told, Has
  <2>3. QED
    BY <2>1, <2>2 DEF Covered, Real
<1>16. ASSUME NEW c \in Clients, Open(c) \/ FindMessages(c) PROVE Covered'
  BY <1>2, <1>16 DEF Open, FindMessages, net, room, table
<1>17. ASSUME NEW c \in Clients, Join(c) PROVE Covered'
  <2>1. Real = {}
    BY <1>17 DEF Join, Ready, Real, Rows
  <2>2. QED
    BY <1>3, <1>17, <2>1 DEF Join, net, table
<1>18. ASSUME NEW c \in Clients, ShowMessages(c) PROVE Covered'
  <2>1. Real = {}
    BY <1>18 DEF ShowMessages, Ready, Real, Rows
  <2>2. QED
    BY <1>3, <1>18, <2>1 DEF ShowMessages, net, table
<1>19. ASSUME UNCHANGED vars PROVE Covered'
  BY <1>2, <1>19 DEF vars, net, page, room, table
<1>20. QED
  BY <1>4, <1>5, <1>6, <1>8, <1>9, <1>10, <1>11, <1>12, <1>13, <1>14, <1>15, <1>16, <1>17,
     <1>18, <1>19 DEF Next, Process, Erase, Screen

(* One instance, and clients that had the room on screen before the first   *)
(* message: whenever everything has settled, none of those still in the     *)
(* room shows a message that was deleted.  The news of a deletion never     *)
(* overtakes the news of the message.                                       *)
THEOREM Forgotten ==
  ASSUME Early, OneInstance
  PROVE  Spec => []NothingDeleted
<1>1. Init => Covered
  BY DEF Init, Covered
<1>2. Sound /\ Ready /\ Steady /\ Dead /\ Covered /\ [Next]_vars => Covered'
  BY CoveredNext
<1>3. Sound /\ Covered => NothingDeleted
  <2> SUFFICES ASSUME Sound, Covered, Quiet, NEW c \in viewing, NEW r \in Shown(c)
               PROVE  r \in alive
    BY DEF NothingDeleted
  <2>1. c \in Clients /\ list[c] \in Seq(Real)
    BY DEF Sound, Shaped, Genuine
  <2>2. In(list[c], r)
    BY <2>1, LenProperties DEF Shown, In
  <2>3. Has(c, r)
    BY <2>2 DEF Has, HasIn
  <2>4. Told(c, r)
    BY <2>1, <2>3, HasReal DEF Covered, Sound
  <2>5. erasing = {} /\ inbox[c] = <<>>
    BY <2>1 DEF Quiet
  <2>6. QED
    BY <2>4, <2>5 DEF Told, ToldIn
<1>4. QED
  BY <1>1, <1>2, <1>3, ArrivedAlways, PTL DEF Spec
=============================================================================
