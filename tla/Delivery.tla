------------------------------ MODULE Delivery ------------------------------
(***************************************************************************)
(* How a message sent in a room gets to the people who are looking at it:  *)
(* the queue (back/src/queue), the MessageProcessor of every instance, the *)
(* messages table (back/src/message), the broadcasts of ChatGateway and the*)
(* list the front shows (front/src/hooks/use-chat-messages.ts).  One room. *)
(*                                                                         *)
(* Clients are numbered in the order their sockets connected, which is the *)
(* order the processor visits them in.                                     *)
(***************************************************************************)
EXTENDS Naturals, FiniteSets, Sequences, Lists

CONSTANTS
  Sends,        \* the messages clients send
  Clients,      \* 1 .. the number of clients, each a user with one socket
  Instances,
  HostOf,       \* the instance each client is connected to
  AuthorOf,     \* the client that sends each message
  ContentOf,    \* what a message says, with its sender and attachment
  NoWork,
  Attempts,     \* attempts of the queue's defaultJobOptions
  Concurrency,  \* jobs one instance processes at a time
  MaxStalls,    \* times BullMQ takes back a job whose worker died
  Early,        \* clients have the room on screen before anything is sent
  MaxFaults,    \* bound: database errors met by the processor
  MaxCrashes,   \* bound: crashes of instances
  MaxDeletes    \* bound: requests to delete a message

ASSUME DeliveryAssumption ==
  /\ Clients \subseteq Nat \ {0}
  /\ HostOf \in [Clients -> Instances]
  /\ AuthorOf \in [Sends -> Clients]
  /\ {Attempts, Concurrency} \subseteq Nat \ {0}
  /\ {MaxStalls, MaxFaults, MaxCrashes, MaxDeletes} \subseteq Nat
  /\ Early \in BOOLEAN

VARIABLES
  job,       \* what BullMQ has done with each message
  waiting,   \* the queue's wait list
  failures,  \* attemptsMade of each job
  stalls,    \* stalled counter of each job
  recent,    \* contents enqueued in the millisecond of the last message
  work,      \* the process() call running for each active job
  created,   \* all rows of the messages table ever, by createdAt
  alive,     \* the rows still there
  made,      \* how many rows each message has got
  lastRead,  \* user_room_reads, as a position in created
  joining,   \* clients whose JOIN_ROOM is on its way
  viewing,   \* sockets with data.currentRoomId = the room, in its io room
  wire,      \* broadcasts of one instance on their way to another
  inbox,     \* events on their way to each client
  load,      \* the client's GET /messages/room/:roomId
  answer,    \* its response
  list,      \* the messages on the client's screen
  erasing,   \* DELETE /messages/:id requests in progress
  seen,      \* history: the rows on the sender's screen when it sent each
  faults, crashes, deletes

queue == <<job, waiting, failures, stalls, recent>>
table == <<created, alive, made, lastRead>>
room == <<joining, viewing>>
net == <<wire, inbox>>
page == <<load, answer, list>>
extra == <<seen, faults, crashes, deletes>>
vars == <<queue, work, table, room, net, page, erasing, extra>>

Copies == Attempts + MaxStalls
Rows == [msg : Sends, copy : 1 .. Copies]
Events == [kind : {"new", "deleted"}, row : Rows]
JobStates == {"unsent", "waiting", "active", "delayed", "completed", "failed", "dropped"}

(* A process() call at one of its awaits: the insert, markAsRead of viewer, *)
(* markAsRead of the sender, or the return to BullMQ.  stamp is the         *)
(* new Date() it passes to markAsRead.                                      *)
Works == [host : Instances, step : {"create", "mark", "sender", "finish"},
          viewer : Clients \union {0}, stamp : Nat]
Erasures == [row : Rows, host : Instances, step : {"delete", "emit", "answer"}]

TypeOK ==
  /\ job \in [Sends -> JobStates]
  /\ waiting \in Seq(Sends)
  /\ failures \in [Sends -> 0 .. Attempts]
  /\ stalls \in [Sends -> 0 .. MaxStalls + 1]
  /\ recent \subseteq {ContentOf[m] : m \in Sends}
  /\ work \in [Sends -> Works \union {NoWork}]
  /\ created \in Seq(Rows)
  /\ alive \subseteq Rows
  /\ made \in [Sends -> 0 .. Copies]
  /\ lastRead \in [Clients -> Nat]
  /\ joining \subseteq Clients /\ viewing \subseteq Clients
  /\ wire \in [Instances \X Instances -> Seq(Events)]
  /\ inbox \in [Clients -> Seq(Events)]
  /\ load \in [Clients -> {"closed", "asked", "answered", "done"}]
  /\ answer \in [Clients -> Seq(Rows)]
  /\ list \in [Clients -> Seq(Rows)]
  /\ erasing \subseteq Erasures
  /\ seen \in [Sends -> SUBSET Rows]
  /\ faults \in 0 .. MaxFaults /\ crashes \in 0 .. MaxCrashes
  /\ deletes \in 0 .. MaxDeletes

Init ==
  /\ job = [m \in Sends |-> "unsent"]
  /\ waiting = <<>>
  /\ failures = [m \in Sends |-> 0]
  /\ stalls = [m \in Sends |-> 0]
  /\ recent = {}
  /\ work = [m \in Sends |-> NoWork]
  /\ created = <<>>
  /\ alive = {}
  /\ made = [m \in Sends |-> 0]
  /\ lastRead = [c \in Clients |-> 0]
  /\ joining = {} /\ viewing = {}
  /\ wire = [ij \in Instances \X Instances |-> <<>>]
  /\ inbox = [c \in Clients |-> <<>>]
  /\ load = [c \in Clients |-> "closed"]
  /\ answer = [c \in Clients |-> <<>>]
  /\ list = [c \in Clients |-> <<>>]
  /\ erasing = {}
  /\ seen = [m \in Sends |-> {}]
  /\ faults = 0 /\ crashes = 0 /\ deletes = 0

-----------------------------------------------------------------------------
(* Broadcasts                                                               *)

(* The sockets of instance i in the room get event e.                       *)
Push(i, e) ==
  inbox' = [c \in Clients |-> IF HostOf[c] = i /\ c \in viewing
                              THEN Append(inbox[c], e) ELSE inbox[c]]
(* Mutants of Emit: the other instances hear nothing; an instance also hears*)
(* itself.                                                                  *)
EmitHere(i, e) == Push(i, e) /\ UNCHANGED wire
EmitEcho(i, e) ==
  /\ Push(i, e)
  /\ wire' = [ij \in Instances \X Instances |->
                IF ij[1] = i THEN Append(wire[ij], e) ELSE wire[ij]]

(* server.to(roomId).emit: at once to this instance's sockets in the room,  *)
(* over Redis pub/sub to those of the other instances.                      *)
Emit(i, e) ==
  /\ Push(i, e)
  /\ wire' = [ij \in Instances \X Instances |->
                IF ij[1] = i /\ ij[2] # i THEN Append(wire[ij], e) ELSE wire[ij]]

Deliver(i, j) ==
  /\ wire[<<i, j>>] # <<>>
  /\ Push(j, Head(wire[<<i, j>>]))
  /\ wire' = [wire EXCEPT ![<<i, j>>] = Tail(@)]
  /\ UNCHANGED <<queue, work, table, room, page, erasing, extra>>

-----------------------------------------------------------------------------
(* The queue and its workers                                                *)

(* What a client shows.                                                     *)
Shown(c) == {list[c][n] : n \in DOMAIN list[c]}

(* Mutant of Send: the page shows the message without waiting for it to be  *)
(* stored, as the first copy.                                               *)
SendAndShow(m, later) ==
  /\ job[m] = "unsent" /\ load[AuthorOf[m]] # "closed"
  /\ Early => \A c \in Clients : load[c] = "done" /\ c \notin joining
  /\ job' = [job EXCEPT ![m] = "waiting"]
  /\ waiting' = Append(waiting, m)
  /\ seen' = [seen EXCEPT ![m] = Shown(AuthorOf[m])]
  /\ list' = [list EXCEPT ![AuthorOf[m]] = Append(@, [msg |-> m, copy |-> 1])]
  /\ UNCHANGED <<failures, stalls, recent, work, table, room, net, load, answer,
                 erasing, faults, crashes, deletes>>

(* handleSendMessage and enqueueMessage, in the same millisecond as the     *)
(* message before or not.  The job id is a hash of the content and the      *)
(* millisecond: BullMQ ignores a second job with that id.                   *)
Send(m, later) ==
  /\ job[m] = "unsent" /\ load[AuthorOf[m]] # "closed"
  /\ Early => \A c \in Clients : load[c] = "done" /\ c \notin joining
  /\ LET ids == IF later THEN {} ELSE recent
     IN IF ContentOf[m] \in ids
        THEN /\ job' = [job EXCEPT ![m] = "dropped"]
             /\ UNCHANGED <<waiting, recent>>
        ELSE /\ job' = [job EXCEPT ![m] = "waiting"]
             /\ waiting' = Append(waiting, m)
             /\ recent' = ids \union {ContentOf[m]}
  /\ seen' = [seen EXCEPT ![m] = Shown(AuthorOf[m])]
  /\ UNCHANGED <<failures, stalls, work, table, room, net, page, erasing,
                 faults, crashes, deletes>>

Busy(i) == {m \in Sends : work[m] # NoWork /\ work[m].host = i}

(* Mutant of Start: the message is broadcast before it is stored.           *)
StartEagerly(i) ==
  /\ waiting # <<>> /\ Cardinality(Busy(i)) < Concurrency
  /\ LET m == Head(waiting)
     IN /\ job' = [job EXCEPT ![m] = "active"]
        /\ work' = [work EXCEPT ![m] = [host |-> i, step |-> "create",
                                        viewer |-> 0, stamp |-> 0]]
        /\ Emit(i, [kind |-> "new", row |-> [msg |-> m, copy |-> made[m] + 1]])
  /\ waiting' = Tail(waiting)
  /\ UNCHANGED <<failures, stalls, recent, table, room, page, erasing, extra>>

(* A worker takes the next job and calls process(), up to the insert.       *)
Start(i) ==
  /\ waiting # <<>> /\ Cardinality(Busy(i)) < Concurrency
  /\ LET m == Head(waiting)
     IN /\ job' = [job EXCEPT ![m] = "active"]
        /\ work' = [work EXCEPT ![m] = [host |-> i, step |-> "create",
                                        viewer |-> 0, stamp |-> 0]]
  /\ waiting' = Tail(waiting)
  /\ UNCHANGED <<failures, stalls, recent, table, room, net, page, erasing, extra>>

At(m, step) == work[m] # NoWork /\ work[m].step = step

(* The loop over server.sockets.sockets goes on after socket number k: the  *)
(* next one that is in the room, or the sender when there is none.          *)
MarkAfter(i, k, now) ==
  LET later == {c \in viewing : HostOf[c] = i /\ c > k}
  IN IF later = {} THEN [host |-> i, step |-> "sender", viewer |-> 0, stamp |-> now]
     ELSE [host |-> i, step |-> "mark", stamp |-> now,
           viewer |-> CHOOSE c \in later : \A d \in later : c <= d]

(* Mutant of Create: the copies are numbered from zero.                     *)
CreateFromZero(m) ==
  /\ At(m, "create")
  /\ LET row == [msg |-> m, copy |-> made[m]]
     IN /\ created' = Append(created, row)
        /\ alive' = alive \union {row}
  /\ made' = [made EXCEPT ![m] = @ + 1]
  /\ work' = [work EXCEPT ![m] = MarkAfter(@.host, 0, Len(created) + 1)]
  /\ UNCHANGED <<queue, lastRead, room, net, page, erasing, extra>>

(* messageService.create.                                                   *)
Create(m) ==
  /\ At(m, "create")
  /\ LET row == [msg |-> m, copy |-> made[m] + 1]
     IN /\ created' = Append(created, row)
        /\ alive' = alive \union {row}
  /\ made' = [made EXCEPT ![m] = @ + 1]
  /\ work' = [work EXCEPT ![m] = MarkAfter(@.host, 0, Len(created) + 1)]
  /\ UNCHANGED <<queue, lastRead, room, net, page, erasing, extra>>

(* messageService.markAsRead of a socket's user.                            *)
Mark(m) ==
  /\ At(m, "mark")
  /\ lastRead' = [lastRead EXCEPT ![work[m].viewer] = work[m].stamp]
  /\ work' = [work EXCEPT ![m] = MarkAfter(@.host, @.viewer, Len(created))]
  /\ UNCHANGED <<queue, created, alive, made, room, net, page, erasing, extra>>

(* messageService.markAsRead of the sender, then emitMessageToRoom.         *)
MarkSender(m) ==
  /\ At(m, "sender")
  /\ lastRead' = [lastRead EXCEPT ![AuthorOf[m]] = work[m].stamp]
  /\ Emit(work[m].host, [kind |-> "new", row |-> [msg |-> m, copy |-> made[m]]])
  /\ work' = [work EXCEPT ![m] = [host |-> @.host, step |-> "finish",
                                  viewer |-> 0, stamp |-> 0]]
  /\ UNCHANGED <<queue, created, alive, made, room, page, erasing, extra>>

(* process() has returned: BullMQ moves the job to completed.               *)
Finish(m) ==
  /\ At(m, "finish")
  /\ job' = [job EXCEPT ![m] = "completed"]
  /\ work' = [work EXCEPT ![m] = NoWork]
  /\ UNCHANGED <<waiting, failures, stalls, recent, table, room, net, page,
                 erasing, extra>>

(* Mutant of Fail: the error is swallowed and the job completes.            *)
FailSwallowed(m) ==
  /\ \E step \in {"create", "mark", "sender"} : At(m, step)
  /\ faults < MaxFaults /\ faults' = faults + 1
  /\ job' = [job EXCEPT ![m] = "completed"]
  /\ work' = [work EXCEPT ![m] = NoWork]
  /\ UNCHANGED <<waiting, failures, stalls, recent, table, room, net, page, erasing,
                 seen, crashes, deletes>>

(* A query of process() throws: BullMQ retries the job after a delay, or    *)
(* moves it to failed once its attempts are used up.                        *)
Fail(m) ==
  /\ \E step \in {"create", "mark", "sender"} : At(m, step)
  /\ faults < MaxFaults /\ faults' = faults + 1
  /\ failures' = [failures EXCEPT ![m] = @ + 1]
  /\ job' = [job EXCEPT ![m] = IF failures[m] + 1 < Attempts THEN "delayed" ELSE "failed"]
  /\ work' = [work EXCEPT ![m] = NoWork]
  /\ UNCHANGED <<waiting, stalls, recent, table, room, net, page, erasing,
                 seen, crashes, deletes>>

(* Mutant of Retry: the job changes state but is not queued again.          *)
RetryUnqueued(m) ==
  /\ job[m] = "delayed"
  /\ job' = [job EXCEPT ![m] = "waiting"]
  /\ UNCHANGED <<waiting, failures, stalls, recent, work, table, room, net, page,
                 erasing, extra>>

(* The delay of a failed job is over.                                       *)
Retry(m) ==
  /\ job[m] = "delayed"
  /\ job' = [job EXCEPT ![m] = "waiting"]
  /\ waiting' = Append(waiting, m)
  /\ UNCHANGED <<failures, stalls, recent, work, table, room, net, page, erasing, extra>>

(* BullMQ takes back a job whose worker is gone, ahead of the others.       *)
Stalled(m) ==
  /\ job[m] = "active" /\ work[m] = NoWork
  /\ stalls' = [stalls EXCEPT ![m] = @ + 1]
  /\ IF stalls[m] < MaxStalls
     THEN /\ job' = [job EXCEPT ![m] = "waiting"]
          /\ waiting' = <<m>> \o waiting
     ELSE /\ job' = [job EXCEPT ![m] = "failed"]
          /\ UNCHANGED waiting
  /\ UNCHANGED <<failures, recent, work, table, room, net, page, erasing, extra>>

(* An instance dies with its handlers and connections.  Its clients get new *)
(* sockets, but the front does not join the room again.                     *)
Crash(i) ==
  /\ crashes < MaxCrashes /\ crashes' = crashes + 1
  /\ work' = [m \in Sends |-> IF m \in Busy(i) THEN NoWork ELSE work[m]]
  /\ erasing' = {d \in erasing : d.host # i}
  /\ joining' = {c \in joining : HostOf[c] # i}
  /\ viewing' = {c \in viewing : HostOf[c] # i}
  /\ inbox' = [c \in Clients |-> IF HostOf[c] = i THEN <<>> ELSE inbox[c]]
  /\ wire' = [ij \in Instances \X Instances |-> IF ij[2] = i THEN <<>> ELSE wire[ij]]
  /\ UNCHANGED <<queue, table, page, seen, faults, deletes>>

-----------------------------------------------------------------------------
(* Deleting a message, as its author                                        *)

(* The author asks any instance to delete a message on the screen.          *)
RequestDelete(i, row) ==
  /\ deletes < MaxDeletes /\ deletes' = deletes + 1
  /\ \E n \in DOMAIN list[AuthorOf[row.msg]] : list[AuthorOf[row.msg]][n] = row
  /\ erasing' = erasing \union {[row |-> row, host |-> i, step |-> "delete"]}
  /\ UNCHANGED <<queue, work, table, room, net, page, seen, faults, crashes>>

(* deleteMessage: the row, if it still exists.                              *)
DeleteRow(d) ==
  /\ d.step = "delete"
  /\ alive' = alive \ {d.row}
  /\ erasing' = (erasing \ {d}) \union
                (IF d.row \in alive THEN {[d EXCEPT !.step = "emit"]} ELSE {})
  /\ UNCHANGED <<queue, work, created, made, lastRead, room, net, page, extra>>

(* Mutant of EmitDeleted: only the author learns of the deletion.           *)
EmitDeletedToNobody(d) ==
  /\ d.step = "emit"
  /\ erasing' = (erasing \ {d}) \union {[d EXCEPT !.step = "answer"]}
  /\ UNCHANGED <<queue, work, table, room, net, page, extra>>

(* emitMessageDeleted.                                                      *)
EmitDeleted(d) ==
  /\ d.step = "emit"
  /\ Emit(d.host, [kind |-> "deleted", row |-> d.row])
  /\ erasing' = (erasing \ {d}) \union {[d EXCEPT !.step = "answer"]}
  /\ UNCHANGED <<queue, work, table, room, page, extra>>

Without(rows, row) == Only(rows, Rows \ {row})

(* deleteMessageApi: the author's own screen, when the request succeeded.   *)
DeleteAnswered(d) ==
  /\ d.step = "answer"
  /\ list' = [list EXCEPT ![AuthorOf[d.row.msg]] = Without(@, d.row)]
  /\ erasing' = erasing \ {d}
  /\ UNCHANGED <<queue, work, table, room, net, load, answer, extra>>

-----------------------------------------------------------------------------
(* The room on a client's screen                                            *)

(* ChatRoom mounts: it asks for the history and sends JOIN_ROOM.            *)
Open(c) ==
  /\ load[c] = "closed"
  /\ load' = [load EXCEPT ![c] = "asked"]
  /\ joining' = joining \union {c}
  /\ UNCHANGED <<queue, work, table, viewing, net, answer, list, erasing, extra>>

(* handleJoin puts the socket in the room.                                  *)
Join(c) ==
  /\ c \in joining
  /\ joining' = joining \ {c}
  /\ viewing' = viewing \union {c}
  /\ UNCHANGED <<queue, work, table, net, page, erasing, extra>>

(* findMessages.                                                            *)
FindMessages(c) ==
  /\ load[c] = "asked"
  /\ load' = [load EXCEPT ![c] = "answered"]
  /\ answer' = [answer EXCEPT ![c] = Only(created, alive)]
  /\ UNCHANGED <<queue, work, table, room, net, list, erasing, extra>>

(* loadMessages: setMessages(newMessages).                                  *)
ShowMessages(c) ==
  /\ load[c] = "answered"
  /\ load' = [load EXCEPT ![c] = "done"]
  /\ list' = [list EXCEPT ![c] = answer[c]]
  /\ answer' = [answer EXCEPT ![c] = <<>>]
  /\ UNCHANGED <<queue, work, table, room, net, erasing, extra>>

(* addMessage and deleteMessage, on NEW_MESSAGE and MESSAGE_DELETED.        *)
Receive(c) ==
  /\ inbox[c] # <<>>
  /\ inbox' = [inbox EXCEPT ![c] = Tail(@)]
  /\ LET e == Head(inbox[c])
     IN list' = [list EXCEPT ![c] = IF e.kind = "new" THEN Append(@, e.row)
                                                      ELSE Without(@, e.row)]
  /\ UNCHANGED <<queue, work, table, room, wire, load, answer, erasing, extra>>

-----------------------------------------------------------------------------
Process(m) == Create(m) \/ Mark(m) \/ MarkSender(m) \/ Finish(m)
BullMQ(m) == Retry(m) \/ Stalled(m)
Erase(d) == DeleteRow(d) \/ EmitDeleted(d) \/ DeleteAnswered(d)
Screen(c) == Join(c) \/ FindMessages(c) \/ ShowMessages(c)

Next ==
  \/ \E m \in Sends, later \in BOOLEAN : Send(m, later)
  \/ \E m \in Sends : Process(m) \/ Fail(m) \/ BullMQ(m)
  \/ \E i \in Instances : Start(i) \/ Crash(i)
  \/ \E i, j \in Instances : Deliver(i, j)
  \/ \E i \in Instances, row \in Rows : RequestDelete(i, row)
  \/ \E d \in erasing : Erase(d)
  \/ \E c \in Clients : Open(c) \/ Screen(c) \/ Receive(c)

Spec == Init /\ [][Next]_vars

(* The database and Redis answer, workers poll, and connections deliver.    *)
FairSpec ==
  /\ Spec
  /\ \A m \in Sends : WF_vars(Process(m)) /\ WF_vars(BullMQ(m))
  /\ \A i \in Instances : WF_vars(Start(i))
  /\ \A i, j \in Instances : WF_vars(Deliver(i, j))
  /\ \A c \in Clients : WF_vars(Screen(c)) /\ WF_vars(Receive(c))

-----------------------------------------------------------------------------
(* Properties                                                               *)

(* Nothing is in progress but deletions of messages not yet carried out.    *)
Quiet ==
  /\ \A m \in Sends : job[m] \in {"unsent", "completed", "failed", "dropped"}
  /\ \A ij \in Instances \X Instances : wire[ij] = <<>>
  /\ \A c \in Clients : inbox[c] = <<>> /\ load[c] \in {"closed", "done"}
  /\ joining = {} /\ erasing = {}

(* Once everything has settled, a client that looks at the room has every   *)
(* stored copy that process() has finished with on the screen.              *)
NothingMissed ==
  Quiet => \A c \in viewing : \A m \in Sends :
    job[m] = "completed" /\ [msg |-> m, copy |-> made[m]] \in alive
      => [msg |-> m, copy |-> made[m]] \in Shown(c)

(* Once everything has settled, no client that looks at the room still      *)
(* shows a message that has been deleted.                                   *)
NothingDeleted == Quiet => \A c \in viewing : Shown(c) \subseteq alive

(* No client that had the room on screen before the first message shows the *)
(* same stored message twice, although every instance broadcasts to it.     *)
NothingTwice ==
  \A c \in Clients : \A n, k \in DOMAIN list[c] : list[c][n] = list[c][k] => n = k

(* An answer follows what it answers: of two clients of one instance, each  *)
(* with the room on screen from the start, neither shows a message before   *)
(* one that the sender had on its screen when it sent it, whichever         *)
(* instances process and broadcast the two, and however often they try.     *)
AnswersFollow ==
  \A m \in Sends, c \in Clients : HostOf[c] = HostOf[AuthorOf[m]] =>
    \A n, k \in DOMAIN list[c] :
      list[c][n].msg = m /\ list[c][k] \in seen[m] => k < n

(* However often a message is retried or its worker dies, it is stored at   *)
(* most Attempts + MaxStalls times, and a job that completed is stored.     *)
Stored ==
  \A m \in Sends :
    /\ made[m] <= Attempts + MaxStalls
    /\ job[m] = "completed" => made[m] > 0

(* Every message sent is eventually shown to each client that stays, unless *)
(* its job failed or the message was deleted: no job is stuck for good.     *)
Arrives ==
  \A m \in Sends : \A c \in Clients :
    job[m] = "waiting" ~>
      \/ job[m] = "failed" \/ c \notin viewing
      \/ \E r \in Shown(c) : r.msg = m

(* Delivery keeps the promise of AtLeastOnce, liveness included: whatever   *)
(* the retries, stalls, crashes and broadcasts, a step stores a copy of an  *)
(* accepted message, or ends it, or changes what one screen shows of the    *)
(* stored ones, or changes nothing of that; and no message stays accepted.  *)
FateOf(state) == CASE state \in {"waiting", "active", "delayed"} -> "accepted"
                   [] state = "completed" -> "done"
                   [] state = "dropped" -> "refused"
                   [] OTHER -> state
Promise == INSTANCE AtLeastOnce WITH
  Messages <- Sends, Screens <- Clients, MaxCopies <- Copies,
  fate <- [m \in Sends |-> FateOf(job[m])], copies <- made,
  shown <- [c \in Clients |-> Shown(c)]
KeepsPromise == Promise!FairSpec
=============================================================================
