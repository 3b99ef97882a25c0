------------------------------ MODULE LoadTest ------------------------------
(***************************************************************************)
(* The load test of the project (websocket-load-test.js): it registers and *)
(* logs in its clients in batches, connects them, creates rooms, lets the  *)
(* clients join them and send messages, counts what comes back, and closes *)
(* everything.  The server is external: it may do anything at any time, or *)
(* nothing at all.                                                         *)
(***************************************************************************)
EXTENDS Integers, Sequences, FiniteSets, SequencesExt, FiniteSetsExt

CONSTANTS Number, BatchSize, RoomNames, PerClient, MaxDrops

Users == 1 .. Number
NoRoom == 0

ASSUME LoadTestAssumption ==
  /\ Number \in Nat \ {0} /\ BatchSize \in Nat \ {0} /\ PerClient \in Nat
  /\ RoomNames \in Nat /\ MaxDrops \in Nat

VARIABLES
  phase,        \* where runLoadTest is
  batch,        \* the last user of the batch that is being connected
  step,         \* createAuthenticatedClient of each user; "ok" is resolved
  mock, token, socket,
  clients,      \* this.clients, by user
  valid,        \* validClients of the phase
  names,        \* rooms whose creation has been tried
  rooms,        \* createdRooms, numbered
  current,      \* currentRoomId
  timers,       \* the messages to send: entry of valid, number
  stamps,       \* messageTimestamps, by user and number
  posted,       \* the messages the server has, and has not broadcast
  connected, errors, timeouts, sent, received, latencies,   \* metrics
  drops

account == <<mock, token>>
test == <<clients, valid, names, rooms, current>>
traffic == <<timers, stamps, posted>>
counts == <<connected, errors, timeouts>>
metrics == <<sent, received, latencies>>
vars == <<phase, batch, step, account, socket, test, traffic, counts, metrics, drops>>

Init ==
  /\ phase = "connect" /\ batch = 0
  /\ step = [u \in Users |-> "todo"] /\ mock = {} /\ token = {}
  /\ socket = [u \in Users |-> "none"]
  /\ clients = <<>> /\ valid = <<>> /\ names = 0 /\ rooms = 0
  /\ current = [u \in Users |-> NoRoom]
  /\ timers = {} /\ stamps = {} /\ posted = <<>>
  /\ connected = 0 /\ errors = 0 /\ timeouts = 0
  /\ sent = 0 /\ received = 0 /\ latencies = 0 /\ drops = 0
-----------------------------------------------------------------------------
(* connectClients.                                                          *)

InBatch == {u \in Users : u <= batch /\ u > batch - BatchSize}

StartBatch ==
  /\ phase = "connect" /\ batch < Number
  /\ \A u \in Users : u <= batch => step[u] = "ok"
  /\ batch' = batch + BatchSize
  /\ step' = [u \in Users |-> IF u > batch /\ u <= batch' THEN "register" ELSE step[u]]
  /\ clients' = clients \o [k \in 1 .. Cardinality(InBatch) |-> batch - BatchSize + k]
  /\ UNCHANGED <<phase, account, socket, valid, names, rooms, current, traffic,
                 counts, metrics, drops>>

(* Each client has been put in the list when it resolved, and is put there  *)
(* again with its batch.                                                    *)
EndBatches ==
  /\ phase = "connect" /\ batch >= Number
  /\ \A u \in Users : step[u] = "ok"
  /\ clients' = clients \o [k \in 1 .. Cardinality(InBatch) |-> batch - BatchSize + k]
  /\ phase' = "rooms"
  /\ valid' = SelectSeq(clients', LAMBDA u : u \notin mock /\ u \in token
                                              /\ socket[u] = "open")
  /\ UNCHANGED <<batch, step, account, socket, names, rooms, current, traffic,
                 counts, metrics, drops>>

(* createRealUser, loginUser and getUserData succeed, ...                   *)
Answer(u) ==
  /\ step[u] \in {"register", "login", "me"}
  /\ step' = [step EXCEPT ![u] = CASE @ = "register" -> "login" [] @ = "login" -> "me"
                                   [] OTHER -> "dial"]
  /\ token' \in (IF step[u] = "login" THEN {token, token \union {u}} ELSE {token})
  /\ socket' = IF step[u] = "me" THEN [socket EXCEPT ![u] = "dialing"] ELSE socket
  /\ UNCHANGED <<phase, batch, mock, test, traffic, counts, metrics, drops>>

Resolve(u) == step' = [step EXCEPT ![u] = "ok"] /\ clients' = Append(clients, u)
Mock(u) == Resolve(u) /\ mock' = mock \union {u} /\ errors' = errors + 1

(* ... or fail, at the latest after ten seconds.                            *)
Fail(u) ==
  \/ /\ step[u] \in {"register", "login"}
     /\ Mock(u)
     /\ UNCHANGED <<phase, batch, token, socket, valid, names, rooms, current,
                    traffic, connected, timeouts, metrics, drops>>
  \/ /\ step[u] = "me"
     /\ step' = [step EXCEPT ![u] = "dial"]
     /\ socket' = [socket EXCEPT ![u] = "dialing"]
     /\ UNCHANGED <<phase, batch, account, test, traffic, counts, metrics, drops>>

(* The handler of connect; without a token the server refuses, and nobody   *)
(* listens to connect_error yet.                                            *)
Connect(u) ==
  /\ socket[u] = "dialing" /\ u \in token
  /\ socket' = [socket EXCEPT ![u] = "open"]
  /\ IF step[u] = "dial" THEN Resolve(u) /\ connected' = connected + 1
     ELSE UNCHANGED <<step, clients, connected>>
  /\ UNCHANGED <<phase, batch, account, valid, names, rooms, current, traffic,
                 errors, timeouts, metrics, drops>>

(* Mutants: the socket stays; the timer is not stopped by a connection.     *)
TimedOutOnly(u) ==
  /\ step[u] = "dial"
  /\ Mock(u)
  /\ timeouts' = timeouts + 1
  /\ UNCHANGED <<phase, batch, token, socket, valid, names, rooms, current,
                 traffic, connected, metrics, drops>>
NeverTimesOut(u) == step[u] = "dial" /\ UNCHANGED vars
TimedOutAgain(u) ==
  /\ step[u] = "dial" \/ (socket[u] = "open" /\ u \notin mock)
  /\ Mock(u)
  /\ timeouts' = timeouts + 1
  /\ socket' = [socket EXCEPT ![u] = "closed"]
  /\ UNCHANGED <<phase, batch, token, valid, names, rooms, current, traffic,
                 connected, metrics, drops>>

(* The timer of twenty seconds.                                             *)
TimedOut(u) ==
  /\ step[u] = "dial"
  /\ Mock(u)
  /\ timeouts' = timeouts + 1
  /\ socket' = [socket EXCEPT ![u] = "closed"]
  /\ UNCHANGED <<phase, batch, token, valid, names, rooms, current, traffic,
                 connected, metrics, drops>>
-----------------------------------------------------------------------------
(* simulateJoinRooms.                                                       *)

(* Of the clients, those with a connection and a room send.                 *)
Senders(room) ==
  SelectSeq(clients, LAMBDA u : u \notin mock /\ socket[u] = "open" /\ room[u] # NoRoom)
StartSending(room) ==
  /\ phase' = "send"
  /\ valid' = Senders(room)
  /\ timers' = (DOMAIN Senders(room)) \X (1 .. PerClient)

NoValidClient ==
  /\ phase = "rooms" /\ valid = <<>>
  /\ StartSending(current)
  /\ UNCHANGED <<batch, step, account, socket, clients, names, rooms, current,
                 stamps, posted, counts, metrics, drops>>

(* createRealRoom works or not; that the creator joins changes nothing here.*)
CreateRoom(ok) ==
  /\ phase = "rooms" /\ valid # <<>> /\ names < RoomNames
  /\ names' = names + 1
  /\ rooms' = IF ok THEN rooms + 1 ELSE rooms
  /\ UNCHANGED <<phase, batch, step, account, socket, clients, valid, current,
                 traffic, counts, metrics, drops>>

(* The clients are dealt to the rooms one after the other, whatever the     *)
(* server says.  A client is dealt twice, and the second time counts.       *)
JoinRoom ==
  /\ phase = "rooms" /\ valid # <<>> /\ names = RoomNames
  /\ LET deal[k \in 0 .. Len(valid)] ==
           IF k = 0 THEN current
           ELSE [deal[k - 1] EXCEPT ![valid[k]] =
                   IF rooms = 0 THEN NoRoom ELSE ((k - 1) % rooms) + 1]
     IN current' = deal[Len(valid)] /\ StartSending(current')
  /\ UNCHANGED <<batch, step, account, socket, clients, names, rooms, stamps,
                 posted, counts, metrics, drops>>
-----------------------------------------------------------------------------
(* simulateMessages.                                                        *)

(* A timer.  What a closed socket emits is counted, and goes nowhere.       *)
Send(t) ==
  /\ t \in timers
  /\ timers' = timers \ {t}
  /\ LET key == <<valid[t[1]], t[2]>> IN
     /\ stamps' = stamps \union {key}
     /\ posted' = IF socket[key[1]] = "open" THEN Append(posted, key) ELSE posted
  /\ sent' = sent + 1
  /\ UNCHANGED <<phase, batch, step, account, socket, test, counts, received,
                 latencies, drops>>

Hearers(r) == {u \in Users : u \notin mock /\ socket[u] = "open" /\ current[u] = r}

Measure(key) == /\ stamps' = stamps \ {key}
                /\ latencies' = IF key \in stamps THEN latencies + 1 ELSE latencies

(* The server broadcasts a message; the handlers of newMessage.  The first  *)
(* client that hears it measures.                                           *)
Broadcast ==
  /\ posted # <<>>
  /\ LET key == Head(posted) IN LET n == Cardinality(Hearers(current[key[1]])) IN
     /\ received' = received + n
     /\ IF n = 0 THEN UNCHANGED <<stamps, latencies>> ELSE Measure(key)
  /\ posted' = Tail(posted)
  /\ UNCHANGED <<phase, batch, step, account, socket, test, timers, counts, sent, drops>>

(* Five seconds later, heard or not.                                        *)
EndSending ==
  /\ phase = "send" /\ timers = {}
  /\ phase' = "cleanup"
  /\ UNCHANGED <<batch, step, account, socket, test, traffic, counts, metrics, drops>>

Drop(u) ==
  /\ socket[u] = "open" /\ drops < MaxDrops
  /\ drops' = drops + 1
  /\ socket' = [socket EXCEPT ![u] = "closed"]
  /\ UNCHANGED <<phase, batch, step, account, test, traffic, counts, metrics>>

(* cleanup closes the clients of the list that are not mocks.               *)
Cleanup ==
  /\ phase = "cleanup"
  /\ phase' = "done"
  /\ socket' = [u \in Users |-> IF u \in Range(clients) \ mock THEN "closed"
                                ELSE socket[u]]
  /\ UNCHANGED <<batch, step, account, test, traffic, counts, metrics, drops>>
-----------------------------------------------------------------------------
Script ==
  \/ StartBatch \/ EndBatches \/ NoValidClient \/ CreateRoom(FALSE) \/ JoinRoom
  \/ EndSending \/ Cleanup
  \/ \E u \in Users : Fail(u) \/ TimedOut(u)
  \/ \E t \in timers : Send(t)

Next == \/ Script \/ CreateRoom(TRUE) \/ Broadcast
        \/ \E u \in Users : Answer(u) \/ Connect(u) \/ Drop(u)

Spec == Init /\ [][Next]_vars

(* The timers of the script are fair; the server promises nothing.          *)
FairSpec == Spec /\ WF_vars(Script)
-----------------------------------------------------------------------------
(* The report adds up: every client is counted once, as connected or as an  *)
(* error, however its requests, its connection and its timer race; and a    *)
(* message gives one measure at most, whoever hears it.  (Each message is   *)
(* sent twice, by the two entries of its client, under the same key: the    *)
(* measures are then of the wrong one.)                                     *)
Accounted ==
  /\ phase # "connect" => connected + errors = Number
  /\ latencies + Cardinality(stamps) <= sent

(* When the test is over, it has left no connection behind, and none is on  *)
(* its way.                                                                 *)
NothingLeft == phase = "done" => \A u \in Users : socket[u] \notin {"dialing", "open"}

(* The test ends, even if the server never answers anything.                *)
Ends == <>(phase = "done")
=============================================================================
