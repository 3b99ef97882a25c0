---------------------------- MODULE SideProofs -----------------------------
(* Proofs about the two parts that stand on their own: LoadTest, for any    *)
(* number of clients, batches, rooms and messages and for any server, and   *)
(* JoinDialog, for any number of rooms, of acts of the user and of errors.  *)
EXTENDS LoadTest, JoinDialog, ListProofs

(***************************************************************************)
(* The load test.                                                          *)
(***************************************************************************)
Resolved == {u \in Users : step[u] = "ok"}
Listed(u) == \E k \in 1 .. Len(clients) : clients[k] = u

Typed ==
  /\ batch \in Nat /\ clients \in Seq(Int)
  /\ step \in [Users -> {"todo", "register", "login", "me", "dial", "ok"}]
  /\ socket \in [Users -> {"none", "dialing", "open", "closed"}]
  /\ connected \in Nat /\ errors \in Nat

(* Each client that has been resolved was counted once.                     *)
Reported ==
  /\ \A u \in Users : u > batch => step[u] = "todo"
  /\ phase # "connect" => Resolved = Users
  /\ connected + errors = Cardinality(Resolved)

(* A connection, or one on its way, belongs to a client that cleanup closes,*)
(* or that is still to be resolved.                                         *)
Held ==
  \A u \in Users :
    /\ socket[u] = "dialing" => step[u] = "dial"
    /\ socket[u] = "open" => step[u] = "ok" /\ u \notin mock
    /\ step[u] = "ok" => Listed(u)
    /\ u \in mock => step[u] = "ok"

(* A measure needs a message that was sent, and takes its stamp.            *)
Measured ==
  /\ sent \in Nat /\ latencies \in Nat /\ IsFiniteSet(stamps)
  /\ latencies + Cardinality(stamps) <= sent

Tested == Typed /\ Reported /\ Held /\ Measured

-----------------------------------------------------------------------------
LEMMA ManyUsers == IsFiniteSet(Users) /\ Cardinality(Users) = Number
<1>1. 1 \in Int /\ Number \in Int /\ Number > 0
  BY LoadTestAssumption
<1>2. IsFiniteSet(1 .. Number) /\ Cardinality(1 .. Number) = Number
  BY <1>1, FS_Interval
<1>3. QED
  BY <1>2 DEF Users

(* A client is resolved: it is counted, and it is in the list.              *)
LEMMA OneMore ==
  ASSUME Tested, NEW u \in Users, step[u] # "ok", Resolve(u), batch' = batch, phase' = phase,
         step[u] # "todo",
         connected' \in Nat, errors' \in Nat, connected' + errors' = connected + errors + 1,
         \/ /\ mock' = mock \union {u} /\ socket'[u] \notin {"dialing", "open"}
            /\ socket' = socket \/ socket' = [socket EXCEPT ![u] = "closed"]
         \/ mock' = mock /\ socket' = [socket EXCEPT ![u] = "open"]
  PROVE  Typed' /\ Reported' /\ Held'
<1>1. /\ step' = [step EXCEPT ![u] = "ok"] /\ clients' = Append(clients, u)
      /\ u \in Int /\ clients \in Seq(Int) /\ Typed
  BY DEF Resolve, Users, Tested, Typed
<1>2. /\ clients' \in Seq(Int) /\ Len(clients) + 1 \in 1 .. Len(clients')
      /\ clients'[Len(clients) + 1] = u
      /\ \A n \in 1 .. Len(clients) : n \in 1 .. Len(clients') /\ clients'[n] = clients[n]
  BY <1>1, AppendAt
<1>3. Typed'
  BY <1>1, <1>2 DEF Typed
<1>4. Resolved' = Resolved \union {u} /\ u \notin Resolved
  BY <1>1 DEF Resolved, Typed
<1>5. IsFiniteSet(Resolved)
  BY ManyUsers, FS_Subset DEF Resolved
<1>6. Cardinality(Resolved') = Cardinality(Resolved) + 1
  BY <1>4, <1>5, FS_AddElement
<1>7. Reported'
  <2>1. \A x \in Users : x > batch => x # u
    BY DEF Tested, Reported
  <2>2. phase # "connect" => Resolved' = Users
    BY <1>4 DEF Tested, Reported, Resolved
  <2>3. QED
    BY <1>1, <1>6, <2>1, <2>2 DEF Tested, Reported, Typed
<1>8. Held'
  <2>1. ASSUME NEW x \in Users, Listed(x) \/ x = u PROVE Listed(x)'
    BY <1>2, <2>1 DEF Listed
  <2>2. ASSUME NEW x \in Users, x # u
        PROVE  step'[x] = step[x] /\ socket'[x] = socket[x] /\ (x \in mock' <=> x \in mock)
    BY <1>1, <2>2 DEF Typed
  <2>3. step'[u] = "ok" /\ socket'[u] # "dialing" /\ (socket'[u] = "open" => u \notin mock')
    BY <1>1 DEF Typed, Tested, Held
  <2>4. QED
    BY <2>1, <2>2, <2>3 DEF Tested, Held
<1>9. QED
  BY <1>3, <1>7, <1>8

(* A step of the later phases, of which only Cleanup and Drop close.        *)
LEMMA LaterNext ==
  ASSUME Tested, UNCHANGED <<batch, step, mock, connected, errors, clients>>,
         phase' = phase \/ phase # "connect",
         \A u \in Users : socket'[u] = socket[u] \/ socket'[u] = "closed",
         socket' \in [Users -> {"none", "dialing", "open", "closed"}]
  PROVE  Typed' /\ Reported' /\ Held'
<1>1. Typed'
  BY DEF Tested, Typed
<1>2. Resolved' = Resolved /\ \A u : Listed(u)' = Listed(u)
  BY DEF Resolved, Listed
<1>3. Reported'
  BY <1>2 DEF Tested, Reported
<1>4. Held'
  BY <1>2 DEF Tested, Held
<1>5. QED
  BY <1>1, <1>3, <1>4

(* More clients in the list.                                                *)
LEMMA ListGrows ==
  ASSUME Typed, clients' = clients \o [k \in 1 .. Cardinality(InBatch) |-> batch - BatchSize + k]
  PROVE  clients' \in Seq(Int) /\ \A u : Listed(u) => Listed(u)'
<1> DEFINE more == [k \in 1 .. Cardinality(InBatch) |-> batch - BatchSize + k]
<1>1. Cardinality(InBatch) \in Nat
  BY ManyUsers, FS_Subset, FS_CardinalityType DEF InBatch
<1>2. \A k \in 1 .. Cardinality(InBatch) : batch - BatchSize + k \in Int
  BY LoadTestAssumption DEF Typed
<1>3. more \in Seq(Int)
  BY <1>1, <1>2
<1>4. clients \in Seq(Int) /\ Len(clients) \in Nat /\ clients' = clients \o more
  BY DEF Typed
<1> HIDE DEF more
<1>5. /\ clients' \in Seq(Int) /\ Len(more) \in Nat
      /\ Len(clients') = Len(clients) + Len(more)
      /\ \A i \in 1 .. Len(clients) + Len(more) :
           clients'[i] = IF i <= Len(clients) THEN clients[i] ELSE more[i - Len(clients)]
  <2>1. Len(more) \in Nat
    BY <1>3
  <2>2. /\ clients \o more \in Seq(Int) /\ Len(clients \o more) = Len(clients) + Len(more)
        /\ \A i \in 1 .. Len(clients) + Len(more) : (clients \o more)[i] =
             IF i <= Len(clients) THEN clients[i] ELSE more[i - Len(clients)]
    BY <1>3, <1>4, ConcatProperties
  <2>3. QED
    BY <1>4, <2>1, <2>2
<1>6. \A n \in 1 .. Len(clients) : n \in 1 .. Len(clients') /\ clients'[n] = clients[n]
  <2>1. ASSUME NEW n \in 1 .. Len(clients)
        PROVE  n \in 1 .. Len(clients') /\ clients'[n] = clients[n]
    <3>1. n \in 1 .. Len(clients) + Len(more) /\ n <= Len(clients)
      BY <1>4, <1>5
    <3>2. QED
      BY <1>5, <3>1
  <2>2. QED
    BY <2>1
<1>7. QED
  BY <1>5, <1>6 DEF Listed

LEMMA BatchNext ==
  ASSUME Tested, StartBatch
  PROVE  Typed' /\ Reported' /\ Held'
<1>1. /\ phase = "connect" /\ phase' = phase /\ \A u \in Users : u <= batch => step[u] = "ok"
      /\ batch' = batch + BatchSize
      /\ step' = [u \in Users |-> IF u > batch /\ u <= batch' THEN "register" ELSE step[u]]
      /\ UNCHANGED <<mock, socket, connected, errors>>
  BY DEF StartBatch, account, counts
<1>2. batch \in Nat /\ batch' \in Nat /\ batch < batch' /\ Typed
      /\ \A u \in Users : u \in Int
  BY <1>1, LoadTestAssumption DEF Tested, Typed, Users
<1>3. clients' \in Seq(Int) /\ \A u : Listed(u) => Listed(u)'
  BY <1>2, ListGrows DEF StartBatch
<1>4. ASSUME NEW u \in Users
      PROVE  /\ u > batch => step[u] = "todo" /\ step'[u] \in {"todo", "register"}
             /\ u > batch' => step'[u] = "todo"
             /\ ~(u > batch) => step'[u] = step[u]
  BY <1>1, <1>2 DEF Tested, Reported
<1>5. Typed'
  BY <1>1, <1>2, <1>3 DEF Tested, Typed
<1>6. Resolved' = Resolved
  BY <1>4 DEF Resolved
<1>7. Reported'
  BY <1>1, <1>4, <1>6 DEF Tested, Reported
<1>8. Held'
  <2>1. ASSUME NEW u \in Users, socket[u] \in {"dialing", "open"} PROVE ~(u > batch)
    BY <1>4, <2>1 DEF Tested, Held
  <2>2. ASSUME NEW u \in Users, step'[u] = "ok" PROVE step[u] = "ok"
    BY <1>4, <2>2
  <2>3. QED
    BY <1>1, <1>3, <1>4, <2>1, <2>2 DEF Tested, Held
<1>9. QED
  BY <1>5, <1>7, <1>8

LEMMA EndBatchesNext ==
  ASSUME Tested, EndBatches
  PROVE  Typed' /\ Reported' /\ Held'
<1>1. /\ \A u \in Users : step[u] = "ok"
      /\ UNCHANGED <<batch, step, mock, socket, connected, errors>>
      /\ clients' = clients \o [k \in 1 .. Cardinality(InBatch) |-> batch - BatchSize + k]
  BY DEF EndBatches, account, counts
<1>2. clients' \in Seq(Int) /\ \A u : Listed(u) => Listed(u)'
  BY <1>1, ListGrows DEF Tested
<1>3. Typed'
  BY <1>1, <1>2 DEF Tested, Typed
<1>4. Resolved' = Resolved /\ Resolved = Users
  BY <1>1 DEF Resolved
<1>5. Reported' /\ Held'
  BY <1>1, <1>2, <1>4 DEF Tested, Reported, Held
<1>6. QED
  BY <1>3, <1>5

LEMMA AccountNext ==
  ASSUME Tested, NEW u \in Users, Answer(u) \/ Fail(u) \/ Connect(u) \/ TimedOut(u)
  PROVE  Typed' /\ Reported' /\ Held'
<1>1. /\ step \in [Users -> {"todo", "register", "login", "me", "dial", "ok"}]
      /\ socket \in [Users -> {"none", "dialing", "open", "closed"}]
      /\ connected \in Nat /\ errors \in Nat
      /\ (socket[u] = "dialing" => step[u] = "dial")
      /\ (socket[u] = "open" => step[u] = "ok" /\ u \notin mock)
  BY DEF Tested, Typed, Held
(* The client goes on; it dials when its account is ready.                  *)
<1>2. ASSUME NEW s \in {"login", "me", "dial"}, step' = [step EXCEPT ![u] = s],
             step[u] \in {"register", "login", "me"},
             socket' = socket \/ (s = "dial" /\ socket' = [socket EXCEPT ![u] = "dialing"]),
             UNCHANGED <<phase, batch, clients, mock, connected, errors>>
      PROVE  Typed' /\ Reported' /\ Held'
  <2>1. Typed'
    BY <1>1, <1>2 DEF Tested, Typed
  <2>2. Resolved' = Resolved /\ \A x : Listed(x)' = Listed(x)
    BY <1>1, <1>2 DEF Resolved, Listed
  <2>3. \A x \in Users : x # u => step'[x] = step[x] /\ socket'[x] = socket[x]
    BY <1>1, <1>2
  <2>4. u > batch => step'[u] = "todo"
    BY <1>2 DEF Tested, Reported
  <2>5. Reported'
    BY <1>2, <2>2, <2>3, <2>4 DEF Tested, Reported
  <2>6. /\ step'[u] = s /\ socket'[u] # "open" /\ (socket'[u] = "dialing" => s = "dial")
    BY <1>1, <1>2
  <2>7. Held'
    BY <1>2, <2>2, <2>3, <2>6 DEF Tested, Held
  <2>8. QED
    BY <2>1, <2>5, <2>7
<1>3. CASE Answer(u)
  <2>1. /\ step[u] \in {"register", "login", "me"}
        /\ step' = [step EXCEPT ![u] = CASE step[u] = "register" -> "login"
                                         [] step[u] = "login" -> "me" [] OTHER -> "dial"]
        /\ socket' = IF step[u] = "me" THEN [socket EXCEPT ![u] = "dialing"] ELSE socket
        /\ UNCHANGED <<phase, batch, clients, mock, connected, errors>>
    BY <1>3 DEF Answer, test, counts
  <2>2. CASE step[u] = "register"
    BY <1>2, <2>1, <2>2
  <2>3. CASE step[u] = "login"
    BY <1>2, <2>1, <2>3
  <2>4. CASE step[u] = "me"
    BY <1>2, <2>1, <2>4
  <2>5. QED
    BY <2>1, <2>2, <2>3, <2>4
<1>4. CASE Fail(u)
  <2>1. CASE step[u] \in {"register", "login"} /\ Mock(u)
    <3>1. /\ Resolve(u) /\ mock' = mock \union {u} /\ errors' = errors + 1
          /\ UNCHANGED <<phase, batch, socket, connected>>
      BY <1>4, <2>1 DEF Fail, Mock
    <3>2. connected' \in Nat /\ errors' \in Nat /\ connected' + errors' = connected + errors + 1
      BY <1>1, <3>1
    <3>3. socket'[u] \notin {"dialing", "open"}
      BY <1>1, <2>1, <3>1
    <3>4. QED
      BY <2>1, <3>1, <3>2, <3>3, OneMore
  <2>2. CASE step[u] = "me"
    BY <1>2, <1>4, <2>2 DEF Fail, account, test, counts
  <2>3. QED
    BY <1>4, <2>1, <2>2 DEF Fail
<1>5. CASE Connect(u)
  <2>1. /\ step[u] = "dial" /\ Resolve(u) /\ connected' = connected + 1
        /\ socket' = [socket EXCEPT ![u] = "open"]
        /\ UNCHANGED <<phase, batch, mock, errors>>
    BY <1>1, <1>5 DEF Connect, account
  <2>2. connected' \in Nat /\ errors' \in Nat /\ connected' + errors' = connected + errors + 1
    BY <1>1, <2>1
  <2>3. u \notin mock
    BY <2>1 DEF Tested, Held
  <2>4. QED
    BY <2>1, <2>2, <2>3, OneMore
<1>6. CASE TimedOut(u)
  <2>1. /\ step[u] = "dial" /\ Resolve(u) /\ mock' = mock \union {u} /\ errors' = errors + 1
        /\ socket' = [socket EXCEPT ![u] = "closed"]
        /\ UNCHANGED <<phase, batch, connected>>
    BY <1>6 DEF TimedOut, Mock
  <2>2. connected' \in Nat /\ errors' \in Nat /\ connected' + errors' = connected + errors + 1
    BY <1>1, <2>1
  <2>3. socket'[u] = "closed"
    BY <1>1, <2>1
  <2>4. QED
    BY <2>1, <2>2, <2>3, OneMore
<1>7. QED
  BY <1>3, <1>4, <1>5, <1>6

-----------------------------------------------------------------------------
(* The messages and their stamps.                                           *)

LEMMA MeasuredNext ==
  ASSUME Measured, [Next]_vars
  PROVE  Measured'
<1>1. sent \in Nat /\ latencies \in Nat /\ IsFiniteSet(stamps) /\ Cardinality(stamps) \in Nat
  BY FS_CardinalityType DEF Measured
<1>2. CASE UNCHANGED <<sent, latencies, stamps>>
  BY <1>2 DEF Measured
<1>3. ASSUME NEW t \in timers, Send(t) PROVE Measured'
  <2>1. PICK key : stamps' = stamps \union {key} /\ sent' = sent + 1 /\ latencies' = latencies
    BY <1>3 DEF Send
  <2>2. /\ IsFiniteSet(stamps \union {key})
        /\ Cardinality(stamps \union {key}) =
             IF key \in stamps THEN Cardinality(stamps) ELSE Cardinality(stamps) + 1
    BY <1>1, FS_AddElement
  <2>3. QED
    BY <1>1, <2>1, <2>2 DEF Measured
<1>4. CASE Broadcast
  <2>1. sent' = sent /\ (UNCHANGED <<stamps, latencies>> \/ \E key : Measure(key))
    BY <1>4 DEF Broadcast
  <2>2. ASSUME NEW key, Measure(key) PROVE Measured'
    <3>1. /\ stamps' = stamps \ {key}
          /\ latencies' = IF key \in stamps THEN latencies + 1 ELSE latencies
      BY <2>2 DEF Measure
    <3>2. /\ IsFiniteSet(stamps \ {key})
          /\ Cardinality(stamps \ {key}) =
               IF key \in stamps THEN Cardinality(stamps) - 1 ELSE Cardinality(stamps)
      BY <1>1, FS_RemoveElement
    <3>3. QED
      BY <1>1, <2>1, <3>1, <3>2 DEF Measured
  <2>3. QED
    BY <1>2, <2>1, <2>2
<1>5. UNCHANGED <<sent, latencies, stamps>> \/ (\E t \in timers : Send(t)) \/ Broadcast
  <2>1. ASSUME \E u \in Users : Fail(u) \/ TimedOut(u) \/ Answer(u) \/ Connect(u) \/ Drop(u)
        PROVE  UNCHANGED <<sent, latencies, stamps>>
    BY <2>1 DEF Fail, TimedOut, Answer, Connect, Drop, metrics, traffic
  <2>2. ASSUME StartBatch \/ EndBatches \/ Cleanup PROVE UNCHANGED <<sent, latencies, stamps>>
    BY <2>2 DEF StartBatch, EndBatches, Cleanup, metrics, traffic
  <2>3. ASSUME NoValidClient \/ JoinRoom \/ EndSending \/ CreateRoom(TRUE) \/ CreateRoom(FALSE)
        PROVE  UNCHANGED <<sent, latencies, stamps>>
    BY <2>3 DEF NoValidClient, JoinRoom, EndSending, CreateRoom, metrics, traffic
  <2>4. ASSUME UNCHANGED vars PROVE UNCHANGED <<sent, latencies, stamps>>
    BY <2>4 DEF vars, metrics, traffic
  <2>5. QED
    BY <2>1, <2>2, <2>3, <2>4 DEF Next, Script
<1>6. QED
  BY <1>2, <1>3, <1>4, <1>5

LEMMA TestedNext == Tested /\ [Next]_vars => Tested'
<1> SUFFICES ASSUME Tested, [Next]_vars PROVE Typed' /\ Reported' /\ Held'
  BY MeasuredNext DEF Tested
<1>1. ASSUME UNCHANGED <<batch, step, mock, connected, errors, clients, socket>>,
             phase' = phase \/ phase # "connect"
      PROVE  Typed' /\ Reported' /\ Held'
  BY <1>1, LaterNext DEF Tested, Typed
<1>2. ASSUME NoValidClient \/ JoinRoom PROVE Typed' /\ Reported' /\ Held'
  BY <1>1, <1>2 DEF NoValidClient, JoinRoom, account, counts
<1>3. ASSUME CreateRoom(TRUE) \/ CreateRoom(FALSE) PROVE Typed' /\ Reported' /\ Held'
  BY <1>1, <1>3 DEF CreateRoom, account, counts
<1>4. ASSUME EndSending PROVE Typed' /\ Reported' /\ Held'
  BY <1>1, <1>4 DEF EndSending, account, test, counts
<1>5. ASSUME NEW t \in timers, Send(t) PROVE Typed' /\ Reported' /\ Held'
  BY <1>1, <1>5 DEF Send, account, test, counts
<1>6. ASSUME Broadcast PROVE Typed' /\ Reported' /\ Held'
  BY <1>1, <1>6 DEF Broadcast, account, test, counts
<1>7. ASSUME NEW u \in Users, Drop(u) PROVE Typed' /\ Reported' /\ Held'
  <2>1. /\ UNCHANGED <<batch, step, mock, connected, errors, clients>> /\ phase' = phase
        /\ socket' = [socket EXCEPT ![u] = "closed"]
    BY <1>7 DEF Drop, account, test, counts
  <2>2. /\ \A x \in Users : socket'[x] = socket[x] \/ socket'[x] = "closed"
        /\ socket' \in [Users -> {"none", "dialing", "open", "closed"}]
    BY <2>1 DEF Tested, Typed
  <2>3. QED
    BY <2>1, <2>2, LaterNext
<1>8. ASSUME Cleanup PROVE Typed' /\ Reported' /\ Held'
  <2>1. /\ UNCHANGED <<batch, step, mock, connected, errors, clients>> /\ phase # "connect"
        /\ \A x \in Users : socket'[x] = socket[x] \/ socket'[x] = "closed"
    BY <1>8 DEF Cleanup, account, test, counts
  <2>2. socket' \in [Users -> {"none", "dialing", "open", "closed"}]
    BY <1>8 DEF Cleanup, Tested, Typed
  <2>3. QED
    BY <2>1, <2>2, LaterNext
<1>9. ASSUME UNCHANGED vars PROVE Typed' /\ Reported' /\ Held'
  BY <1>1, <1>9 DEF vars, account, test, counts
<1>10. QED
  BY <1>2, <1>3, <1>4, <1>5, <1>6, <1>7, <1>8, <1>9, BatchNext, EndBatchesNext, AccountNext
  DEF Next, Script

LEMMA TestedInit == Init => Tested
<1> SUFFICES ASSUME Init PROVE Tested
  OBVIOUS
<1>1. Resolved = {}
  BY DEF Init, Resolved
<1>2. Cardinality({}) = 0 /\ IsFiniteSet({})
  BY FS_EmptySet
<1>3. Typed
  BY DEF Init, Typed
<1>4. Reported
  BY <1>1, <1>2 DEF Init, Reported
<1>5. Held /\ Measured
  BY <1>2 DEF Init, Held, Measured
<1>6. QED
  BY <1>3, <1>4, <1>5 DEF Tested

LEMMA AlwaysTested == Spec => []Tested
  BY TestedInit, TestedNext, PTL DEF Spec

(* The report of the load test adds up, for any number of clients, batches, *)
(* messages and dropped connections, and whatever the server does.          *)
THEOREM AddsUp == Spec => []Accounted
<1>1. Tested => Accounted
  BY ManyUsers DEF Tested, Reported, Measured, Accounted
<1>2. QED
  BY <1>1, AlwaysTested, PTL

(* When cleanup has run, every connection of the test is closed, and none   *)
(* opens any more: each belongs to a client that cleanup has in its list.   *)
THEOREM LeavesNothing == Spec => []NothingLeft
<1>1. Init => NothingLeft
  BY DEF Init, NothingLeft
<1>2. ASSUME Tested, NothingLeft, [Next]_vars PROVE NothingLeft'
  <2>1. SUFFICES ASSUME phase' = "done", NEW u \in Users
                 PROVE  socket'[u] \notin {"dialing", "open"}
    BY DEF NothingLeft
  <2>2. socket \in [Users -> {"none", "dialing", "open", "closed"}]
    BY <1>2 DEF Tested, Typed
  <2>3. CASE phase = "done"
    <3>1. \A x \in Users : socket[x] \notin {"dialing", "open"} /\ step[x] = "ok"
      BY <1>2, <2>3 DEF NothingLeft, Tested, Reported, Resolved
    <3>2. socket' = socket
      <4>1. ~StartBatch /\ ~EndBatches /\ ~NoValidClient /\ ~JoinRoom /\ ~EndSending /\ ~Cleanup
        BY <2>3 DEF StartBatch, EndBatches, NoValidClient, JoinRoom, EndSending, Cleanup
      <4>2. \A x \in Users : ~Answer(x) /\ ~Fail(x) /\ ~TimedOut(x) /\ ~Connect(x) /\ ~Drop(x)
        BY <3>1 DEF Answer, Fail, TimedOut, Connect, Drop
      <4>3. ASSUME NEW t \in timers, Send(t) PROVE socket' = socket
        BY <4>3 DEF Send
      <4>4. QED
        BY <1>2, <4>1, <4>2, <4>3 DEF Next, Script, CreateRoom, Broadcast, vars
    <3>3. QED
      BY <3>1, <3>2
  <2>4. CASE phase # "done"
    <3>1. Cleanup
      <4>1. ASSUME \E x \in Users : Fail(x) \/ TimedOut(x) \/ Answer(x) \/ Connect(x) \/ Drop(x)
            PROVE  phase' = phase
        BY <4>1 DEF Fail, TimedOut, Answer, Connect, Drop
      <4>2. ASSUME StartBatch \/ EndBatches \/ NoValidClient \/ JoinRoom \/ EndSending
            PROVE  phase' # "done"
        BY <2>4, <4>2 DEF StartBatch, EndBatches, NoValidClient, JoinRoom, EndSending,
           StartSending
      <4>3. ASSUME (\E t \in timers : Send(t)) \/ Broadcast PROVE phase' = phase
        BY <4>3 DEF Send, Broadcast
      <4>4. ASSUME CreateRoom(TRUE) \/ CreateRoom(FALSE) \/ UNCHANGED vars
            PROVE  phase' = phase
        BY <4>4 DEF CreateRoom, vars
      <4>5. QED
        BY <1>2, <2>1, <2>4, <4>1, <4>2, <4>3, <4>4 DEF Next, Script
    <3>2. step[u] = "ok" /\ Listed(u)
      BY <1>2, <3>1 DEF Cleanup, Tested, Reported, Resolved, Held
    <3>3. u \in Range(clients)
      <4>1. DOMAIN clients = 1 .. Len(clients)
        BY <1>2, LenProperties DEF Tested, Typed
      <4>2. QED
        BY <3>2, <4>1 DEF Listed, Range
    <3>4. socket'[u] = IF u \in Range(clients) \ mock THEN "closed" ELSE socket[u]
      BY <3>1 DEF Cleanup
    <3>5. u \in mock => socket[u] \notin {"dialing", "open"}
      BY <1>2, <3>2 DEF Tested, Held
    <3>6. QED
      BY <3>3, <3>4, <3>5
  <2>5. QED
    BY <2>3, <2>4
<1>3. QED
  BY <1>1, <1>2, AlwaysTested, PTL DEF Spec

(***************************************************************************)
(* The dialog.                                                             *)
(***************************************************************************)
(* The dialog: the types, and no room twice.                                *)

Downwards(q) == \A i, j \in 1 .. Len(q) : i < j => q[j] < q[i]
Single(q) == \A i, j \in 1 .. Len(q) : q[i] = q[j] => i = j

Fetches == [n : Nat, step : {"sent", "ok"}, text : BOOLEAN, same : BOOLEAN,
            cursor : Rooms \union {None}, found : Seq(Rooms), more : BOOLEAN]
FetchTyped(f) ==
  /\ f \in Fetches /\ Downwards(f.found)
  /\ f.step = "ok" /\ f.more => f.found # <<>>

Shelves ==
  /\ top \in 0 .. MaxRooms /\ joined \in SUBSET Rooms /\ joining \in SUBSET Rooms
  /\ isOpen \in BOOLEAN /\ search \in BOOLEAN /\ hasMore \in BOOLEAN
  /\ cursor \in Rooms \union {None}
  /\ timer.on \in BOOLEAN /\ timer.cursor \in Rooms \union {None}
  /\ started \in Nat /\ disturbed \in BOOLEAN
  /\ list \in Seq(Rooms) /\ Single(list)
  /\ \A f \in fetches : FetchTyped(f)

LEMMA RoomsAre ==
  /\ MaxRooms \in Nat /\ Rooms = 1 .. MaxRooms /\ None = 0 /\ Limit \in Nat \ {0}
  /\ Matching \in SUBSET Rooms /\ Rooms \in SUBSET Nat /\ None \notin Rooms
BY JoinDialogAssumption DEF Rooms, None

(* What a search finds is a set of rooms.                                   *)
LEMMA FoundIs ==
  ASSUME Shelves, NEW text
  PROVE  Found(text) \in SUBSET Rooms
BY RoomsAre DEF Found, Shelves

(* The page of findAll: the newest rooms, as many as the limit.             *)
Newer(rows) == Only([k \in Rooms |-> MaxRooms + 1 - k], rows)
Paged(rows) == SubSeq(Newer(rows), 1, IF Len(Newer(rows)) > Limit THEN Limit
                                      ELSE Len(Newer(rows)))

LEMMA PagedIs ==
  ASSUME NEW rows \in SUBSET Rooms
  PROVE  /\ Paged(rows) \in Seq(Rooms) /\ Downwards(Paged(rows))
         /\ Len(Newer(rows)) \in Nat
         /\ Len(Newer(rows)) > Limit => Paged(rows) # <<>>
         /\ Len(Newer(rows)) > Limit =>
              Range(Paged(rows)) = {r \in rows : Last(Paged(rows)) <= r}
         /\ ~(Len(Newer(rows)) > Limit) => Range(Paged(rows)) = rows
<1> DEFINE q == Newer(rows)
           n == IF Len(q) > Limit THEN Limit ELSE Len(q)
           p == SubSeq(q, 1, n)
<1>1. /\ q \in Seq(Rooms) /\ Len(q) \in Nat
      /\ \A i \in 1 .. Len(q) : q[i] \in rows
      /\ \A r \in rows : \E i \in 1 .. Len(q) : q[i] = r
      /\ \A i, j \in 1 .. Len(q) : i < j => q[j] < q[i]
  <2>1. LET o == Only([k \in Rooms |-> MaxRooms + 1 - k], rows) IN
        /\ o \in Seq(Rooms)
        /\ \A i \in 1 .. Len(o) : o[i] \in rows
        /\ \A r \in rows : \E i \in 1 .. Len(o) : o[i] = r
        /\ \A i, j \in 1 .. Len(o) : i < j => o[j] < o[i]
    BY NewestOnly, JoinDialogAssumption DEF Rooms
  <2>2. QED
    BY <2>1 DEF Newer
<1>2. p = Paged(rows) /\ q = Newer(rows)
  BY DEF Paged
<1> HIDE DEF q
<1>3. n \in Nat /\ n <= Len(q) /\ (Len(q) > Limit => n = Limit /\ n > 0)
  BY <1>1, RoomsAre
<1> HIDE DEF n
<1>4. p \in Seq(Rooms) /\ Len(p) = n /\ DOMAIN p = 1 .. n /\ \A i \in 1 .. n : p[i] = q[i]
  BY <1>1, <1>3
<1> HIDE DEF p
<1>5. Downwards(p)
  BY <1>1, <1>3, <1>4 DEF Downwards
<1>6. \A x : x \in Range(p) <=> \E i \in 1 .. n : q[i] = x
  BY <1>4 DEF Range
<1>7. \A i \in 1 .. n : q[i] \in rows
  BY <1>1, <1>3
<1>8. \A i \in 1 .. Len(q) : q[i] \in Nat
  BY <1>1, RoomsAre
<1>9. CASE Len(q) > Limit
  <2>1. n \in 1 .. n /\ Last(p) = q[n] /\ p # <<>>
    BY <1>3, <1>4, <1>9 DEF Last
  <2>2. ASSUME NEW i \in 1 .. Len(q) PROVE i <= n <=> q[n] <= q[i]
    <3>1. n \in 1 .. Len(q)
      BY <1>1, <1>3, <2>1
    <3>2. CASE i < n
      BY <1>1, <1>8, <3>1, <3>2
    <3>3. CASE n < i
      BY <1>1, <1>8, <3>1, <3>3
    <3>4. CASE i = n
      BY <1>8, <3>1, <3>4
    <3>5. QED
      BY <1>3, <3>2, <3>3, <3>4
  <2>3. ASSUME NEW r \in rows PROVE r \in Range(p) <=> Last(p) <= r
    <3>1. PICK i \in 1 .. Len(q) : q[i] = r
      BY <1>1
    <3>2. r \in Range(p) => Last(p) <= r
      <4>1. ASSUME NEW k \in 1 .. n, q[k] = r PROVE q[n] <= r
        <5>1. k \in 1 .. Len(q) /\ k <= n
          BY <1>1, <1>3
        <5>2. QED
          BY <2>2, <4>1, <5>1
      <4>2. QED
        BY <1>6, <2>1, <4>1
    <3>3. Last(p) <= r => r \in Range(p)
      <4>1. Last(p) <= r => i \in 1 .. n
        BY <2>1, <2>2, <3>1
      <4>2. QED
        BY <1>6, <3>1, <4>1
    <3>4. QED
      BY <3>2, <3>3
  <2>4. Range(p) = {r \in rows : Last(p) <= r}
    BY <1>6, <1>7, <2>3
  <2>5. QED
    BY <1>1, <1>2, <1>4, <1>5, <1>9, <2>1, <2>4
<1>10. CASE ~(Len(q) > Limit)
  <2>1. n = Len(q)
    BY <1>10 DEF n
  <2>2. Range(p) = rows
    BY <1>1, <1>6, <1>7, <2>1
  <2>3. QED
    BY <1>1, <1>2, <1>4, <1>5, <1>10, <2>2
<1>11. QED
  BY <1>9, <1>10

(* What is merged: the rooms found that the list has not yet.               *)
LEMMA MergeIs ==
  ASSUME NEW l \in Seq(Rooms), Single(l), NEW q \in Seq(Rooms), Downwards(q)
  PROVE  /\ l \o Only(q, Range(q) \ Range(l)) \in Seq(Rooms)
         /\ Single(l \o Only(q, Range(q) \ Range(l)))
         /\ Range(l \o Only(q, Range(q) \ Range(l))) = Range(l) \union Range(q)
<1> DEFINE S == Range(q) \ Range(l)
           o == Only(q, S)
           m == l \o o
<1>1. LET p == Only(q, S) IN
        /\ p \in Seq(Rooms)
        /\ \A i \in 1 .. Len(p) : p[i] \in S /\ \E k \in 1 .. Len(q) : q[k] = p[i]
        /\ \A k \in 1 .. Len(q) : q[k] \in S => \E i \in 1 .. Len(p) : p[i] = q[k]
        /\ \A i, j \in 1 .. Len(p) : i < j =>
             \E n, k \in 1 .. Len(q) : n < k /\ q[n] = p[i] /\ q[k] = p[j]
  <2> HIDE DEF S
  <2>1. QED
    BY OnlyKeeps
<1>2. /\ o \in Seq(Rooms) /\ Len(o) \in Nat /\ DOMAIN o = 1 .. Len(o)
      /\ \A i \in 1 .. Len(o) : o[i] \in S
      /\ \A k \in 1 .. Len(q) : q[k] \in S => \E i \in 1 .. Len(o) : o[i] = q[k]
      /\ \A i, j \in 1 .. Len(o) : i < j =>
           \E n, k \in 1 .. Len(q) : n < k /\ q[n] = o[i] /\ q[k] = o[j]
  <2> HIDE DEF S
  <2>1. QED
    BY <1>1
<1> HIDE DEF o
<1>3. /\ Len(l) \in Nat /\ DOMAIN l = 1 .. Len(l) /\ DOMAIN q = 1 .. Len(q) /\ Len(q) \in Nat
      /\ \A k \in 1 .. Len(q) : q[k] \in Nat
  BY RoomsAre
<1>4. /\ m \in Seq(Rooms) /\ Len(m) = Len(l) + Len(o) /\ DOMAIN m = 1 .. Len(l) + Len(o)
      /\ \A i \in 1 .. Len(l) + Len(o) : m[i] = IF i <= Len(l) THEN l[i] ELSE o[i - Len(l)]
  BY <1>2, <1>3, ConcatProperties
<1>5. ASSUME NEW i \in 1 .. Len(o), NEW j \in 1 .. Len(o), o[i] = o[j] PROVE i = j
  <2>1. \A n, k \in 1 .. Len(q) : n < k => q[n] # q[k]
    BY <1>3 DEF Downwards
  <2>2. ~(i < j)
    BY <1>2, <1>5, <2>1
  <2>4. ~(j < i)
    <3>1. SUFFICES ASSUME j < i PROVE FALSE
      OBVIOUS
    <3>2. PICK n, k \in 1 .. Len(q) : n < k /\ q[n] = o[j] /\ q[k] = o[i]
      BY <1>2, <3>1
    <3>3. QED
      BY <1>5, <2>1, <3>2
  <2>3. QED
    BY <1>2, <2>2, <2>4
<1>6. \A i \in 1 .. Len(l), j \in 1 .. Len(o) : l[i] # o[j]
  <2>1. \A j \in 1 .. Len(o) : o[j] \notin Range(l)
    BY <1>2
  <2>2. \A i \in 1 .. Len(l) : l[i] \in Range(l)
    BY <1>3 DEF Range
  <2>3. QED
    BY <2>1, <2>2
<1>7. Single(m)
  <2> SUFFICES ASSUME NEW i \in 1 .. Len(l) + Len(o), NEW j \in 1 .. Len(l) + Len(o), m[i] = m[j]
               PROVE  i = j
    BY <1>4 DEF Single
  <2>1. \A k \in 1 .. Len(l) + Len(o) :
          \/ k \in 1 .. Len(l) /\ m[k] = l[k]
          \/ k - Len(l) \in 1 .. Len(o) /\ m[k] = o[k - Len(l)] /\ k \notin 1 .. Len(l)
    BY <1>2, <1>3, <1>4
  <2>2. CASE i \in 1 .. Len(l) /\ j \in 1 .. Len(l)
    BY <2>1, <2>2 DEF Single
  <2>3. CASE i \notin 1 .. Len(l) /\ j \notin 1 .. Len(l)
    <3>1. i - Len(l) = j - Len(l)
      BY <1>5, <2>1, <2>3
    <3>2. QED
      BY <1>3, <3>1
  <2>4. CASE i \in 1 .. Len(l) /\ j \notin 1 .. Len(l)
    BY <1>6, <2>1, <2>4
  <2>5. CASE i \notin 1 .. Len(l) /\ j \in 1 .. Len(l)
    BY <1>6, <2>1, <2>5
  <2>6. QED
    BY <2>2, <2>3, <2>4, <2>5
<1>8. Range(m) = Range(l) \union Range(q)
  <2>1. \A x : x \in Range(m) <=> \E k \in 1 .. Len(l) + Len(o) : m[k] = x
    BY <1>4 DEF Range
  <2>2. \A x : x \in Range(l) <=> \E k \in 1 .. Len(l) : l[k] = x
    BY <1>3 DEF Range
  <2>3. \A x : x \in Range(q) <=> \E k \in 1 .. Len(q) : q[k] = x
    BY <1>3 DEF Range
  <2>4. \A k \in 1 .. Len(l) : k \in 1 .. Len(l) + Len(o) /\ m[k] = l[k]
    BY <1>2, <1>3, <1>4
  <2>5. \A k \in 1 .. Len(o) : Len(l) + k \in 1 .. Len(l) + Len(o) /\ m[Len(l) + k] = o[k]
    BY <1>2, <1>3, <1>4
  <2>6. ASSUME NEW x \in Range(m) PROVE x \in Range(l) \union Range(q)
    <3>1. PICK k \in 1 .. Len(l) + Len(o) : m[k] = x
      BY <2>1
    <3>2. k \in 1 .. Len(l) \/ k - Len(l) \in 1 .. Len(o)
      BY <1>2, <1>3
    <3>3. x \in Range(l) \/ x \in S
      BY <1>2, <1>4, <2>2, <3>1, <3>2
    <3>4. QED
      BY <3>3
  <2>7. ASSUME NEW x \in Range(q), x \notin Range(l) PROVE x \in Range(m)
    <3>1. PICK k \in 1 .. Len(q) : q[k] = x
      BY <2>3
    <3>2. PICK i \in 1 .. Len(o) : o[i] = x
      BY <1>2, <2>7, <3>1
    <3>3. QED
      BY <2>1, <2>5, <3>2
  <2>8. \A x \in Range(l) : x \in Range(m)
    BY <2>1, <2>2, <2>4
  <2>9. QED
    BY <2>6, <2>7, <2>8
<1>9. QED
  BY <1>4, <1>7, <1>8 DEF o

LEMMA ShelvesFirst ==
  ASSUME DialogInit
  PROVE  Shelves
<1>1. MaxRooms - 1 \in 0 .. MaxRooms /\ <<>> \in Seq(Rooms)
  BY JoinDialogAssumption
<1>2. Single(<<>>)
  BY DEF Single
<1>3. QED
  BY <1>1, <1>2 DEF DialogInit, Shelves, NoTimer

LEMMA FetchKeepsTypes ==
  ASSUME Shelves, NEW text \in BOOLEAN, NEW same \in BOOLEAN,
         NEW c \in Rooms \union {None}, Fetch(text, same, c)
  PROVE  started' \in Nat /\ \A f \in fetches' : FetchTyped(f)
<1> DEFINE new == [n |-> started', step |-> "sent", text |-> text, same |-> same,
                   cursor |-> c, found |-> <<>>, more |-> FALSE]
<1>1. started' \in Nat /\ fetches' = fetches \union {new}
  BY DEF Fetch, Shelves
<1>2. <<>> \in Seq(Rooms) /\ Downwards(<<>>)
  BY DEF Downwards
<1>3. FetchTyped(new)
  BY <1>1, <1>2 DEF FetchTyped, Fetches
<1>4. QED
  BY <1>1, <1>3 DEF Shelves

(* What Find puts into the place of a fetch.                                *)
Sought(f) == {r \in Found(f.text) \ joined : f.cursor # None => r < f.cursor}
Answered(f) == [f EXCEPT !.step = "ok", !.more = Len(Newer(Sought(f))) > Limit,
                  !.found = Paged(Sought(f))]

LEMMA FindIs ==
  ASSUME Shelves, NEW f \in fetches, Find(f)
  PROVE  /\ f.step = "sent" /\ fetches' = (fetches \ {f}) \union {Answered(f)}
         /\ UNCHANGED <<tables, dialog, timer, joining, history, acts, faults>>
         /\ Sought(f) \in SUBSET Rooms /\ FetchTyped(Answered(f))
         /\ Answered(f).same = f.same /\ Answered(f).text = f.text
         /\ Answered(f).cursor = f.cursor
         /\ Answered(f).more => Range(Answered(f).found) =
              {r \in Sought(f) : Last(Answered(f).found) <= r}
         /\ ~Answered(f).more => Range(Answered(f).found) = Sought(f)
<1>1. /\ f.step = "sent" /\ fetches' = (fetches \ {f}) \union {Answered(f)}
      /\ UNCHANGED <<tables, dialog, timer, joining, history, acts, faults>>
  BY DEF Find, Answered, Sought, Newer, Paged
<1>2. Sought(f) \in SUBSET Rooms
  BY FoundIs DEF Sought
<1> DEFINE p == Paged(Sought(f))
           q == Newer(Sought(f))
<1>3. /\ p \in Seq(Rooms) /\ Downwards(p) /\ Len(q) \in Nat
      /\ Len(q) > Limit => p # <<>>
      /\ Len(q) > Limit => Range(p) = {r \in Sought(f) : Last(p) <= r}
      /\ ~(Len(q) > Limit) => Range(p) = Sought(f)
  BY <1>2, PagedIs
<1>4. FetchTyped(f)
  BY DEF Shelves
<1>5. Answered(f) = [f EXCEPT !.step = "ok", !.more = (Len(q) > Limit), !.found = p]
  BY DEF Answered
<1> HIDE DEF p, q
<1>6. (Len(q) > Limit) \in BOOLEAN
  BY <1>3, RoomsAre
<1>7. /\ Answered(f) \in Fetches /\ Answered(f).step = "ok"
      /\ Answered(f).text = f.text /\ Answered(f).same = f.same
      /\ Answered(f).cursor = f.cursor
      /\ Answered(f).found = p /\ Answered(f).more = (Len(q) > Limit)
  BY <1>3, <1>4, <1>5, <1>6 DEF FetchTyped, Fetches
<1>8. FetchTyped(Answered(f))
  BY <1>3, <1>7 DEF FetchTyped
<1>9. QED
  BY <1>1, <1>2, <1>3, <1>6, <1>7, <1>8

LEMMA FetchedIs ==
  ASSUME Shelves, NEW f \in fetches, Fetched(f)
  PROVE  /\ f.step = "ok" /\ fetches' = fetches \ {f}
         /\ list' \in Seq(Rooms) /\ Single(list')
         /\ f.same => Range(list') = Ids \union Range(f.found)
         /\ hasMore' = f.more
         /\ f.more => cursor' = Last(f.found) /\ cursor' \in Rooms /\ cursor' \in Range(f.found)
         /\ ~f.more => cursor' = None
         /\ UNCHANGED <<tables, isOpen, search, timer, joining, history>>
<1>1. /\ f.step = "ok" /\ fetches' = fetches \ {f}
      /\ list' = Merge(f) /\ hasMore' = f.more
      /\ cursor' = IF f.more THEN Last(f.found) ELSE None
      /\ UNCHANGED <<tables, isOpen, search, timer, joining, history>>
  BY DEF Fetched
<1>2. FetchTyped(f) /\ list \in Seq(Rooms) /\ Single(list)
  BY DEF Shelves
<1>3. f.found \in Seq(Rooms) /\ Downwards(f.found) /\ (f.more => f.found # <<>>)
  BY <1>1, <1>2 DEF FetchTyped, Fetches
<1>4. list' \in Seq(Rooms) /\ Single(list') /\ (f.same => Range(list') = Ids \union Range(f.found))
  <2>1. CASE f.same
    <3>1. list' = list \o Only(f.found, Range(f.found) \ Range(list))
      BY <1>1, <2>1 DEF Merge, Ids
    <3>2. QED
      BY <1>2, <1>3, <2>1, <3>1, MergeIs DEF Ids
  <2>2. CASE ~f.same
    <3>1. list' = f.found
      BY <1>1, <2>2 DEF Merge
    <3>2. \A i \in 1 .. Len(f.found) : f.found[i] \in Nat
      BY <1>3, RoomsAre
    <3>3. Single(f.found)
      <4> SUFFICES ASSUME NEW i \in 1 .. Len(f.found), NEW j \in 1 .. Len(f.found),
                          f.found[i] = f.found[j]
                   PROVE  i = j
        BY DEF Single
      <4>1. ~(i < j) /\ ~(j < i)
        BY <1>3, <3>2 DEF Downwards
      <4>2. QED
        BY <1>3, <4>1
    <3>4. QED
      BY <1>3, <2>2, <3>1, <3>3
  <2>3. QED
    BY <2>1, <2>2
<1>5. f.more => cursor' = Last(f.found) /\ cursor' \in Rooms /\ cursor' \in Range(f.found)
  <2> SUFFICES ASSUME f.more PROVE cursor' = Last(f.found) /\ cursor' \in Rooms
                                   /\ cursor' \in Range(f.found)
    OBVIOUS
  <2>1. Len(f.found) \in 1 .. Len(f.found) /\ DOMAIN f.found = 1 .. Len(f.found)
    BY <1>3
  <2>2. QED
    BY <1>1, <1>3, <2>1 DEF Last, Range
<1>6. QED
  BY <1>1, <1>4, <1>5

(* No step but those above touches a fetch, or puts a room into the list.   *)
LEMMA ShelvesStep ==
  ASSUME Shelves, [DialogNext]_dialogVars
  PROVE  Shelves'
<1>1. /\ None \in Rooms \union {None} /\ <<>> \in Seq(Rooms) /\ Single(<<>>)
      /\ NoTimer.on = FALSE /\ NoTimer.cursor = None
  BY DEF Single, NoTimer
<1>2. CASE Open
  <2>1. /\ Fetch(FALSE, ~search, cursor) /\ list' = <<>> /\ cursor' = None /\ hasMore' = FALSE
        /\ isOpen' = TRUE /\ search' = FALSE /\ timer' = [NoTimer EXCEPT !.on = search]
        /\ disturbed' = (Busy \/ cursor # None) /\ UNCHANGED <<tables, joining>>
    BY <1>2 DEF Open, Clear
  <2>2. timer'.on = search /\ timer'.cursor = None
    BY <2>1 DEF NoTimer
  <2>3. started' \in Nat /\ \A f \in fetches' : FetchTyped(f)
    BY <2>1, FetchKeepsTypes DEF Shelves
  <2>4. disturbed' \in BOOLEAN
    BY <2>1 DEF Busy
  <2>5. QED
    BY <1>1, <2>1, <2>2, <2>3, <2>4 DEF Shelves, tables
<1>3. CASE Close
  BY <1>1, <1>3 DEF Close, Shelves, tables, spinners, history
<1>4. CASE Type
  <2>1. /\ timer' = [on |-> TRUE, cursor |-> cursor, some |-> list # <<>>] /\ search' = ~search
        /\ UNCHANGED <<tables, isOpen, list, hasMore, cursor, fetches, joining, history>>
    BY <1>4 DEF Type
  <2>2. timer'.on = TRUE /\ timer'.cursor = cursor
    BY <2>1
  <2>3. QED
    BY <2>1, <2>2 DEF Shelves, tables, history
<1>5. CASE Debounced
  <2>1. /\ Fetch(search, TRUE, timer.cursor) /\ list' = <<>> /\ cursor' = None
        /\ hasMore' = FALSE /\ timer' = NoTimer /\ disturbed' = (Busy \/ timer.cursor # None)
        /\ UNCHANGED <<tables, isOpen, search, joining>>
    BY <1>5 DEF Debounced, ClearForSearch, Clear
  <2>2. started' \in Nat /\ \A f \in fetches' : FetchTyped(f)
    BY <2>1, FetchKeepsTypes DEF Shelves
  <2>3. disturbed' \in BOOLEAN
    BY <2>1 DEF Busy
  <2>4. QED
    BY <1>1, <2>1, <2>2, <2>3 DEF Shelves, tables
<1>6. CASE Scroll
  <2>1. /\ Fetch(search, TRUE, cursor) /\ disturbed' = (disturbed \/ Busy)
        /\ UNCHANGED <<tables, isOpen, search, list, hasMore, cursor, timer, joining>>
    BY <1>6 DEF Scroll
  <2>2. started' \in Nat /\ \A f \in fetches' : FetchTyped(f)
    BY <2>1, FetchKeepsTypes DEF Shelves
  <2>3. disturbed' \in BOOLEAN
    BY <2>1 DEF Busy
  <2>4. QED
    BY <2>1, <2>2, <2>3 DEF Shelves, tables
<1>7. CASE Created
  BY <1>7, RoomsAre DEF Created, Shelves, dialog
<1>8. ASSUME NEW r \in Rooms, Join(r) PROVE Shelves'
  BY <1>8 DEF Join, Shelves, tables, dialog
<1>9. ASSUME NEW r \in Rooms, NEW ok \in BOOLEAN, Joined(r, ok) PROVE Shelves'
  BY <1>1, <1>9 DEF Joined, Shelves, spinners, history
<1>10. ASSUME NEW f \in fetches, FetchFailed(f) PROVE Shelves'
  BY <1>10 DEF FetchFailed, Shelves, tables
<1>11. ASSUME NEW f \in fetches, Find(f) PROVE Shelves'
  <2>1. /\ fetches' = (fetches \ {f}) \union {Answered(f)} /\ FetchTyped(Answered(f))
        /\ UNCHANGED <<tables, dialog, timer, joining, history, acts, faults>>
    BY <1>11, FindIs
  <2>2. \A g \in fetches' : FetchTyped(g)
    BY <2>1 DEF Shelves
  <2>3. QED
    BY <2>1, <2>2 DEF Shelves, tables, dialog, history
<1>12. ASSUME NEW f \in fetches, Fetched(f) PROVE Shelves'
  <2>1. /\ fetches' = fetches \ {f} /\ list' \in Seq(Rooms) /\ Single(list')
        /\ hasMore' = f.more /\ cursor' \in Rooms \union {None}
        /\ UNCHANGED <<tables, isOpen, search, timer, joining, history>>
    BY <1>12, FetchedIs
  <2>2. f.more \in BOOLEAN
    BY DEF Shelves, FetchTyped, Fetches
  <2>3. QED
    BY <2>1, <2>2 DEF Shelves, tables, history
<1>13. CASE UNCHANGED dialogVars
  BY <1>13 DEF Shelves, dialogVars, tables, dialog, history
<1>14. QED
  BY <1>2, <1>3, <1>4, <1>5, <1>6, <1>7, <1>8, <1>9, <1>10, <1>11, <1>12, <1>13
     DEF DialogNext, Progress

(* No room is twice in the list of the dialog, whatever requests overlap:   *)
(* each of their answers adds only the rooms that the list of that moment   *)
(* has not.                                                                 *)
THEOREM NoRoomTwice == DialogSpec => []NoDuplicates
<1>1. Shelves => NoDuplicates
  <2> SUFFICES ASSUME Shelves PROVE NoDuplicates
    OBVIOUS
  <2>1. DOMAIN list = 1 .. Len(list)
    BY DEF Shelves
  <2>2. QED
    BY <2>1 DEF Shelves, Single, NoDuplicates
<1>2. QED
  BY <1>1, ShelvesFirst, ShelvesStep, PTL DEF DialogSpec
-----------------------------------------------------------------------------
(* What the list holds while things happen one at a time: of the rooms to   *)
(* show, those down to the cursor, and no others.  0 is no cursor: all.     *)
ToShow == Found(search) \ joined
DownTo(c) == {r \in ToShow : c <= r}

Before(f) == Ids = IF f.cursor = None THEN {} ELSE DownTo(f.cursor)
Asked(f) ==
  /\ f.same /\ f.text = search
  /\ Before(f)
  /\ f.step = "ok" =>
       Range(f.found) = {r \in ToShow : /\ f.cursor # None => r < f.cursor
                                        /\ f.more => Last(f.found) <= r}

Calm ==
  ~disturbed =>
    /\ joining = {}
    /\ \A f, g \in fetches : f = g
    /\ isOpen /\ ~timer.on =>
         /\ fetches = {} => (hasMore <=> cursor # None) /\ Ids = DownTo(cursor)
         /\ \A f \in fetches : Asked(f)

(* Calm says nothing of a state that is disturbed.                          *)
LEMMA CalmFirst ==
  ASSUME DialogInit
  PROVE  Calm
BY DEF DialogInit, Calm

LEMMA SameToShow ==
  ASSUME UNCHANGED <<tables, search>>
  PROVE  ToShow' = ToShow /\ \A c : DownTo(c)' = DownTo(c)
BY DEF ToShow, DownTo, Found, tables

(* A new request, of an empty list and without a cursor.                    *)
LEMMA CalmFromEmpty ==
  ASSUME NEW text, NEW same, NEW c, Fetch(text, same, c), ~disturbed' => ~Busy /\ c = None,
         UNCHANGED joining, list' = <<>>, (same /\ text = search') \/ timer'.on
  PROVE  Calm'
<1> SUFFICES ASSUME ~disturbed' PROVE Calm'
  BY DEF Calm
<1>1. joining' = {} /\ fetches = {} /\ c = None
  BY DEF Busy
<1>2. PICK new : /\ fetches' = {new} /\ new.same = same /\ new.text = text
                 /\ new.cursor = c /\ new.step = "sent"
  <2> DEFINE g == [n |-> started', step |-> "sent", text |-> text, same |-> same,
                   cursor |-> c, found |-> <<>>, more |-> FALSE]
  <2>1. fetches' = {g}
    BY <1>1 DEF Fetch
  <2>2. g.same = same /\ g.text = text /\ g.cursor = c /\ g.step = "sent"
    OBVIOUS
  <2>3. QED
    BY <2>1, <2>2
<1>3. \A f, g \in fetches' : f = g
  BY <1>2
<1>4. ASSUME ~timer'.on, NEW f \in fetches' PROVE Asked(f)'
  <2>1. f.same /\ f.text = search' /\ f.cursor = None /\ f.step = "sent"
    BY <1>1, <1>2, <1>4
  <2>2. Ids' = {}
    BY DEF Ids, Range
  <2>3. QED
    BY <2>1, <2>2 DEF Asked, Before, None
<1>5. fetches' # {}
  BY <1>2
<1>6. QED
  BY <1>1, <1>3, <1>4, <1>5 DEF Calm

LEMMA CalmAtScroll ==
  ASSUME Shelves, Calm, Scroll
  PROVE  Calm'
<1> SUFFICES ASSUME ~disturbed' PROVE Calm'
  BY DEF Calm
<1>1. /\ isOpen /\ hasMore /\ Fetch(search, TRUE, cursor)
      /\ UNCHANGED <<tables, isOpen, search, list, cursor, timer, joining>>
  BY DEF Scroll
<1>2. ~disturbed /\ joining = {} /\ fetches = {}
  BY DEF Scroll, Busy
<1>3. ~timer.on => cursor # None /\ Ids = DownTo(cursor)
  BY <1>1, <1>2 DEF Calm
<1>4. PICK new : /\ fetches' = {new} /\ new.same /\ new.text = search
                 /\ new.cursor = cursor /\ new.step = "sent"
  <2> DEFINE g == [n |-> started', step |-> "sent", text |-> search, same |-> TRUE,
                   cursor |-> cursor, found |-> <<>>, more |-> FALSE]
  <2>1. fetches' = {g}
    BY <1>1, <1>2 DEF Fetch
  <2>2. g.same /\ g.text = search /\ g.cursor = cursor /\ g.step = "sent"
    OBVIOUS
  <2>3. QED
    BY <2>1, <2>2
<1>5. ASSUME ~timer.on, NEW f \in fetches' PROVE Asked(f)'
  <2>1. Ids' = Ids /\ \A c : DownTo(c)' = DownTo(c)
    BY <1>1, SameToShow DEF Ids
  <2>2. f.same /\ f.text = search' /\ f.cursor = cursor /\ f.step = "sent"
    BY <1>1, <1>4
  <2>3. Ids' = DownTo(f.cursor)' /\ f.cursor # None
    BY <1>3, <1>5, <2>1, <2>2
  <2>4. QED
    BY <2>2, <2>3 DEF Asked, Before
<1>6. fetches' # {} /\ \A f, g \in fetches' : f = g
  BY <1>4
<1>7. QED
  BY <1>1, <1>2, <1>5, <1>6 DEF Calm

LEMMA CalmAtFind ==
  ASSUME Shelves, Calm, NEW f \in fetches, Find(f)
  PROVE  Calm'
<1> SUFFICES ASSUME ~disturbed' PROVE Calm'
  BY DEF Calm
<1>1. PICK a :
      /\ fetches' = (fetches \ {f}) \union {a}
      /\ UNCHANGED <<tables, isOpen, search, list, cursor, timer, joining, disturbed>>
      /\ a.same = f.same /\ a.text = f.text /\ a.cursor = f.cursor
      /\ a.more => Range(a.found) = {r \in Sought(f) : Last(a.found) <= r}
      /\ ~a.more => Range(a.found) = Sought(f)
  BY FindIs DEF dialog, history
<1>2. joining = {} /\ fetches = {f}
  BY <1>1 DEF Calm
<1>3. fetches' = {a}
  BY <1>1, <1>2
<1>4. ASSUME isOpen, ~timer.on PROVE Asked(a)'
  <2>1. Asked(f)
    BY <1>1, <1>4 DEF Calm
  <2>2. Ids' = Ids /\ ToShow' = ToShow /\ \A c : DownTo(c)' = DownTo(c)
    BY <1>1, SameToShow DEF Ids
  <2>3. Sought(f) = {r \in ToShow : f.cursor # None => r < f.cursor}
    BY <2>1 DEF Asked, Sought, ToShow
  <2>4. Range(a.found) = {r \in ToShow : /\ a.cursor # None => r < a.cursor
                                         /\ a.more => Last(a.found) <= r}
    <3>1. CASE a.more
      BY <1>1, <2>3, <3>1
    <3>2. CASE ~a.more
      BY <1>1, <2>3, <3>2
    <3>3. QED
      BY <3>1, <3>2
  <2>5. a.same /\ a.text = search' /\ (Ids' = IF a.cursor = None THEN {} ELSE DownTo(a.cursor)')
    BY <1>1, <2>1, <2>2 DEF Asked, Before
  <2>6. QED
    BY <2>2, <2>4, <2>5 DEF Asked, Before
<1>5. QED
  BY <1>1, <1>2, <1>3, <1>4 DEF Calm

(* What is merged joins on to what was there.                               *)
LEMMA CalmAtFetched ==
  ASSUME Shelves, Calm, NEW f \in fetches, Fetched(f)
  PROVE  Calm'
<1> SUFFICES ASSUME ~disturbed' PROVE Calm'
  BY DEF Calm
<1>1. /\ f.step = "ok" /\ fetches' = fetches \ {f} /\ hasMore' = f.more
      /\ f.same => Range(list') = Ids \union Range(f.found)
      /\ f.more => cursor' = Last(f.found) /\ cursor' \in Rooms /\ cursor' \in Range(f.found)
      /\ ~f.more => cursor' = None
      /\ UNCHANGED <<tables, isOpen, search, timer, joining, disturbed>>
  BY FetchedIs DEF history
<1>2. joining = {} /\ fetches' = {}
  BY <1>1 DEF Calm
<1>3. hasMore' <=> cursor' # None
  BY <1>1, RoomsAre DEF Shelves, FetchTyped, Fetches
<1>4. ASSUME isOpen, ~timer.on PROVE Ids' = DownTo(cursor)'
  <2>1. Asked(f)
    BY <1>1, <1>4 DEF Calm
  <2>2. ToShow' = ToShow /\ DownTo(cursor)' = {r \in ToShow : cursor' <= r}
    BY <1>1, SameToShow DEF DownTo
  <2>3. /\ Ids' = Ids \union Range(f.found)
        /\ Ids = IF f.cursor = None THEN {} ELSE {r \in ToShow : f.cursor <= r}
        /\ Range(f.found) = {r \in ToShow : /\ f.cursor # None => r < f.cursor
                                            /\ f.more => Last(f.found) <= r}
    BY <1>1, <2>1 DEF Asked, Before, DownTo, Ids
  <2>4. ToShow \in SUBSET Nat /\ f.cursor \in Nat
    BY RoomsAre, FoundIs DEF ToShow, Shelves, FetchTyped, Fetches
  <2>5. CASE f.more
    <3>1. cursor' \in Nat /\ cursor' = Last(f.found) /\ (f.cursor # None => cursor' < f.cursor)
      BY <1>1, <2>3, <2>5, RoomsAre
    <3>2. CASE f.cursor = None
      BY <2>2, <2>3, <2>5, <3>1, <3>2
    <3>3. CASE f.cursor # None
      <4>1. \A r \in ToShow : f.cursor <= r \/ (r < f.cursor /\ cursor' <= r) <=> cursor' <= r
        BY <2>4, <3>1, <3>3
      <4>2. Ids' = {r \in ToShow : f.cursor <= r \/ (r < f.cursor /\ cursor' <= r)}
        BY <2>3, <2>5, <3>1, <3>3
      <4>3. QED
        BY <2>2, <4>1, <4>2
    <3>4. QED
      BY <3>2, <3>3
  <2>6. CASE ~f.more
    <3>1. cursor' = 0
      BY <1>1, <2>6 DEF None
    <3>2. \A r \in ToShow : 0 <= r /\ (f.cursor <= r \/ r < f.cursor)
      BY <2>4
    <3>3. DownTo(cursor)' = ToShow
      BY <2>2, <3>1, <3>2
    <3>4. Ids' = ToShow
      BY <2>3, <2>6, <3>2
    <3>5. QED
      BY <3>3, <3>4
  <2>7. QED
    BY <2>5, <2>6
<1>5. QED
  BY <1>1, <1>2, <1>3, <1>4 DEF Calm

LEMMA CalmStep ==
  ASSUME Shelves, Calm, [DialogNext]_dialogVars
  PROVE  Calm'
<1>1. CASE Open
  <2>1. /\ Fetch(FALSE, ~search, cursor) /\ list' = <<>> /\ search' = FALSE
        /\ timer' = [NoTimer EXCEPT !.on = search]
        /\ disturbed' = (Busy \/ cursor # None) /\ UNCHANGED joining
    BY <1>1 DEF Open, Clear
  <2>2. timer'.on = search
    BY <2>1 DEF NoTimer
  <2>3. (~search /\ FALSE = search') \/ timer'.on
    BY <2>1, <2>2
  <2>4. ~disturbed' => ~Busy /\ cursor = None
    BY <2>1
  <2>5. QED
    BY <2>1, <2>3, <2>4, CalmFromEmpty
<1>2. CASE Debounced
  <2>1. /\ Fetch(search, TRUE, timer.cursor) /\ list' = <<>> /\ search' = search
        /\ disturbed' = (Busy \/ timer.cursor # None) /\ UNCHANGED joining
    BY <1>2 DEF Debounced, ClearForSearch, Clear
  <2>2. ~disturbed' => ~Busy /\ timer.cursor = None
    BY <2>1
  <2>3. QED
    BY <2>1, <2>2, CalmFromEmpty
<1>3. CASE Close
  BY <1>3 DEF Close, Calm, history
<1>4. CASE Type
  <2>1. timer'.on /\ UNCHANGED <<joining, fetches, disturbed>>
    BY <1>4 DEF Type, history
  <2>2. QED
    BY <2>1 DEF Calm
<1>5. CASE Scroll
  BY <1>5, CalmAtScroll
<1>6. CASE Created
  BY <1>6 DEF Created, Calm
<1>7. ASSUME NEW r \in Rooms, Join(r) PROVE Calm'
  BY <1>7 DEF Join, Calm
<1>8. ASSUME NEW r \in Rooms, NEW ok \in BOOLEAN, Joined(r, ok) PROVE Calm'
  BY <1>8 DEF Joined, Calm, history
<1>9. ASSUME NEW f \in fetches, FetchFailed(f) PROVE Calm'
  BY <1>9 DEF FetchFailed, Calm
<1>10. ASSUME NEW f \in fetches, Find(f) PROVE Calm'
  BY <1>10, CalmAtFind
<1>11. ASSUME NEW f \in fetches, Fetched(f) PROVE Calm'
  BY <1>11, CalmAtFetched
<1>12. CASE UNCHANGED dialogVars
  BY <1>12 DEF dialogVars, tables, dialog, history, Calm, Asked, Before, Ids, DownTo, ToShow, Found
<1>13. QED
  BY <1>1, <1>2, <1>3, <1>4, <1>5, <1>6, <1>7, <1>8, <1>9, <1>10, <1>11, <1>12
     DEF DialogNext, Progress

(* From a list that was asked for without a cursor while nothing else was   *)
(* under way, and as long as things happen one at a time, the dialog shows  *)
(* only rooms to join that match the search, and all of them when it says   *)
(* that there are no more.                                                  *)
THEOREM ShowsWhatItSays == DialogSpec => []ShowsAll
<1>1. Shelves /\ Calm => ShowsAll
  <2> SUFFICES ASSUME Shelves, Calm, Quiet PROVE ShowsAll
    BY DEF ShowsAll
  <2>1. Ids = DownTo(cursor) /\ (hasMore <=> cursor # None)
    BY DEF Quiet, Busy, Calm
  <2>2. ToShow \in SUBSET Nat
    BY RoomsAre, FoundIs DEF ToShow
  <2>3. ~hasMore => Ids = ToShow
    <3>1. \A r \in ToShow : 0 <= r
      BY <2>2
    <3>2. DownTo(0) = ToShow
      BY <3>1 DEF DownTo
    <3>3. QED
      BY <2>1, <3>2 DEF None
  <2>4. QED
    BY <2>1, <2>3 DEF ShowsAll, DownTo, ToShow
<1>2. QED
  BY <1>1, ShelvesFirst, ShelvesStep, CalmFirst, CalmStep, PTL DEF DialogSpec
=============================================================================
