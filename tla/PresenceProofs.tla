--------------------------- MODULE PresenceProofs ---------------------------
(* Proofs about Presence, for every number of users, tabs, rooms and        *)
(* instances.                                                               *)
EXTENDS Presence, TLAPS

-----------------------------------------------------------------------------
(* Queues of commands                                                       *)

(* Answering the head of a queue and appending what its handler sends next  *)
(* gives a queue of tasks.                                                  *)
LEMMA ReplyType ==
  ASSUME NEW S, NEW q \in Seq(S), q # <<>>, NEW ts \in Seq(S)
  PROVE  /\ Head(q) \in S
         /\ Tail(q) \o ts \in Seq(S)
         /\ Len(Tail(q) \o ts) = Len(q) - 1 + Len(ts)
         /\ \A n \in 1 .. Len(q) - 1 : (Tail(q) \o ts)[n] = q[n + 1]
         /\ \A k \in 1 .. Len(ts) : (Tail(q) \o ts)[Len(q) - 1 + k] = ts[k]
<1>1. Len(q) \in Nat /\ Len(q) >= 1 /\ DOMAIN q = 1 .. Len(q)
  OBVIOUS
<1>2. Tail(q) \in Seq(S) /\ Len(Tail(q)) = Len(q) - 1
  BY <1>1
<1>3. \A n \in 1 .. Len(q) - 1 : Tail(q)[n] = q[n + 1]
  BY <1>1
<1>4. QED
  BY <1>1, <1>2, <1>3

LEMMA SendType ==
  ASSUME NEW S, NEW q \in Seq(S), NEW t \in S
  PROVE  /\ Append(q, t) \in Seq(S)
         /\ Len(Append(q, t)) = Len(q) + 1
         /\ \A n \in 1 .. Len(q) : Append(q, t)[n] = q[n]
         /\ Append(q, t)[Len(q) + 1] = t
  OBVIOUS

LEMMA HeadIsTask ==
  ASSUME TypeOK, NEW i \in Instances, NEW cmd, At(i, cmd)
  PROVE  /\ pipe[i] \in Seq(Tasks) /\ pipe[i] # <<>>
         /\ Head(pipe[i]) \in Tasks
         /\ Head(pipe[i]).cmd = cmd
         /\ Head(pipe[i]).sock \in Sockets
         /\ Head(pipe[i]).keys \in SUBSET Sockets
         /\ cmd # "lookup" => Head(pipe[i]).room \in Rooms
<1>1. pipe[i] \in Seq(Tasks) /\ pipe[i] # <<>> /\ Head(pipe[i]).cmd = cmd
  BY DEF TypeOK, At
<1>2. Head(pipe[i]) \in Tasks
  BY <1>1, ReplyType
<1>3. QED
  BY <1>1, <1>2 DEF Tasks

(* What a handler sends next is a task.                                     *)
LEMMA TaskType ==
  ASSUME NEW cmd \in Commands, NEW job \in Jobs \ {"switch"}, NEW s \in Sockets,
         NEW r \in RoomOrNone, cmd # "lookup" => r \in Rooms
  PROVE  Task(cmd, job, s, r) \in Tasks
  BY DEF Task, Tasks, RoomOrNone, Jobs

LEMMA EvictOrCheckType ==
  ASSUME NEW t \in Tasks, t.room \in Rooms, NEW old \in SUBSET Sockets,
         NEW n \in EvictOrCheck(t, old)
  PROVE  n \in Tasks
<1>1. CASE old = {}
  <2>1. n = [t EXCEPT !.cmd = "sismember", !.job = "join", !.key = t.sock, !.keys = {}]
    BY <1>1 DEF EvictOrCheck
  <2>2. QED
    BY <2>1 DEF Tasks, Commands, Jobs
<1>2. CASE old # {}
  <2>1. PICK k \in old : n = [t EXCEPT !.cmd = "srem", !.job = "evict", !.key = k,
                                       !.keys = old \ {k}]
    BY <1>2 DEF EvictOrCheck
  <2>2. old \ {k} \in SUBSET Sockets /\ k \in Sockets
    OBVIOUS
  <2>3. QED
    BY <2>1, <2>2 DEF Tasks, Commands, Jobs
<1>3. QED
  BY <1>1, <1>2

LEMMA AfterRemovalType ==
  ASSUME NEW t \in Tasks, t.room \in Rooms, NEW ts \in AfterRemoval(t)
  PROVE  ts \in Seq(Tasks)
<1>1. CASE t.job = "evict"
  <2>1. t.keys \in SUBSET Sockets
    BY DEF Tasks
  <2>2. PICK n \in EvictOrCheck(t, t.keys) : ts = <<n>>
    BY <1>1 DEF AfterRemoval
  <2>3. QED
    BY <2>1, <2>2, EvictOrCheckType
<1>2. CASE t.job = "purge"
  BY <1>2 DEF AfterRemoval
<1>3. CASE t.job \notin {"evict", "purge"}
  <2>1. [t EXCEPT !.cmd = "count"] \in Tasks
    BY DEF Tasks, Commands
  <2>2. ts = <<[t EXCEPT !.cmd = "count"]>>
    BY <1>3 DEF AfterRemoval
  <2>3. QED
    BY <2>1, <2>2
<1>4. QED
  BY <1>1, <1>2, <1>3

-----------------------------------------------------------------------------
(* Type correctness                                                         *)

LEMMA SendPipeType ==
  ASSUME TypeOK, NEW s \in Sockets, NEW t \in Tasks, Send(s, t)
  PROVE  pipe' \in [Instances -> Seq(Tasks)]
  BY PresenceAssumption, SendType DEF TypeOK, Send

LEMMA ReplyPipeType ==
  ASSUME TypeOK, NEW i \in Instances, pipe[i] # <<>>, NEW ts \in Seq(Tasks), Reply(i, ts)
  PROVE  pipe' \in [Instances -> Seq(Tasks)]
<1>1. pipe[i] \in Seq(Tasks)
  BY DEF TypeOK
<1>2. Tail(pipe[i]) \o ts \in Seq(Tasks)
  BY <1>1, ReplyType
<1>3. QED
  BY <1>2 DEF TypeOK, Reply

LEMMA ReplyNone ==
  ASSUME TypeOK, NEW i \in Instances, pipe[i] # <<>>, Reply(i, <<>>)
  PROVE  pipe' \in [Instances -> Seq(Tasks)]
<1>1. <<>> \in Seq(Tasks)
  OBVIOUS
<1>2. QED
  BY <1>1, ReplyPipeType

LEMMA ReplyOne ==
  ASSUME TypeOK, NEW i \in Instances, pipe[i] # <<>>, NEW u \in Tasks, Reply(i, <<u>>)
  PROVE  pipe' \in [Instances -> Seq(Tasks)]
<1>1. <<u>> \in Seq(Tasks)
  OBVIOUS
<1>2. QED
  BY <1>1, ReplyPipeType

LEMMA BroadcastType ==
  ASSUME TypeOK, NEW i \in Instances, NEW r \in Rooms, NEW users \in SUBSET Sockets,
         Broadcast(i, r, users)
  PROVE  /\ wire' \in [Instances \X Instances -> Seq([room : Rooms, users : SUBSET Sockets])]
         /\ shown' \in [Sockets -> SUBSET Sockets]
<1> DEFINE News == [room : Rooms, users : SUBSET Sockets]
           m == [room |-> r, users |-> users]
<1>1. m \in News
  OBVIOUS
<1>2. \A ij \in Instances \X Instances : wire[ij] \in Seq(News)
  BY DEF TypeOK
<1>3. \A ij \in Instances \X Instances : Append(wire[ij], m) \in Seq(News)
  <2> HIDE DEF News, m
  <2>1. QED
    BY <1>1, <1>2
<1>4. QED
  BY <1>2, <1>3 DEF TypeOK, Broadcast, Display

LEMMA ListedType ==
  ASSUME TypeOK, NEW i \in Instances, pipe[i] # <<>>,
         NEW t \in Tasks, t.room \in Rooms, NEW users \in SUBSET Sockets,
         NEW cleaning \in Seq(Tasks), Listed(i, t, users, cleaning)
  PROVE  /\ pipe' \in [Instances -> Seq(Tasks)]
         /\ wire' \in [Instances \X Instances -> Seq([room : Rooms, users : SUBSET Sockets])]
         /\ shown' \in [Sockets -> SUBSET Sockets]
<1>1. CASE /\ t.job = "join"
           /\ \E n \in EvictOrCheck(t, OldConnections(t, users)) : Reply(i, Append(cleaning, n))
           /\ UNCHANGED front
  <2>1. PICK n \in EvictOrCheck(t, OldConnections(t, users)) : Reply(i, Append(cleaning, n))
    BY <1>1
  <2>2. OldConnections(t, users) \in SUBSET Sockets
    BY DEF OldConnections
  <2>3. n \in Tasks
    BY <2>2, EvictOrCheckType
  <2>4. Append(cleaning, n) \in Seq(Tasks)
    BY <2>3
  <2>5. pipe' \in [Instances -> Seq(Tasks)]
    BY <2>1, <2>4, ReplyPipeType
  <2>6. QED
    BY <1>1, <2>5 DEF TypeOK, front
<1>2. CASE t.job = "emit" /\ Broadcast(i, t.room, users) /\ Reply(i, cleaning)
  BY <1>2, BroadcastType, ReplyPipeType
<1>3. CASE t.job = "read" /\ Reply(i, cleaning) /\ UNCHANGED front
  BY <1>3, ReplyPipeType DEF TypeOK, front
<1>4. QED
  BY <1>1, <1>2, <1>3 DEF Listed

LEMMA TypeStep ==
  ASSUME TypeOK, [Next]_vars
  PROVE  TypeOK'
<1>1. TypeOK'
  <2>ev. Event => events' \in 0 .. MaxEvents
    BY PresenceAssumption DEF Event, TypeOK
  <2>1. ASSUME NEW s \in Sockets, NEW r \in Rooms, JoinAgain(s, r) PROVE TypeOK'
    <3>1. Task("smembers", "emit", s, r) \in Tasks
      BY TaskType DEF Commands, Jobs, RoomOrNone
    <3>2. pipe' \in [Instances -> Seq(Tasks)]
      BY <2>1, <3>1, SendPipeType DEF JoinAgain
    <3>3. QED
      BY <2>1, <3>2, <2>ev DEF TypeOK, JoinAgain, Act, local, redis, front
  <2>2. ASSUME NEW s \in Sockets, NEW r \in Rooms, JoinFromOther(s, r) PROVE TypeOK'
    <3>1. current[s] \in Rooms
      BY <2>2 DEF JoinFromOther, TypeOK, RoomOrNone
    <3>2. [Task("srem", "switch", s, current[s]) EXCEPT !.next = r] \in Tasks
      BY <3>1 DEF Task, Tasks, Commands, Jobs, RoomOrNone
    <3>3. pipe' \in [Instances -> Seq(Tasks)]
      BY <2>2, <3>2, SendPipeType DEF JoinFromOther
    <3>4. QED
      BY <2>2, <3>3, <2>ev DEF TypeOK, JoinFromOther, Act, redis, front, RoomOrNone
  <2>3. ASSUME NEW s \in Sockets, NEW r \in Rooms, JoinFresh(s, r) PROVE TypeOK'
    <3>1. Task("smembers", "join", s, r) \in Tasks
      BY TaskType DEF Commands, Jobs, RoomOrNone
    <3>2. pipe' \in [Instances -> Seq(Tasks)]
      BY <2>3, <3>1, SendPipeType DEF JoinFresh
    <3>3. QED
      BY <2>3, <3>2, <2>ev DEF TypeOK, JoinFresh, EnterRoom, Act, redis, front, RoomOrNone
  <2>4. ASSUME NEW s \in Sockets, NEW r \in Rooms, Leave(s, r) PROVE TypeOK'
    <3>1. Task("srem", "leave", s, r) \in Tasks
      BY TaskType DEF Commands, Jobs, RoomOrNone
    <3>2. pipe' \in [Instances -> Seq(Tasks)]
      BY <2>4, <3>1, SendPipeType DEF Leave
    <3>3. QED
      BY <2>4, <3>2, <2>ev DEF TypeOK, Leave, Act, redis, front, RoomOrNone
  <2>5. ASSUME NEW s \in Sockets, NEW r \in Rooms, ListUsers(s, r) PROVE TypeOK'
    <3>1. Task("smembers", "read", s, r) \in Tasks
      BY TaskType DEF Commands, Jobs, RoomOrNone
    <3>2. pipe' \in [Instances -> Seq(Tasks)]
      BY <2>5, <3>1, SendPipeType DEF ListUsers
    <3>3. QED
      BY <2>5, <3>2, <2>ev DEF TypeOK, ListUsers, local, redis, front
  <2>6. ASSUME NEW s \in Sockets, Disconnect(s) PROVE TypeOK'
    <3>1. current[s] # NoRoom => Task("srem", "disconnect", s, current[s]) \in Tasks
      BY DEF Task, Tasks, Commands, Jobs, RoomOrNone, TypeOK
    <3>2. Task("lookup", "disconnect", s, NoRoom) \in Tasks
      BY DEF Task, Tasks, Commands, Jobs, RoomOrNone
    <3>3. pipe' \in [Instances -> Seq(Tasks)]
      BY <2>6, <3>1, <3>2, SendPipeType DEF Disconnect
    <3>4. QED
      BY <2>6, <3>3, <2>ev DEF TypeOK, Disconnect, redis, front
  <2>7. ASSUME NEW s \in Sockets, Expire(s) PROVE TypeOK'
    BY <2>7 DEF TypeOK, Expire, local, front, RoomOrNone
  <2>8. ASSUME NEW i \in Instances, SMembers(i) PROVE TypeOK'
    <3> DEFINE t == Head(pipe[i])
    <3>1. t \in Tasks /\ t.cmd = "smembers" /\ t.room \in Rooms /\ pipe[i] # <<>>
      BY <2>8, HeadIsTask DEF SMembers
    <3>2. members[t.room] \in SUBSET Sockets
      BY <3>1 DEF TypeOK
    <3>3. <<[t EXCEPT !.cmd = "hgetall", !.keys = members[t.room]]>> \in Seq(Tasks)
      <4>1. [t EXCEPT !.cmd = "hgetall", !.keys = members[t.room]] \in Tasks
        BY <3>1, <3>2 DEF Tasks, Commands
      <4>2. QED
        BY <4>1
    <3>4. /\ pipe' \in [Instances -> Seq(Tasks)]
          /\ wire' \in [Instances \X Instances -> Seq([room : Rooms, users : SUBSET Sockets])]
          /\ shown' \in [Sockets -> SUBSET Sockets]
      <4>1. CASE Listed(i, t, {}, <<>>)
        <5>1. {} \in SUBSET Sockets /\ <<>> \in Seq(Tasks)
          OBVIOUS
        <5> HIDE DEF t
        <5>2. QED
          BY <3>1, <4>1, <5>1, ListedType
      <4>2. CASE /\ Reply(i, <<[t EXCEPT !.cmd = "hgetall", !.keys = members[t.room]]>>)
                 /\ UNCHANGED front
        BY <3>1, <3>3, <4>2, ReplyPipeType DEF TypeOK, front
      <4>3. QED
        BY <2>8, <4>1, <4>2 DEF SMembers
    <3>5. QED
      BY <2>8, <3>4 DEF TypeOK, SMembers, local, redis
  <2>9. ASSUME NEW i \in Instances, HGetAll(i) PROVE TypeOK'
    <3> DEFINE t == Head(pipe[i])
               valid == {k \in t.keys : hash[k] # NoRoom}
               cleanup == [t EXCEPT !.cmd = "cleanup", !.job = "clean", !.keys = t.keys \ valid]
               cleaning == IF valid = t.keys THEN <<>> ELSE <<cleanup>>
    <3>1. t \in Tasks /\ t.cmd = "hgetall" /\ t.room \in Rooms /\ pipe[i] # <<>>
      BY <2>9, HeadIsTask DEF HGetAll
    <3>2. t.keys \in SUBSET Sockets /\ valid \in SUBSET Sockets
      BY <3>1 DEF Tasks
    <3>3. cleanup \in Tasks
      BY <3>1, <3>2 DEF Tasks, Commands, Jobs
    <3>4. cleaning \in Seq(Tasks)
      BY <3>3
    <3>5. [t EXCEPT !.keys = {}] \in Tasks /\ [t EXCEPT !.keys = {}].room \in Rooms
      BY <3>1 DEF Tasks
    <3>6. Listed(i, [t EXCEPT !.keys = {}], valid, cleaning)
      BY <2>9 DEF HGetAll
    <3>7. /\ pipe' \in [Instances -> Seq(Tasks)]
          /\ wire' \in [Instances \X Instances -> Seq([room : Rooms, users : SUBSET Sockets])]
          /\ shown' \in [Sockets -> SUBSET Sockets]
      <4> HIDE DEF t, valid, cleaning, cleanup
      <4>1. QED
        BY <3>1, <3>2, <3>4, <3>5, <3>6, ListedType
    <3>8. QED
      BY <2>9, <3>7 DEF TypeOK, HGetAll, local, redis
  <2>10. ASSUME NEW i \in Instances, Cleanup(i) PROVE TypeOK'
    <3>1. pipe' \in [Instances -> Seq(Tasks)]
      BY <2>10, HeadIsTask, ReplyNone DEF Cleanup
    <3>2. QED
      BY <2>10, <3>1 DEF TypeOK, Cleanup, local, front, RoomOrNone
  <2>11. ASSUME NEW i \in Instances, SRem(i) PROVE TypeOK'
    <3> DEFINE t == Head(pipe[i])
    <3>1. t \in Tasks /\ t.cmd = "srem" /\ pipe[i] # <<>>
      BY <2>11, HeadIsTask DEF SRem
    <3>2. [t EXCEPT !.cmd = "scard"] \in Tasks
      BY <3>1 DEF Tasks, Commands
    <3>3. pipe' \in [Instances -> Seq(Tasks)]
      BY <2>11, <3>1, <3>2, ReplyOne DEF SRem
    <3>4. QED
      BY <2>11, <3>3 DEF TypeOK, SRem, local, front, RoomOrNone
  <2>12. ASSUME NEW i \in Instances, SCard(i) PROVE TypeOK'
    <3> DEFINE t == Head(pipe[i])
    <3>1. t \in Tasks /\ t.cmd = "scard" /\ t.room \in Rooms /\ pipe[i] # <<>>
      BY <2>12, HeadIsTask DEF SCard
    <3>2. [t EXCEPT !.cmd = "del"] \in Tasks
      BY <3>1 DEF Tasks, Commands
    <3>3. pipe' \in [Instances -> Seq(Tasks)]
      <4>1. CASE Reply(i, <<[t EXCEPT !.cmd = "del"]>>)
        BY <3>1, <3>2, <4>1, ReplyOne
      <4>2. CASE \E ts \in AfterRemoval(t) : Reply(i, ts)
        BY <3>1, <4>2, ReplyPipeType, AfterRemovalType
      <4>3. QED
        BY <2>12, <4>1, <4>2 DEF SCard
    <3>4. QED
      BY <2>12, <3>3 DEF TypeOK, SCard, local, redis, front
  <2>13. ASSUME NEW i \in Instances, Del(i) PROVE TypeOK'
    <3> DEFINE t == Head(pipe[i])
    <3>1. t \in Tasks /\ t.cmd = "del" /\ t.room \in Rooms /\ pipe[i] # <<>>
      BY <2>13, HeadIsTask DEF Del
    <3>2. \E ts \in AfterRemoval(t) : Reply(i, ts)
      BY <2>13 DEF Del
    <3>3. pipe' \in [Instances -> Seq(Tasks)]
      BY <3>1, <3>2, ReplyPipeType, AfterRemovalType
    <3>4. QED
      BY <2>13, <3>3 DEF TypeOK, Del, local, front
  <2>14. ASSUME NEW i \in Instances, SIsMember(i) PROVE TypeOK'
    <3> DEFINE t == Head(pipe[i])
               n == [t EXCEPT !.cmd = IF t.sock \in members[t.room] THEN "count" ELSE "hset"]
    <3>1. t \in Tasks /\ t.cmd = "sismember" /\ pipe[i] # <<>>
      BY <2>14, HeadIsTask DEF SIsMember
    <3>2. n \in Tasks
      BY <3>1 DEF Tasks, Commands
    <3>3. Reply(i, <<n>>)
      BY <2>14 DEF SIsMember
    <3>4. pipe' \in [Instances -> Seq(Tasks)]
      BY <3>1, <3>2, <3>3, ReplyOne
    <3>5. QED
      BY <2>14, <3>4 DEF TypeOK, SIsMember, local, redis, front
  <2>15. ASSUME NEW i \in Instances, HSet(i) PROVE TypeOK'
    <3> DEFINE t == Head(pipe[i])
    <3>1. /\ t \in Tasks /\ t.cmd = "hset" /\ pipe[i] # <<>>
          /\ t.room \in Rooms /\ t.sock \in Sockets
      BY <2>15, HeadIsTask DEF HSet
    <3>2. [t EXCEPT !.cmd = "count"] \in Tasks
      BY <3>1 DEF Tasks, Commands
    <3>3. pipe' \in [Instances -> Seq(Tasks)]
      BY <2>15, <3>1, <3>2, ReplyOne DEF HSet
    <3>4. members' \in [Rooms -> SUBSET Sockets] /\ hash' \in [Sockets -> RoomOrNone]
      BY <2>15, <3>1 DEF TypeOK, HSet, RoomOrNone
    <3>5. QED
      BY <2>15, <3>3, <3>4 DEF TypeOK, HSet, local, front
  <2>16. ASSUME NEW i \in Instances, Count(i) PROVE TypeOK'
    <3> DEFINE t == Head(pipe[i])
               emit == Task("smembers", "emit", t.sock, t.room)
               join == Task("smembers", "join", t.sock, t.next)
               look == Task("lookup", "disconnect", t.sock, NoRoom)
    <3>1. /\ t \in Tasks /\ t.cmd = "count" /\ pipe[i] # <<>>
          /\ t.room \in Rooms /\ t.sock \in Sockets
          /\ t.job = "switch" => t.next \in Rooms
      <4>1. /\ t \in Tasks /\ t.cmd = "count" /\ pipe[i] # <<>>
            /\ t.room \in Rooms /\ t.sock \in Sockets
        BY <2>16, HeadIsTask DEF Count
      <4> HIDE DEF t
      <4>2. QED
        BY <4>1 DEF Tasks
    <3>2. emit \in Tasks /\ look \in Tasks /\ (t.job = "switch" => join \in Tasks)
      <4> HIDE DEF t
      <4>1. QED
        BY <3>1 DEF Task, Tasks, Commands, Jobs, RoomOrNone
    <3>3. CASE t.job \in {"join", "leave"} /\ Reply(i, <<emit>>) /\ UNCHANGED local
      <4>1. pipe' \in [Instances -> Seq(Tasks)]
        BY <3>1, <3>2, <3>3, ReplyOne
      <4>2. QED
        BY <2>16, <3>3, <4>1 DEF TypeOK, Count, local, redis, front
    <3>4. CASE t.job = "switch" /\ EnterRoom(t.sock, t.next) /\ Reply(i, <<emit, join>>) /\ UNCHANGED up
      <4>1. <<emit, join>> \in Seq(Tasks)
        BY <3>2, <3>4
      <4>2. pipe' \in [Instances -> Seq(Tasks)]
        BY <3>1, <3>4, <4>1, ReplyPipeType
      <4>3. current' \in [Sockets -> RoomOrNone] /\ ioRooms' \in [Sockets -> SUBSET Rooms]
        BY <3>1, <3>4 DEF EnterRoom, TypeOK, RoomOrNone
      <4>4. QED
        BY <2>16, <3>4, <4>2, <4>3 DEF TypeOK, Count, redis, front
    <3>5. CASE t.job = "disconnect" /\ Reply(i, <<emit, look>>) /\ UNCHANGED local
      <4>1. <<emit, look>> \in Seq(Tasks)
        BY <3>2
      <4>2. pipe' \in [Instances -> Seq(Tasks)]
        BY <3>1, <3>5, <4>1, ReplyPipeType
      <4>3. QED
        BY <2>16, <3>5, <4>2 DEF TypeOK, Count, local, redis, front
    <3>6. QED
      BY <2>16, <3>3, <3>4, <3>5 DEF Count
  <2>17. ASSUME NEW i \in Instances, Lookup(i) PROVE TypeOK'
    <3> DEFINE t == Head(pipe[i])
               purge == Task("srem", "purge", t.sock, hash[t.sock])
    <3>1. t \in Tasks /\ pipe[i] # <<>> /\ t.sock \in Sockets /\ hash[t.sock] \in RoomOrNone
      BY <2>17, HeadIsTask DEF Lookup, Tasks, TypeOK
    <3>2. hash[t.sock] # NoRoom => purge \in Tasks
      <4> HIDE DEF t
      <4>1. QED
        BY <3>1 DEF Task, Tasks, Commands, Jobs, RoomOrNone
    <3>3. Reply(i, IF hash[t.sock] = NoRoom THEN <<>> ELSE <<purge>>)
      BY <2>17 DEF Lookup
    <3>4. pipe' \in [Instances -> Seq(Tasks)]
      <4>1. (IF hash[t.sock] = NoRoom THEN <<>> ELSE <<purge>>) \in Seq(Tasks)
        BY <3>2
      <4>2. QED
        BY <3>1, <3>3, <4>1, ReplyPipeType
    <3>5. QED
      BY <2>17, <3>4 DEF TypeOK, Lookup, local, redis, front
  <2>18. ASSUME NEW i \in Instances, Crash(i) PROVE TypeOK'
    <3>1. up' \subseteq Sockets /\ ioRooms' \in [Sockets -> SUBSET Rooms]
      BY <2>18 DEF TypeOK, Crash
    <3>2. pipe' \in [Instances -> Seq(Tasks)]
      BY <2>18 DEF TypeOK, Crash
    <3>3. wire' \in [Instances \X Instances -> Seq([room : Rooms, users : SUBSET Sockets])]
      <4> DEFINE News == [room : Rooms, users : SUBSET Sockets]
      <4>1. wire \in [Instances \X Instances -> Seq(News)]
        BY DEF TypeOK
      <4>2. <<>> \in Seq(News)
        OBVIOUS
      <4> HIDE DEF News
      <4>3. wire' \in [Instances \X Instances -> Seq(News)]
        BY <2>18, <4>1, <4>2 DEF Crash
      <4>4. QED
        BY <4>3 DEF News
    <3>4. QED
      BY <2>18, <3>1, <3>2, <3>3 DEF TypeOK, Crash, redis
  <2>19. ASSUME NEW i \in Instances, NEW j \in Instances, Deliver(i, j) PROVE TypeOK'
    <3> DEFINE News == [room : Rooms, users : SUBSET Sockets]
               q == wire[<<i, j>>]
    <3>1. q \in Seq(News) /\ q # <<>>
      BY <2>19 DEF TypeOK, Deliver
    <3>2. Head(q) \in News /\ Tail(q) \in Seq(News)
      <4> HIDE DEF q, News
      <4>1. QED
        BY <3>1
    <3>3. shown' \in [Sockets -> SUBSET Sockets]
      BY <2>19, <3>2 DEF TypeOK, Deliver, Display
    <3>4. wire' \in [Instances \X Instances -> Seq(News)]
      BY <2>19, <3>2 DEF TypeOK, Deliver
    <3>5. QED
      BY <2>19, <3>3, <3>4 DEF TypeOK, Deliver, local, redis
  <2>20. CASE UNCHANGED vars
    BY <2>20 DEF TypeOK, vars, local, redis, front
  <2>21. QED
    BY <2>1, <2>2, <2>3, <2>4, <2>5, <2>6, <2>7, <2>8, <2>9, <2>10, <2>11, <2>12,
       <2>13, <2>14, <2>15, <2>16, <2>17, <2>18, <2>19, <2>20
    DEF Next, ClientEvent, RedisStep
<1>2. QED
  BY <1>1

(* Every variable keeps its type.                                           *)
THEOREM TypeCorrect == Spec => []TypeOK
<1>1. Init => TypeOK
  BY PresenceAssumption DEF Init, TypeOK, RoomOrNone
<1>2. TypeOK /\ [Next]_vars => TypeOK'
  BY TypeStep
<1>3. QED
  BY <1>1, <1>2, PTL DEF Spec

-----------------------------------------------------------------------------
(* A patient client is in one room                                          *)

(* Task t may still put socket s in a room.                                 *)
Enters(t, s) == t.sock = s /\ t.job \in EnteringJobs

(* Handlers run on the instance of their socket, and only handleJoin checks *)
(* and adds.                                                                *)
Shape(t, i) == HostOf[t.sock] = i /\ (t.cmd \in {"sismember", "hset"} => t.job = "join")

(* The room a socket is in while t is about to put it in one.               *)
Target(t) == IF t.job = "switch" THEN NoRoom ELSE t.room

Shapes == \A i \in Instances : \A n \in DOMAIN pipe[i] : Shape(pipe[i][n], i)

OneJoin ==
  \A s \in up : \A m, n \in DOMAIN pipe[HostOf[s]] :
    Enters(pipe[HostOf[s]][m], s) /\ Enters(pipe[HostOf[s]][n], s) => m = n

JoinsHere ==
  \A s \in up : \A n \in DOMAIN pipe[HostOf[s]] :
    Enters(pipe[HostOf[s]][n], s) => current[s] = Target(pipe[HostOf[s]][n])

(* The inductive invariant: besides SingleRoom, a connected socket has one  *)
(* join in progress at most, and that join is for the room it is in.        *)
RoomInv == TypeOK /\ Shapes /\ OneJoin /\ JoinsHere /\ SingleRoom

(* A step that changes neither sockets nor queues, and adds no member.      *)
LEMMA RoomInvStutter ==
  ASSUME RoomInv, TypeOK', UNCHANGED <<local, members, pipe>>
  PROVE  RoomInv'
  BY DEF RoomInv, Shapes, OneJoin, JoinsHere, SingleRoom, Leaving, Pending, local

(* An event of socket c starts the handler t.                               *)
LEMMA RoomInvSend ==
  ASSUME RoomInv, TypeOK', NEW c \in Sockets, NEW t \in Tasks, Send(c, t), UNCHANGED redis,
         t.sock = c, Shape(t, HostOf[c]), up' \subseteq up,
         \A s \in up' \ {c} : current'[s] = current[s] /\ ioRooms'[s] = ioRooms[s],
         c \in up' =>
           /\ ioRooms'[c] = {current'[c]} \ {NoRoom}
           /\ current'[c] # current[c] \/ t.job \in EnteringJobs => ~Entering(c)
           /\ t.job \in EnteringJobs => current'[c] = Target(t)
           /\ \A r \in Rooms : current[c] = r =>
                \/ current'[c] = r
                \/ t.cmd = "srem" /\ t.key = c /\ t.room = r /\ t.job \in {"leave", "switch"}
  PROVE  RoomInv'
<1> DEFINE h == HostOf[c]
           q == pipe[h]
<1>1. h \in Instances /\ q \in Seq(Tasks)
  BY PresenceAssumption DEF RoomInv, TypeOK
<1>2. /\ \A i \in Instances \ {h} : pipe'[i] = pipe[i]
      /\ pipe'[h] = Append(q, t)
      /\ DOMAIN q = 1 .. Len(q) /\ Len(q) \in Nat
      /\ DOMAIN pipe'[h] = 1 .. Len(q) + 1
      /\ \A n \in 1 .. Len(q) : pipe'[h][n] = q[n]
      /\ pipe'[h][Len(q) + 1] = t
  BY <1>1, SendType DEF Send, RoomInv, TypeOK
<1>3. \A s \in Sockets : HostOf[s] \in Instances
  BY PresenceAssumption
<1>4. Shapes'
  <2> SUFFICES ASSUME NEW i \in Instances, NEW n \in DOMAIN pipe'[i]
               PROVE  Shape(pipe'[i][n], i)
    BY DEF Shapes, Shape
  <2>1. Shapes
    BY DEF RoomInv
  <2>2. CASE i # h
    BY <1>2, <2>1, <2>2 DEF Shapes
  <2>3. CASE i = h /\ n \in 1 .. Len(q)
    BY <1>2, <2>1, <2>3 DEF Shapes
  <2>4. CASE i = h /\ n = Len(q) + 1
    BY <1>2, <2>4
  <2>5. QED
    BY <1>2, <2>2, <2>3, <2>4
<1>5. ~Entering(c) => \A n \in 1 .. Len(q) : ~Enters(q[n], c)
  BY <1>2 DEF Entering, Enters, Pending
<1>6. OneJoin'
  <2> SUFFICES ASSUME NEW s \in up', NEW m \in DOMAIN pipe'[HostOf[s]],
                      NEW n \in DOMAIN pipe'[HostOf[s]],
                      Enters(pipe'[HostOf[s]][m], s), Enters(pipe'[HostOf[s]][n], s)
               PROVE  m = n
    BY DEF OneJoin, Enters
  <2>1. CASE HostOf[s] # h
    BY <2>1, <1>2, <1>3 DEF RoomInv, OneJoin, TypeOK
  <2>2. CASE HostOf[s] = h
    <3>1. CASE m \in 1 .. Len(q) /\ n \in 1 .. Len(q)
      <4>1. Enters(q[m], s) /\ Enters(q[n], s) /\ s \in up
        BY <2>2, <3>1, <1>2
      <4>2. OneJoin /\ m \in DOMAIN pipe[HostOf[s]] /\ n \in DOMAIN pipe[HostOf[s]]
        BY <2>2, <3>1, <1>2 DEF RoomInv
      <4>3. QED
        BY <2>2, <4>1, <4>2 DEF OneJoin
    <3>2. CASE m = Len(q) + 1 \/ n = Len(q) + 1
      BY <2>2, <3>2, <1>2, <1>5 DEF Enters
    <3>3. QED
      BY <2>2, <3>1, <3>2, <1>2
  <2>3. QED
    BY <2>1, <2>2
<1>7. JoinsHere'
  <2> SUFFICES ASSUME NEW s \in up', NEW n \in DOMAIN pipe'[HostOf[s]],
                      Enters(pipe'[HostOf[s]][n], s)
               PROVE  current'[s] = Target(pipe'[HostOf[s]][n])
    BY DEF JoinsHere, Enters, Target
  <2>1. CASE HostOf[s] # h
    <3>1. s \in up /\ s \in Sockets /\ s # c /\ JoinsHere
      BY <2>1 DEF RoomInv, TypeOK
    <3>2. pipe'[HostOf[s]] = pipe[HostOf[s]] /\ current'[s] = current[s]
      BY <2>1, <3>1, <1>2, <1>3
    <3>3. QED
      BY <3>1, <3>2 DEF JoinsHere
  <2>2. CASE HostOf[s] = h /\ n \in 1 .. Len(q)
    <3>1. current[s] = Target(pipe'[h][n])
      <4>1. JoinsHere /\ s \in up /\ n \in DOMAIN pipe[HostOf[s]] /\ Enters(q[n], s)
        BY <2>2, <1>2 DEF RoomInv
      <4>2. QED
        BY <2>2, <4>1, <1>2 DEF JoinsHere
    <3>2. current'[s] = current[s]
      BY <2>2, <1>2, <1>5
    <3>3. QED
      BY <2>2, <3>1, <3>2
  <2>3. CASE HostOf[s] = h /\ n = Len(q) + 1
    BY <2>3, <1>2 DEF Enters
  <2>4. QED
    BY <2>1, <2>2, <2>3, <1>2
<1>8. ASSUME NEW s \in Sockets, NEW r \in Rooms, Leaving(s, r) PROVE Leaving(s, r)'
  <2>1. PICK n \in DOMAIN pipe[HostOf[s]] :
          LET u == pipe[HostOf[s]][n] IN
          u.cmd = "srem" /\ u.key = s /\ u.room = r /\ u.job \in {"leave", "switch"}
    BY <1>8 DEF Leaving, Pending
  <2>2. n \in DOMAIN pipe'[HostOf[s]] /\ pipe'[HostOf[s]][n] = pipe[HostOf[s]][n]
    BY <1>2, <1>3, <2>1
  <2>3. QED
    BY <2>1, <2>2 DEF Leaving, Pending
<1>9. SingleRoom'
  <2> SUFFICES ASSUME NEW s \in up'
               PROVE  /\ ioRooms'[s] = {current'[s]} \ {NoRoom}
                      /\ \A r \in Rooms : s \in members'[r] => current'[s] = r \/ Leaving(s, r)'
    BY DEF SingleRoom
  <2>1. s \in Sockets /\ s \in up
    BY DEF RoomInv, TypeOK
  <2>2. ioRooms'[s] = {current'[s]} \ {NoRoom}
    BY <2>1 DEF RoomInv, SingleRoom
  <2>3. ASSUME NEW r \in Rooms, s \in members'[r] PROVE current'[s] = r \/ Leaving(s, r)'
    <3>1. current[s] = r \/ Leaving(s, r)
      BY <2>1, <2>3 DEF RoomInv, SingleRoom, redis
    <3>2. CASE Leaving(s, r)
      BY <3>2, <2>1, <1>8
    <3>3. CASE current[s] = r /\ current'[s] # r
      <4>1. /\ s = c
            /\ t.cmd = "srem" /\ t.key = c /\ t.room = r /\ t.job \in {"leave", "switch"}
        BY <3>3
      <4>2. t \in Pending(h)'
        BY <1>1, <1>2 DEF Pending
      <4>3. QED
        BY <4>1, <4>2 DEF Leaving
    <3>4. QED
      BY <3>1, <3>2, <3>3
  <2>4. QED
    BY <2>2, <2>3
<1>10. QED
  BY <1>4, <1>6, <1>7, <1>9 DEF RoomInv

(* Redis answers the handler t at the head of the queue of instance i,      *)
(* which goes on with ts.                                                   *)
LEMMA RoomInvReply ==
  ASSUME RoomInv, TypeOK', NEW i \in Instances, pipe[i] # <<>>,
         NEW t \in Tasks, t = Head(pipe[i]),
         NEW ts \in Seq(Tasks), Reply(i, ts), up' = up,
         \A s \in up \ {t.sock} : current'[s] = current[s] /\ ioRooms'[s] = ioRooms[s],
         \A k \in DOMAIN ts : Shape(ts[k], i),
         \A k \in DOMAIN ts : ts[k].job \in EnteringJobs =>
            Enters(t, ts[k].sock) /\ (t.sock \in up => current'[t.sock] = Target(ts[k])),
         \A k, l \in DOMAIN ts :
            ts[k].job \in EnteringJobs /\ ts[l].job \in EnteringJobs => k = l,
         t.sock \in up =>
            /\ ioRooms'[t.sock] = {current'[t.sock]} \ {NoRoom}
            /\ current'[t.sock] # current[t.sock] =>
                 current[t.sock] = NoRoom /\ t.job \in EnteringJobs,
         \A r \in Rooms : \A s \in members'[r] :
            s \in members[r] \/ (t.cmd = "hset" /\ t.sock = s /\ t.room = r
                                   /\ current'[s] = current[s]),
         t.cmd = "srem" => t.key \notin members'[t.room]
  PROVE  RoomInv'
<1> DEFINE q == pipe[i]
           L == Len(q)
<1>1. /\ q \in Seq(Tasks) /\ q # <<>> /\ L \in Nat /\ L >= 1 /\ DOMAIN q = 1 .. L /\ q[1] = t
      /\ Len(ts) \in Nat /\ DOMAIN ts = 1 .. Len(ts)
  <2>1. q \in Seq(Tasks)
    BY DEF RoomInv, TypeOK
  <2>2. QED
    BY <2>1
<1>2. /\ \A j \in Instances \ {i} : pipe'[j] = pipe[j]
      /\ pipe'[i] = Tail(q) \o ts
      /\ DOMAIN pipe'[i] = 1 .. L - 1 + Len(ts)
  <2>1. /\ \A j \in Instances \ {i} : pipe'[j] = pipe[j]
        /\ pipe'[i] = Tail(q) \o ts
    BY DEF Reply, RoomInv, TypeOK
  <2>2. QED
    BY <1>1, <2>1, ReplyType
<1>3. /\ \A n \in 1 .. L - 1 : pipe'[i][n] = q[n + 1]
      /\ \A k \in 1 .. Len(ts) : pipe'[i][L - 1 + k] = ts[k]
  <2>1. /\ \A n \in 1 .. L - 1 : (Tail(q) \o ts)[n] = q[n + 1]
        /\ \A k \in 1 .. Len(ts) : (Tail(q) \o ts)[L - 1 + k] = ts[k]
    <3> HIDE DEF q
    <3>1. QED
      BY <1>1, ReplyType
  <2> DEFINE answered == pipe'[i]
  <2>2. answered = Tail(q) \o ts
    BY <1>2
  <2> HIDE DEF q, L, answered
  <2>3. /\ \A n \in 1 .. L - 1 : answered[n] = q[n + 1]
        /\ \A k \in 1 .. Len(ts) : answered[L - 1 + k] = ts[k]
    BY <2>1, <2>2
  <2>4. QED
    BY <2>3 DEF answered
<1>4. \A n \in DOMAIN pipe'[i] :
        \/ n \in 1 .. L - 1 /\ n + 1 \in DOMAIN q
        \/ n - (L - 1) \in DOMAIN ts /\ pipe'[i][n] = ts[n - (L - 1)]
  <2> SUFFICES ASSUME NEW n \in DOMAIN pipe'[i], n \notin 1 .. L - 1
               PROVE  n - (L - 1) \in DOMAIN ts /\ pipe'[i][n] = ts[n - (L - 1)]
    BY <1>1
  <2> DEFINE k == n - (L - 1)
  <2>1. k \in 1 .. Len(ts) /\ n = L - 1 + k
    BY <1>1, <1>2
  <2>2. QED
    BY <1>1, <1>3, <2>1
<1>5. \A s \in Sockets : HostOf[s] \in Instances
  BY PresenceAssumption
<1>6. Shapes /\ OneJoin /\ JoinsHere /\ SingleRoom /\ up \subseteq Sockets
  BY DEF RoomInv, TypeOK
<1>7. HostOf[t.sock] = i /\ (t.cmd = "hset" => t.job = "join")
  BY <1>1, <1>6 DEF Shapes, Shape
<1>8. Shapes'
  <2> SUFFICES ASSUME NEW j \in Instances, NEW n \in DOMAIN pipe'[j]
               PROVE  Shape(pipe'[j][n], j)
    BY DEF Shapes, Shape
  <2>1. CASE j # i
    BY <1>2, <1>6, <2>1 DEF Shapes
  <2>2. CASE j = i
    BY <1>3, <1>4, <1>6, <2>2 DEF Shapes
  <2>3. QED
    BY <2>1, <2>2
<1>9. OneJoin'
  <2> SUFFICES ASSUME NEW s \in up, NEW m \in DOMAIN pipe'[HostOf[s]],
                      NEW n \in DOMAIN pipe'[HostOf[s]],
                      Enters(pipe'[HostOf[s]][m], s), Enters(pipe'[HostOf[s]][n], s)
               PROVE  m = n
    BY DEF OneJoin, Enters
  <2>0. HostOf[s] \in Instances
    BY <1>5, <1>6
  <2>1. CASE HostOf[s] # i
    <3>1. pipe'[HostOf[s]] = pipe[HostOf[s]]
      BY <1>2, <2>0, <2>1
    <3>2. QED
      BY <1>6, <3>1 DEF OneJoin
  <2>2. CASE HostOf[s] = i
    <3>1. \A a, b \in DOMAIN q : Enters(q[a], s) /\ Enters(q[b], s) => a = b
      BY <1>6, <2>2 DEF OneJoin
    <3>2. \A k \in DOMAIN ts : Enters(ts[k], s) => Enters(q[1], s)
      BY <1>1 DEF Enters
    <3>3. CASE m \in 1 .. L - 1 /\ n \in 1 .. L - 1
      <4>1. Enters(q[m + 1], s) /\ Enters(q[n + 1], s)
        BY <1>3, <2>2, <3>3
      <4>2. m + 1 \in DOMAIN q /\ n + 1 \in DOMAIN q
        BY <1>1, <3>3
      <4>3. m + 1 = n + 1
        BY <3>1, <4>1, <4>2
      <4>4. QED
        BY <1>1, <3>3, <4>3
    <3>4. ASSUME NEW a \in 1 .. L - 1, Enters(q[a + 1], s), Enters(q[1], s) PROVE FALSE
      <4>1. a + 1 \in DOMAIN q /\ 1 \in DOMAIN q /\ a + 1 # 1
        BY <1>1
      <4>2. QED
        BY <3>1, <3>4, <4>1
    <3>5. CASE m \in 1 .. L - 1 /\ n \notin 1 .. L - 1
      <4>1. Enters(q[m + 1], s) /\ Enters(q[1], s)
        BY <1>3, <1>4, <2>2, <3>2, <3>5
      <4>2. QED
        BY <3>4, <3>5, <4>1
    <3>6. CASE m \notin 1 .. L - 1 /\ n \in 1 .. L - 1
      <4>1. Enters(q[n + 1], s) /\ Enters(q[1], s)
        BY <1>3, <1>4, <2>2, <3>2, <3>6
      <4>2. QED
        BY <3>4, <3>6, <4>1
    <3>7. CASE m \notin 1 .. L - 1 /\ n \notin 1 .. L - 1
      <4>1. /\ m - (L - 1) \in DOMAIN ts /\ ts[m - (L - 1)].job \in EnteringJobs
            /\ n - (L - 1) \in DOMAIN ts /\ ts[n - (L - 1)].job \in EnteringJobs
        BY <1>4, <2>2, <3>7 DEF Enters
      <4>2. m - (L - 1) = n - (L - 1)
        BY <4>1
      <4>3. m \in Nat /\ n \in Nat
        BY <1>1, <1>2, <2>2
      <4>4. QED
        BY <1>1, <4>2, <4>3
    <3>8. QED
      BY <3>3, <3>5, <3>6, <3>7
  <2>3. QED
    BY <2>1, <2>2
<1>10. JoinsHere'
  <2> SUFFICES ASSUME NEW s \in up, NEW n \in DOMAIN pipe'[HostOf[s]],
                      Enters(pipe'[HostOf[s]][n], s)
               PROVE  current'[s] = Target(pipe'[HostOf[s]][n])
    BY DEF JoinsHere, Enters, Target
  <2>0. HostOf[s] \in Instances
    BY <1>5, <1>6
  <2>1. CASE HostOf[s] # i
    <3>1. pipe'[HostOf[s]] = pipe[HostOf[s]] /\ s # t.sock
      BY <1>2, <1>7, <2>0, <2>1
    <3>2. QED
      BY <1>6, <3>1 DEF JoinsHere
  <2>2. CASE HostOf[s] = i /\ n \in 1 .. L - 1
    <3>1. n + 1 \in DOMAIN q /\ pipe'[i][n] = q[n + 1] /\ Enters(q[n + 1], s)
      BY <1>1, <1>3, <2>2
    <3>2. current[s] = Target(q[n + 1])
      BY <1>6, <2>2, <3>1 DEF JoinsHere
    <3>3. current'[s] = current[s]
      <4>1. SUFFICES ASSUME s = t.sock, t.job \in EnteringJobs PROVE FALSE
        OBVIOUS
      <4>2. Enters(q[1], s) /\ 1 \in DOMAIN q /\ n + 1 # 1
        BY <1>1, <2>2, <4>1 DEF Enters
      <4>3. QED
        BY <1>6, <2>2, <3>1, <4>2 DEF OneJoin
    <3>4. QED
      BY <2>2, <3>1, <3>2, <3>3
  <2>3. CASE HostOf[s] = i /\ n \notin 1 .. L - 1
    <3>1. PICK k \in DOMAIN ts : pipe'[i][n] = ts[k]
      BY <1>4, <2>3
    <3>2. ts[k].job \in EnteringJobs /\ ts[k].sock = s
      BY <2>3, <3>1 DEF Enters
    <3>3. t.sock = s
      BY <3>2 DEF Enters
    <3>4. QED
      BY <2>3, <3>1, <3>2, <3>3
  <2>4. QED
    BY <2>1, <2>2, <2>3
<1>11. ASSUME NEW s \in Sockets, NEW r \in Rooms, Leaving(s, r), s \in members'[r]
       PROVE  Leaving(s, r)'
  <2>1. PICK n \in DOMAIN pipe[HostOf[s]] :
          LET u == pipe[HostOf[s]][n] IN
          u.cmd = "srem" /\ u.key = s /\ u.room = r /\ u.job \in {"leave", "switch"}
    BY <1>11 DEF Leaving, Pending
  <2>2. \E m \in DOMAIN pipe'[HostOf[s]] : pipe'[HostOf[s]][m] = pipe[HostOf[s]][n]
    <3>1. CASE HostOf[s] # i
      BY <1>2, <1>5, <2>1, <3>1
    <3>2. CASE HostOf[s] = i
      <4>1. n # 1
        BY <1>1, <1>11, <2>1, <3>2
      <4>2. n \in 1 .. L /\ n - 1 \in 1 .. L - 1 /\ (n - 1) + 1 = n
        BY <1>1, <2>1, <3>2, <4>1
      <4>3. n - 1 \in DOMAIN pipe'[i] /\ pipe'[i][n - 1] = q[n]
        BY <1>1, <1>2, <1>3, <4>2
      <4>4. QED
        BY <3>2, <4>3
    <3>3. QED
      BY <3>1, <3>2
  <2>3. QED
    BY <2>1, <2>2 DEF Leaving, Pending
<1>12. SingleRoom'
  <2> SUFFICES ASSUME NEW s \in up
               PROVE  /\ ioRooms'[s] = {current'[s]} \ {NoRoom}
                      /\ \A r \in Rooms : s \in members'[r] => current'[s] = r \/ Leaving(s, r)'
    BY DEF SingleRoom
  <2>1. s \in Sockets
    BY <1>6
  <2>2. ioRooms'[s] = {current'[s]} \ {NoRoom}
    BY <1>6 DEF SingleRoom
  <2>3. ASSUME NEW r \in Rooms, s \in members'[r] PROVE current'[s] = r \/ Leaving(s, r)'
    <3>1. CASE s \in members[r]
      <4>1. current[s] = r \/ Leaving(s, r)
        BY <1>6, <3>1 DEF SingleRoom
      <4>2. CASE Leaving(s, r)
        BY <1>11, <2>1, <2>3, <4>2
      <4>3. CASE current[s] = r
        <5>1. current[s] # NoRoom
          BY <4>3, PresenceAssumption
        <5>2. current'[s] = current[s]
          BY <5>1
        <5>3. QED
          BY <4>3, <5>2
      <4>4. QED
        BY <4>1, <4>2, <4>3
    <3>2. CASE t.cmd = "hset" /\ t.sock = s /\ t.room = r /\ current'[s] = current[s]
      <4>1. t.job = "join" /\ HostOf[s] = i
        BY <1>7, <3>2
      <4>2. Enters(q[1], s) /\ 1 \in DOMAIN q
        BY <1>1, <3>2, <4>1 DEF Enters, EnteringJobs
      <4>3. current[s] = Target(t)
        <5>1. 1 \in DOMAIN pipe[HostOf[s]] /\ pipe[HostOf[s]][1] = t
          BY <1>1, <4>1
        <5>2. QED
          BY <1>1, <1>6, <4>2, <5>1 DEF JoinsHere
      <4>4. QED
        BY <3>2, <4>1, <4>3 DEF Target
    <3>3. QED
      BY <2>3, <3>1, <3>2
  <2>4. QED
    BY <2>2, <2>3
<1>13. QED
  BY <1>8, <1>9, <1>10, <1>12 DEF RoomInv

(* Task u goes on with what t was doing, for the same socket and room.      *)
GoesOn(u, t) ==
  /\ u.sock = t.sock
  /\ u.cmd \in {"sismember", "hset"} => u.job = "join"
  /\ u.job \in EnteringJobs =>
       t.job \in EnteringJobs /\ (u.job = "switch" <=> t.job = "switch") /\ u.room = t.room

(* The same when the answer changes no socket: what the handler goes on with*)
(* is for the same socket and room.                                         *)
LEMMA RoomInvAnswer ==
  ASSUME RoomInv, TypeOK', NEW i \in Instances, pipe[i] # <<>>,
         NEW t \in Tasks, t = Head(pipe[i]),
         NEW ts \in Seq(Tasks), Reply(i, ts), UNCHANGED local,
         \A k \in DOMAIN ts : GoesOn(ts[k], t),
         \A k, l \in DOMAIN ts :
            ts[k].job \in EnteringJobs /\ ts[l].job \in EnteringJobs => k = l,
         \A r \in Rooms : \A s \in members'[r] :
            s \in members[r] \/ (t.cmd = "hset" /\ t.sock = s /\ t.room = r),
         t.cmd = "srem" => t.key \notin members'[t.room]
  PROVE  RoomInv'
<1>1. pipe[i] \in Seq(Tasks) /\ 1 \in DOMAIN pipe[i] /\ pipe[i][1] = t
  BY DEF RoomInv, TypeOK
<1>2. HostOf[t.sock] = i
  BY <1>1 DEF RoomInv, Shapes, Shape
<1>3. t.sock \in up /\ t.job \in EnteringJobs => current[t.sock] = Target(t)
  <2>1. SUFFICES ASSUME t.sock \in up, t.job \in EnteringJobs PROVE current[t.sock] = Target(t)
    OBVIOUS
  <2>2. Enters(t, t.sock) /\ 1 \in DOMAIN pipe[HostOf[t.sock]] /\ pipe[HostOf[t.sock]][1] = t
    BY <1>1, <1>2, <2>1, Z3 DEF Enters
  <2>3. JoinsHere
    BY DEF RoomInv
  <2>4. QED
    BY <2>1, <2>2, <2>3 DEF JoinsHere
<1>4. \A k \in DOMAIN ts : Shape(ts[k], i)
  BY <1>2 DEF Shape, GoesOn
<1>5. \A k \in DOMAIN ts : ts[k].job \in EnteringJobs =>
        Enters(t, ts[k].sock) /\ (t.sock \in up => current'[t.sock] = Target(ts[k]))
  BY <1>3 DEF Enters, Target, GoesOn, local
<1>6. t.sock \in up => ioRooms'[t.sock] = {current'[t.sock]} \ {NoRoom}
  BY DEF RoomInv, SingleRoom, local
<1>7. up' = up /\ current' = current /\ ioRooms' = ioRooms
  BY DEF local
<1>8. \A r \in Rooms : \A s \in members'[r] :
        s \in members[r] \/ (t.cmd = "hset" /\ t.sock = s /\ t.room = r /\ current'[s] = current[s])
  BY <1>7
<1>9. QED
  BY <1>4, <1>5, <1>6, <1>7, <1>8, RoomInvReply

(* What removeUserPreviousConnections goes on with.                         *)
LEMMA EvictOrCheckShape ==
  ASSUME NEW t \in Tasks, NEW old \in SUBSET Sockets, NEW n \in EvictOrCheck(t, old)
  PROVE  /\ n.sock = t.sock /\ n.room = t.room /\ n.job \in {"join", "evict"}
         /\ n.cmd \in {"sismember", "hset"} => n.job = "join"
<1>1. CASE old = {}
  BY <1>1 DEF EvictOrCheck, Tasks
<1>2. CASE old # {}
  BY <1>2 DEF EvictOrCheck, Tasks
<1>3. QED
  BY <1>1, <1>2

(* What follows removeUserFromRoom is at most one command, for the same     *)
(* socket and room.                                                         *)
LEMMA AfterRemovalShape ==
  ASSUME NEW t \in Tasks, NEW ts \in AfterRemoval(t)
  PROVE  /\ DOMAIN ts \subseteq {1}
         /\ \A k \in DOMAIN ts : GoesOn(ts[k], t)
<1>1. CASE t.job = "evict"
  <2>1. t.keys \in SUBSET Sockets
    BY DEF Tasks
  <2>2. PICK n \in EvictOrCheck(t, t.keys) : ts = <<n>>
    BY <1>1 DEF AfterRemoval
  <2>3. DOMAIN ts = {1} /\ ts[1] = n
    BY <2>2
  <2>4. GoesOn(n, t)
    BY <1>1, <2>1, EvictOrCheckShape DEF GoesOn, EnteringJobs
  <2>5. QED
    BY <2>3, <2>4
<1>2. CASE t.job = "purge"
  BY <1>2 DEF AfterRemoval
<1>3. CASE t.job \notin {"evict", "purge"}
  <2> DEFINE n == [t EXCEPT !.cmd = "count"]
  <2>1. ts = <<n>>
    BY <1>3 DEF AfterRemoval
  <2>2. DOMAIN ts = {1} /\ ts[1] = n
    BY <2>1
  <2>3. n.sock = t.sock /\ n.room = t.room /\ n.job = t.job /\ n.cmd = "count"
    BY DEF Tasks
  <2> HIDE DEF n
  <2>4. GoesOn(n, t)
    BY <2>3 DEF GoesOn
  <2>5. QED
    BY <2>2, <2>4
<1>4. QED
  BY <1>1, <1>2, <1>3

(* getRoomUsers returned to the handler t.                                  *)
LEMMA RoomInvListed ==
  ASSUME RoomInv, TypeOK', NEW i \in Instances, pipe[i] # <<>>, UNCHANGED <<local, members>>,
         NEW h \in Tasks, h = Head(pipe[i]), h.cmd \notin {"srem", "hset"},
         NEW t \in Tasks, t.room \in Rooms, t.room = h.room, t.sock = h.sock, t.job = h.job,
         NEW users \in SUBSET Sockets,
         NEW cleaning \in Seq(Tasks), Len(cleaning) <= 1,
         \A k \in DOMAIN cleaning :
           cleaning[k].sock = t.sock /\ cleaning[k].job = "clean" /\ cleaning[k].cmd = "cleanup",
         Listed(i, t, users, cleaning)
  PROVE  RoomInv'
<1>0. /\ UNCHANGED local /\ members' = members
      /\ DOMAIN cleaning = 1 .. Len(cleaning) /\ Len(cleaning) \in Nat
  OBVIOUS
<1>1. CASE t.job = "join" /\ \E n \in EvictOrCheck(t, OldConnections(t, users)) :
                               Reply(i, Append(cleaning, n))
  <2>1. PICK n \in EvictOrCheck(t, OldConnections(t, users)) : Reply(i, Append(cleaning, n))
    BY <1>1
  <2>2. OldConnections(t, users) \in SUBSET Sockets
    BY DEF OldConnections
  <2>3. n \in Tasks
    BY <2>2, EvictOrCheckType
  <2>4. /\ n.sock = t.sock /\ n.room = t.room /\ n.job \in {"join", "evict"}
        /\ n.cmd \in {"sismember", "hset"} => n.job = "join"
    BY <2>2, EvictOrCheckShape
  <2> DEFINE ts == Append(cleaning, n)
  <2>5. /\ ts \in Seq(Tasks)
        /\ \A k \in DOMAIN ts :
             \/ k = Len(cleaning) + 1 /\ ts[k] = n
             \/ k \in DOMAIN cleaning /\ ts[k] = cleaning[k]
    <3>1. /\ ts \in Seq(Tasks) /\ DOMAIN ts = 1 .. Len(cleaning) + 1
          /\ ts[Len(cleaning) + 1] = n
          /\ \A k \in 1 .. Len(cleaning) : ts[k] = cleaning[k]
      BY <1>0, <2>3, SendType
    <3> HIDE DEF ts
    <3>2. QED
      BY <1>0, <3>1
  <2> HIDE DEF ts
  <2>6. \A k \in DOMAIN ts : GoesOn(ts[k], h)
    <3>1. GoesOn(n, h)
      BY <1>1, <2>4 DEF GoesOn, EnteringJobs
    <3>2. \A k \in DOMAIN cleaning : GoesOn(cleaning[k], h)
      BY DEF GoesOn, EnteringJobs
    <3>3. QED
      BY <2>5, <3>1, <3>2
  <2>7. \A k, l \in DOMAIN ts :
            ts[k].job \in EnteringJobs /\ ts[l].job \in EnteringJobs => k = l
    BY <2>5 DEF EnteringJobs
  <2>8. Reply(i, ts)
    BY <2>1 DEF ts
  <2>9. QED
    BY <1>0, <2>5, <2>6, <2>7, <2>8, RoomInvAnswer
<1>2. CASE Reply(i, cleaning)
  <2>1. \A k \in DOMAIN cleaning : GoesOn(cleaning[k], h) /\ cleaning[k].job \notin EnteringJobs
    BY DEF GoesOn, EnteringJobs
  <2>2. QED
    BY <1>0, <1>2, <2>1, RoomInvAnswer
<1>3. QED
  BY <1>1, <1>2 DEF Listed

(* removeUserFromRoom has returned to the handler t.                        *)
LEMMA RoomInvRemoved ==
  ASSUME RoomInv, TypeOK', NEW i \in Instances, pipe[i] # <<>>, UNCHANGED local,
         NEW t \in Tasks, t = Head(pipe[i]), t.room \in Rooms, t.cmd \notin {"srem", "hset"},
         \A r \in Rooms : members'[r] \subseteq members[r],
         NEW ts \in AfterRemoval(t), Reply(i, ts)
  PROVE  RoomInv'
<1>1. ts \in Seq(Tasks)
  BY AfterRemovalType
<1>2. \A k \in DOMAIN ts : GoesOn(ts[k], t)
  BY AfterRemovalShape
<1>3. \A k, l \in DOMAIN ts : k = l
  BY AfterRemovalShape
<1>4. QED
  BY <1>1, <1>2, <1>3, RoomInvAnswer

LEMMA RoomInvStep ==
  ASSUME Patient, RoomInv, [Next]_vars
  PROVE  RoomInv'
<1>0. TypeOK'
  BY TypeStep DEF RoomInv
<1>a. ASSUME NEW s \in Sockets, NEW cmd \in Commands, NEW job \in Jobs, NEW r
      PROVE  LET t == Task(cmd, job, s, r) IN
             /\ t.sock = s /\ t.key = s /\ t.room = r /\ t.job = job /\ t.cmd = cmd
             /\ cmd \notin {"sismember", "hset"} => Shape(t, HostOf[s])
  BY DEF Task, Shape
<1>b. ASSUME NEW s \in Sockets, Act(s) PROVE s \in up /\ ~Entering(s)
  BY <1>b DEF Act
<1>t. TypeOK
  BY DEF RoomInv
<1>1. ASSUME NEW s \in Sockets, NEW r \in Rooms, JoinAgain(s, r) PROVE RoomInv'
  <2> DEFINE t == Task("smembers", "emit", s, r)
  <2>1. t \in Tasks
    BY TaskType DEF Commands, Jobs, RoomOrNone
  <2>2. t.sock = s /\ Shape(t, HostOf[s]) /\ t.job \notin EnteringJobs
    BY <1>a DEF Commands, Jobs, EnteringJobs
  <2>3. Send(s, t) /\ UNCHANGED <<local, redis>>
    BY <1>1 DEF JoinAgain
  <2> HIDE DEF t
  <2>4. s \in up => ioRooms[s] = {current[s]} \ {NoRoom}
    BY DEF RoomInv, SingleRoom
  <2>5. QED
    BY <1>0, <2>1, <2>2, <2>3, <2>4, RoomInvSend DEF local
<1>2. ASSUME NEW s \in Sockets, NEW r \in Rooms, JoinFromOther(s, r) PROVE RoomInv'
  <2> DEFINE t == [Task("srem", "switch", s, current[s]) EXCEPT !.next = r]
  <2>1. current[s] \in Rooms /\ current[s] # NoRoom
    BY <1>2, <1>t DEF JoinFromOther, TypeOK, RoomOrNone
  <2>2. t \in Tasks
    BY <2>1 DEF Task, Tasks, Commands, Jobs, RoomOrNone
  <2>3. /\ t.sock = s /\ t.cmd = "srem" /\ t.key = s /\ t.room = current[s] /\ t.job = "switch"
        /\ Shape(t, HostOf[s])
    BY DEF Task, Shape
  <2>4. /\ Send(s, t) /\ UNCHANGED redis /\ up' = up /\ s \in up /\ ~Entering(s)
        /\ ioRooms' = [ioRooms EXCEPT ![s] = @ \ {current[s]}]
        /\ current' = [current EXCEPT ![s] = NoRoom]
    BY <1>2, <1>b DEF JoinFromOther
  <2>5. ioRooms[s] = {current[s]}
    BY <2>1, <2>4 DEF RoomInv, SingleRoom
  <2>6. /\ ioRooms'[s] = {} /\ current'[s] = NoRoom
        /\ \A x \in up' \ {s} : current'[x] = current[x] /\ ioRooms'[x] = ioRooms[x]
    BY <1>t, <2>4, <2>5 DEF TypeOK
  <2>7. current'[s] = Target(t)
    BY <2>3, <2>6 DEF Target
  <2> HIDE DEF t
  <2>8. QED
    BY <1>0, <2>2, <2>3, <2>4, <2>6, <2>7, RoomInvSend
<1>3. ASSUME NEW s \in Sockets, NEW r \in Rooms, JoinFresh(s, r) PROVE RoomInv'
  <2> DEFINE t == Task("smembers", "join", s, r)
  <2>1. t \in Tasks
    BY TaskType DEF Commands, Jobs, RoomOrNone
  <2>2. t.sock = s /\ Shape(t, HostOf[s]) /\ Target(t) = r
    BY <1>a DEF Commands, Jobs, Target
  <2>3. /\ Send(s, t) /\ UNCHANGED redis /\ up' = up /\ s \in up /\ ~Entering(s)
        /\ current[s] = NoRoom /\ EnterRoom(s, r)
    BY <1>3, <1>b DEF JoinFresh
  <2>4. ioRooms[s] = {}
    BY <2>3 DEF RoomInv, SingleRoom
  <2>5. /\ ioRooms'[s] = {r} /\ current'[s] = r
        /\ \A x \in up' \ {s} : current'[x] = current[x] /\ ioRooms'[x] = ioRooms[x]
    BY <1>t, <2>3, <2>4 DEF TypeOK, EnterRoom
  <2>6. NoRoom \notin Rooms
    BY PresenceAssumption
  <2> HIDE DEF t
  <2>7. QED
    BY <1>0, <2>1, <2>2, <2>3, <2>5, <2>6, RoomInvSend
<1>4. ASSUME NEW s \in Sockets, NEW r \in Rooms, Leave(s, r) PROVE RoomInv'
  <2> DEFINE t == Task("srem", "leave", s, r)
  <2>1. t \in Tasks
    BY TaskType DEF Commands, Jobs, RoomOrNone
  <2>2. /\ t.sock = s /\ t.cmd = "srem" /\ t.key = s /\ t.room = r /\ t.job = "leave"
        /\ Shape(t, HostOf[s]) /\ t.job \notin EnteringJobs
    BY <1>a DEF Commands, Jobs, EnteringJobs
  <2>3. /\ Send(s, t) /\ UNCHANGED redis /\ up' = up /\ s \in up /\ ~Entering(s)
        /\ ioRooms' = [ioRooms EXCEPT ![s] = @ \ {r}]
        /\ current' = [current EXCEPT ![s] = IF @ = r THEN NoRoom ELSE @]
    BY <1>4, <1>b DEF Leave
  <2>4. ioRooms[s] = {current[s]} \ {NoRoom}
    BY <2>3 DEF RoomInv, SingleRoom
  <2>5. /\ current'[s] = IF current[s] = r THEN NoRoom ELSE current[s]
        /\ ioRooms'[s] = ({current[s]} \ {NoRoom}) \ {r}
        /\ \A x \in up' \ {s} : current'[x] = current[x] /\ ioRooms'[x] = ioRooms[x]
    BY <1>t, <2>3, <2>4 DEF TypeOK
  <2>6. ioRooms'[s] = {current'[s]} \ {NoRoom}
    BY <2>5
  <2> HIDE DEF t
  <2>7. QED
    BY <1>0, <2>1, <2>2, <2>3, <2>5, <2>6, RoomInvSend
<1>5. ASSUME NEW s \in Sockets, NEW r \in Rooms, ListUsers(s, r) PROVE RoomInv'
  <2> DEFINE t == Task("smembers", "read", s, r)
  <2>1. t \in Tasks
    BY TaskType DEF Commands, Jobs, RoomOrNone
  <2>2. t.sock = s /\ Shape(t, HostOf[s]) /\ t.job \notin EnteringJobs
    BY <1>a DEF Commands, Jobs, EnteringJobs
  <2>3. Send(s, t) /\ UNCHANGED <<local, redis>>
    BY <1>5 DEF ListUsers
  <2> HIDE DEF t
  <2>4. s \in up => ioRooms[s] = {current[s]} \ {NoRoom}
    BY DEF RoomInv, SingleRoom
  <2>5. QED
    BY <1>0, <2>1, <2>2, <2>3, <2>4, RoomInvSend DEF local
<1>6. ASSUME NEW s \in Sockets, Disconnect(s) PROVE RoomInv'
  <2>1. PICK t \in Tasks : Send(s, t) /\ t.sock = s /\ Shape(t, HostOf[s])
    <3>1. CASE current[s] # NoRoom /\ Send(s, Task("srem", "disconnect", s, current[s]))
      <4>1. current[s] \in Rooms
        BY <1>t, <3>1 DEF TypeOK, RoomOrNone
      <4>2. Task("srem", "disconnect", s, current[s]) \in Tasks
        BY <4>1, TaskType DEF Commands, Jobs, RoomOrNone
      <4>3. QED
        BY <1>a, <3>1, <4>2 DEF Commands, Jobs
    <3>2. CASE Send(s, Task("lookup", "disconnect", s, NoRoom))
      <4>1. Task("lookup", "disconnect", s, NoRoom) \in Tasks
        BY TaskType DEF Commands, Jobs, RoomOrNone
      <4>2. QED
        BY <1>a, <3>2, <4>1 DEF Commands, Jobs
    <3>3. QED
      BY <1>6, <3>1, <3>2 DEF Disconnect
  <2>2. /\ UNCHANGED redis /\ up' \subseteq up /\ s \notin up' /\ current' = current
        /\ ioRooms' = [ioRooms EXCEPT ![s] = {}]
    BY <1>6 DEF Disconnect
  <2>3. \A x \in up' \ {s} : current'[x] = current[x] /\ ioRooms'[x] = ioRooms[x]
    BY <1>t, <2>2 DEF TypeOK
  <2>4. QED
    BY <1>0, <2>1, <2>2, <2>3, RoomInvSend
<1>7. ASSUME NEW s \in Sockets, Expire(s) PROVE RoomInv'
  BY <1>0, <1>7, RoomInvStutter DEF Expire
<1>8. ASSUME NEW i \in Instances, NEW j \in Instances, Deliver(i, j) PROVE RoomInv'
  BY <1>0, <1>8, RoomInvStutter DEF Deliver, redis
<1>9. CASE UNCHANGED vars
  BY <1>0, <1>9, RoomInvStutter DEF vars, redis
<1>10. ASSUME NEW i \in Instances, RedisStep(i) PROVE RoomInv'
  <2> DEFINE t == Head(pipe[i])
  <2>0. ASSUME NEW cmd, At(i, cmd)
        PROVE  /\ pipe[i] # <<>> /\ t \in Tasks /\ t.cmd = cmd /\ t.sock \in Sockets
               /\ t.keys \in SUBSET Sockets /\ (cmd # "lookup" => t.room \in Rooms)
    BY <2>0, <1>t, HeadIsTask
  <2>1. CASE SMembers(i)
    <3>1. /\ At(i, "smembers") /\ UNCHANGED <<local, redis>>
          /\ \/ Listed(i, t, {}, <<>>)
             \/ Reply(i, <<[t EXCEPT !.cmd = "hgetall", !.keys = members[t.room]]>>)
      BY <2>1 DEF SMembers
    <3>2. /\ pipe[i] # <<>> /\ t \in Tasks /\ t.cmd = "smembers" /\ t.room \in Rooms
          /\ members[t.room] \in SUBSET Sockets
      BY <1>t, <2>0, <3>1 DEF TypeOK
    <3> DEFINE n == [t EXCEPT !.cmd = "hgetall", !.keys = members[t.room]]
    <3>3. n \in Tasks /\ GoesOn(n, t)
      BY <3>2 DEF Tasks, Commands, GoesOn
    <3>4. UNCHANGED local /\ members' = members
      BY <3>1 DEF redis
    <3>5. {} \in SUBSET Sockets /\ <<>> \in Seq(Tasks) /\ Len(<<>>) <= 1 /\ DOMAIN <<>> = {}
      OBVIOUS
    <3>6. CASE Listed(i, t, {}, <<>>)
      BY <1>0, <3>2, <3>4, <3>5, <3>6, RoomInvListed
    <3>7. CASE Reply(i, <<n>>)
      <4> HIDE DEF n
      <4>1. <<n>> \in Seq(Tasks) /\ DOMAIN <<n>> = {1} /\ <<n>>[1] = n
        BY <3>3
      <4>2. QED
        BY <1>0, <3>2, <3>3, <3>4, <3>7, <4>1, RoomInvAnswer
    <3>8. QED
      BY <3>1, <3>6, <3>7
  <2>2. CASE HGetAll(i)
    <3> DEFINE valid == {k \in t.keys : hash[k] # NoRoom}
               cleanup == [t EXCEPT !.cmd = "cleanup", !.job = "clean", !.keys = t.keys \ valid]
               cleaning == IF valid = t.keys THEN <<>> ELSE <<cleanup>>
               u == [t EXCEPT !.keys = {}]
    <3>1. At(i, "hgetall") /\ UNCHANGED local /\ members' = members /\ Listed(i, u, valid, cleaning)
      BY <2>2 DEF HGetAll, redis
    <3>2. pipe[i] # <<>> /\ t \in Tasks /\ t.cmd = "hgetall" /\ t.room \in Rooms /\ valid \in SUBSET Sockets
      BY <2>0, <3>1
    <3>3. /\ cleanup \in Tasks /\ cleanup.sock = t.sock /\ cleanup.job = "clean"
          /\ cleanup.cmd = "cleanup"
      BY <3>2 DEF Tasks, Commands, Jobs
    <3>4. /\ u \in Tasks /\ u.room = t.room /\ u.sock = t.sock /\ u.job = t.job
      BY <3>2 DEF Tasks
    <3> HIDE DEF cleanup
    <3>5. /\ cleaning \in Seq(Tasks) /\ Len(cleaning) <= 1
          /\ \A k \in DOMAIN cleaning : cleaning[k] = cleanup
      BY <3>3
    <3> HIDE DEF valid, cleaning, u
    <3>6. QED
      BY <1>0, <3>1, <3>2, <3>3, <3>4, <3>5, RoomInvListed
  <2>3. CASE Cleanup(i)
    <3>1. At(i, "cleanup") /\ Reply(i, <<>>) /\ UNCHANGED local
          /\ members' = [members EXCEPT ![t.room] = @ \ t.keys]
      BY <2>3 DEF Cleanup
    <3>2. pipe[i] # <<>> /\ t \in Tasks /\ t.cmd = "cleanup"
      BY <2>0, <3>1
    <3>3. \A r \in Rooms : members'[r] \subseteq members[r]
      BY <1>t, <3>1 DEF TypeOK
    <3>4. <<>> \in Seq(Tasks) /\ DOMAIN <<>> = {}
      OBVIOUS
    <3>5. QED
      BY <1>0, <3>1, <3>2, <3>3, <3>4, RoomInvAnswer
  <2>4. CASE SRem(i)
    <3> DEFINE n == [t EXCEPT !.cmd = "scard"]
    <3>1. At(i, "srem") /\ Reply(i, <<n>>) /\ UNCHANGED local
          /\ members' = [members EXCEPT ![t.room] = @ \ {t.key}]
      BY <2>4 DEF SRem
    <3>2. pipe[i] # <<>> /\ t \in Tasks /\ t.cmd = "srem" /\ t.room \in Rooms
      BY <2>0, <3>1
    <3>3. n \in Tasks /\ GoesOn(n, t)
      BY <3>2 DEF Tasks, Commands, GoesOn
    <3>4. (\A r \in Rooms : members'[r] \subseteq members[r]) /\ t.key \notin members'[t.room]
      BY <1>t, <3>1, <3>2 DEF TypeOK
    <3> HIDE DEF n
    <3>5. <<n>> \in Seq(Tasks) /\ DOMAIN <<n>> = {1} /\ <<n>>[1] = n
      BY <3>3
    <3>6. QED
      BY <1>0, <3>1, <3>2, <3>3, <3>4, <3>5, RoomInvAnswer
  <2>5. CASE SCard(i)
    <3> DEFINE n == [t EXCEPT !.cmd = "del"]
    <3>1. /\ At(i, "scard") /\ UNCHANGED local /\ members' = members
          /\ Reply(i, <<n>>) \/ \E ts \in AfterRemoval(t) : Reply(i, ts)
      BY <2>5 DEF SCard, redis
    <3>2. pipe[i] # <<>> /\ t \in Tasks /\ t.cmd = "scard" /\ t.room \in Rooms
      BY <2>0, <3>1
    <3>3. n \in Tasks /\ GoesOn(n, t)
      BY <3>2 DEF Tasks, Commands, GoesOn
    <3>4. CASE Reply(i, <<n>>)
      <4> HIDE DEF n
      <4>1. <<n>> \in Seq(Tasks) /\ DOMAIN <<n>> = {1} /\ <<n>>[1] = n
        BY <3>3
      <4>2. QED
        BY <1>0, <3>1, <3>2, <3>3, <3>4, <4>1, RoomInvAnswer
    <3>5. CASE \E ts \in AfterRemoval(t) : Reply(i, ts)
      BY <1>0, <3>1, <3>2, <3>5, RoomInvRemoved
    <3>6. QED
      BY <3>1, <3>4, <3>5
  <2>6. CASE Del(i)
    <3>1. /\ At(i, "del") /\ UNCHANGED local /\ members' = [members EXCEPT ![t.room] = {}]
          /\ \E ts \in AfterRemoval(t) : Reply(i, ts)
      BY <2>6 DEF Del
    <3>2. pipe[i] # <<>> /\ t \in Tasks /\ t.cmd = "del" /\ t.room \in Rooms
      BY <2>0, <3>1
    <3>3. \A r \in Rooms : members'[r] \subseteq members[r]
      BY <1>t, <3>1 DEF TypeOK
    <3>4. QED
      BY <1>0, <3>1, <3>2, <3>3, RoomInvRemoved
  <2>7. CASE SIsMember(i)
    <3> DEFINE n == [t EXCEPT !.cmd = IF t.sock \in members[t.room] THEN "count" ELSE "hset"]
    <3>1. At(i, "sismember") /\ Reply(i, <<n>>) /\ UNCHANGED local /\ members' = members
      BY <2>7 DEF SIsMember, redis
    <3>2. pipe[i] # <<>> /\ t \in Tasks /\ t.cmd = "sismember"
      BY <2>0, <3>1
    <3>3. t.job = "join"
      <4>1. pipe[i] \in Seq(Tasks) /\ 1 \in DOMAIN pipe[i] /\ t = pipe[i][1]
        BY <1>t, <3>2 DEF TypeOK
      <4>2. QED
        BY <3>2, <4>1 DEF RoomInv, Shapes, Shape
    <3>4. n \in Tasks /\ GoesOn(n, t)
      BY <3>2, <3>3 DEF Tasks, Commands, GoesOn
    <3> HIDE DEF n
    <3>5. <<n>> \in Seq(Tasks) /\ DOMAIN <<n>> = {1} /\ <<n>>[1] = n
      BY <3>4
    <3>6. QED
      BY <1>0, <3>1, <3>2, <3>4, <3>5, RoomInvAnswer
  <2>8. CASE HSet(i)
    <3> DEFINE n == [t EXCEPT !.cmd = "count"]
    <3>1. At(i, "hset") /\ Reply(i, <<n>>) /\ UNCHANGED local
          /\ members' = [members EXCEPT ![t.room] = @ \union {t.sock}]
      BY <2>8 DEF HSet
    <3>2. pipe[i] # <<>> /\ t \in Tasks /\ t.cmd = "hset"
      BY <2>0, <3>1
    <3>3. n \in Tasks /\ GoesOn(n, t)
      BY <3>2 DEF Tasks, Commands, GoesOn
    <3>4. \A r \in Rooms : \A s \in members'[r] : s \in members[r] \/ (t.sock = s /\ t.room = r)
      BY <1>t, <3>1 DEF TypeOK
    <3> HIDE DEF n
    <3>5. <<n>> \in Seq(Tasks) /\ DOMAIN <<n>> = {1} /\ <<n>>[1] = n
      BY <3>3
    <3>6. QED
      BY <1>0, <3>1, <3>2, <3>3, <3>4, <3>5, RoomInvAnswer
  <2>9. CASE Lookup(i)
    <3> DEFINE ts == IF hash[t.sock] = NoRoom THEN <<>>
                     ELSE <<Task("srem", "purge", t.sock, hash[t.sock])>>
    <3>1. At(i, "lookup") /\ Reply(i, ts) /\ UNCHANGED local /\ members' = members
      BY <2>9 DEF Lookup, redis
    <3>2. pipe[i] # <<>> /\ t \in Tasks /\ t.cmd = "lookup" /\ t.sock \in Sockets
      BY <2>0, <3>1
    <3> HIDE DEF t
    <3>3. CASE hash[t.sock] = NoRoom
      <4>1. ts = <<>> /\ <<>> \in Seq(Tasks) /\ DOMAIN <<>> = {}
        BY <3>3
      <4>2. Reply(i, <<>>)
        BY <3>1, <4>1
      <4>3. QED
        BY <1>0, <3>1, <3>2, <4>1, <4>2, RoomInvAnswer DEF t
    <3>4. CASE hash[t.sock] # NoRoom
      <4> DEFINE n == Task("srem", "purge", t.sock, hash[t.sock])
      <4>1. hash[t.sock] \in Rooms
        BY <1>t, <3>2, <3>4 DEF TypeOK, RoomOrNone
      <4>2. n \in Tasks
        BY <3>2, <4>1, TaskType DEF Commands, Jobs, RoomOrNone
      <4>3. GoesOn(n, t) /\ Reply(i, <<n>>)
        BY <3>1, <3>4 DEF GoesOn, Task, EnteringJobs
      <4> HIDE DEF n
      <4>4. <<n>> \in Seq(Tasks) /\ DOMAIN <<n>> = {1} /\ <<n>>[1] = n
        BY <4>2
      <4>5. QED
        BY <1>0, <3>1, <3>2, <4>3, <4>4, RoomInvAnswer DEF t
    <3>5. QED
      BY <3>3, <3>4
  <2>10. CASE Count(i)
    <3> DEFINE emit == Task("smembers", "emit", t.sock, t.room)
               join == Task("smembers", "join", t.sock, t.next)
               look == Task("lookup", "disconnect", t.sock, NoRoom)
    <3>1. /\ At(i, "count") /\ UNCHANGED redis
          /\ \/ t.job \in {"join", "leave"} /\ Reply(i, <<emit>>) /\ UNCHANGED local
             \/ t.job = "switch" /\ EnterRoom(t.sock, t.next) /\ Reply(i, <<emit, join>>) /\ UNCHANGED up
             \/ t.job = "disconnect" /\ Reply(i, <<emit, look>>) /\ UNCHANGED local
      BY <2>10 DEF Count
    <3>2. pipe[i] # <<>> /\ t \in Tasks /\ t.cmd = "count" /\ t.sock \in Sockets /\ t.room \in Rooms
      BY <2>0, <3>1
    <3>3. members' = members
      BY <3>1 DEF redis
    <3>4. pipe[i] \in Seq(Tasks) /\ 1 \in DOMAIN pipe[i] /\ t = pipe[i][1]
      BY <1>t, <3>2 DEF TypeOK
    <3>5. HostOf[t.sock] = i
      BY <3>4 DEF RoomInv, Shapes, Shape
    <3>6. t = Head(pipe[i])
      OBVIOUS
    <3> HIDE DEF t
    <3>7. emit \in Tasks /\ look \in Tasks
      BY <3>2, TaskType DEF Commands, Jobs, RoomOrNone
    <3>8. /\ emit.sock = t.sock /\ emit.job = "emit" /\ emit.cmd = "smembers"
          /\ look.sock = t.sock /\ look.job = "disconnect" /\ look.cmd = "lookup"
          /\ join.sock = t.sock /\ join.job = "join" /\ join.cmd = "smembers" /\ join.room = t.next
      BY DEF Task
    <3>9. GoesOn(emit, t) /\ GoesOn(look, t)
      BY <3>8 DEF GoesOn, EnteringJobs
    <3>10. CASE Reply(i, <<emit>>) /\ UNCHANGED local
      <4> HIDE DEF emit, look, join
      <4>1. <<emit>> \in Seq(Tasks) /\ DOMAIN <<emit>> = {1} /\ <<emit>>[1] = emit
        BY <3>7
      <4>2. QED
        BY <1>0, <3>2, <3>3, <3>6, <3>9, <3>10, <4>1, RoomInvAnswer
    <3>11. CASE Reply(i, <<emit, look>>) /\ UNCHANGED local
      <4> HIDE DEF emit, look, join
      <4>1. /\ <<emit, look>> \in Seq(Tasks) /\ DOMAIN <<emit, look>> = {1, 2}
            /\ <<emit, look>>[1] = emit /\ <<emit, look>>[2] = look
        BY <3>7
      <4>2. emit.job \notin EnteringJobs /\ look.job \notin EnteringJobs
        BY <3>8 DEF EnteringJobs
      <4>3. QED
        BY <1>0, <3>2, <3>3, <3>6, <3>9, <3>11, <4>1, <4>2, RoomInvAnswer
    <3>12. CASE t.job = "switch" /\ EnterRoom(t.sock, t.next) /\ Reply(i, <<emit, join>>) /\ UNCHANGED up
      <4>1. t.next \in Rooms /\ t.next # NoRoom
        BY <3>2, <3>12, PresenceAssumption DEF Tasks
      <4>2. join \in Tasks
        BY <3>2, <4>1, TaskType DEF Commands, Jobs, RoomOrNone
      <4> HIDE DEF emit, look, join
      <4> DEFINE ts == <<emit, join>>
      <4>3. ts \in Seq(Tasks) /\ DOMAIN ts = {1, 2} /\ ts[1] = emit /\ ts[2] = join
        BY <3>7, <4>2
      <4>4. Reply(i, ts)
        BY <3>12
      <4> HIDE DEF ts
      <4>5. t.sock \in up => current[t.sock] = NoRoom /\ ioRooms[t.sock] = {}
        <5>1. SUFFICES ASSUME t.sock \in up
                       PROVE  current[t.sock] = NoRoom /\ ioRooms[t.sock] = {}
          OBVIOUS
        <5>2. Enters(t, t.sock) /\ Target(t) = NoRoom
          BY <3>12 DEF Enters, EnteringJobs, Target
        <5>3. current[t.sock] = NoRoom
          BY <3>4, <3>5, <5>1, <5>2 DEF RoomInv, JoinsHere
        <5>4. QED
          BY <5>1, <5>3 DEF RoomInv, SingleRoom
      <4>6. /\ current'[t.sock] = t.next
            /\ t.sock \in up => ioRooms'[t.sock] = {t.next}
            /\ \A x \in up \ {t.sock} : current'[x] = current[x] /\ ioRooms'[x] = ioRooms[x]
        BY <1>t, <3>2, <3>12, <4>5 DEF TypeOK, EnterRoom
      <4>7. \A k \in DOMAIN ts : Shape(ts[k], i)
        BY <3>5, <3>8, <4>3 DEF Shape
      <4>8. Target(join) = t.next /\ Enters(t, join.sock)
        BY <3>8, <3>12 DEF Target, Enters, EnteringJobs
      <4>9. emit.job \notin EnteringJobs /\ t.job \in EnteringJobs
        BY <3>8, <3>12 DEF EnteringJobs
      <4>10. /\ \A k \in DOMAIN ts : ts[k].job \in EnteringJobs =>
                  Enters(t, ts[k].sock) /\ (t.sock \in up => current'[t.sock] = Target(ts[k]))
             /\ \A k, l \in DOMAIN ts :
                  ts[k].job \in EnteringJobs /\ ts[l].job \in EnteringJobs => k = l
        BY <4>3, <4>6, <4>8, <4>9
      <4>11. t.sock \in up =>
               /\ ioRooms'[t.sock] = {current'[t.sock]} \ {NoRoom}
               /\ current'[t.sock] # current[t.sock] =>
                    current[t.sock] = NoRoom /\ t.job \in EnteringJobs
        BY <4>1, <4>5, <4>6, <4>9
      <4>12. up' = up
        BY <3>12
      <4>13. QED
        BY <1>0, <3>2, <3>3, <3>6, <4>3, <4>4, <4>6, <4>7, <4>10, <4>11, <4>12, RoomInvReply
    <3>13. QED
      BY <3>1, <3>10, <3>11, <3>12
  <2>11. QED
    BY <1>10, <2>1, <2>2, <2>3, <2>4, <2>5, <2>6, <2>7, <2>8, <2>9, <2>10 DEF RedisStep
<1>11. ASSUME NEW i \in Instances, Crash(i) PROVE RoomInv'
  <2>1. /\ up' = {s \in up : HostOf[s] # i} /\ members' = members /\ current' = current
        /\ ioRooms' = [s \in Sockets |-> IF HostOf[s] = i THEN {} ELSE ioRooms[s]]
        /\ pipe' = [pipe EXCEPT ![i] = <<>>]
    BY <1>11 DEF Crash, redis
  <2>2. pipe'[i] = <<>> /\ \A j \in Instances \ {i} : pipe'[j] = pipe[j]
    BY <1>t, <2>1 DEF TypeOK
  <2>3. \A s \in up' : /\ s \in up /\ s \in Sockets /\ ioRooms'[s] = ioRooms[s]
                       /\ pipe'[HostOf[s]] = pipe[HostOf[s]]
    BY <1>t, <2>1, <2>2, PresenceAssumption DEF TypeOK
  <2>4. Shapes'
    BY <2>2 DEF RoomInv, Shapes, Shape
  <2>5. OneJoin'
    <3>1. OneJoin
      BY DEF RoomInv
    <3>2. QED
      BY <2>3, <3>1 DEF OneJoin, Enters
  <2>6. JoinsHere'
    <3>1. JoinsHere
      BY DEF RoomInv
    <3>2. QED
      BY <2>1, <2>3, <3>1 DEF JoinsHere, Enters, Target
  <2>7. \A s \in up', r \in Rooms : Leaving(s, r) => Leaving(s, r)'
    BY <2>3 DEF Leaving, Pending
  <2>8. SingleRoom'
    BY <2>1, <2>3, <2>7 DEF RoomInv, SingleRoom
  <2>9. QED
    BY <1>0, <2>4, <2>5, <2>6, <2>8 DEF RoomInv
<1>12. QED
  BY <1>1, <1>2, <1>3, <1>4, <1>5, <1>6, <1>7, <1>8, <1>9, <1>10, <1>11 DEF Next, ClientEvent

(* If clients wait for a join to be answered before they send more, a       *)
(* connected client hears the one room it is in and is listed in no other.  *)
THEOREM PatientSingleRoom == Patient => (Spec => []SingleRoom)
<1> SUFFICES ASSUME Patient PROVE Spec => []SingleRoom
  OBVIOUS
<1>1. Init => RoomInv
  BY PresenceAssumption
  DEF Init, RoomInv, TypeOK, RoomOrNone, Shapes, OneJoin, JoinsHere, SingleRoom
<1>2. RoomInv /\ [Next]_vars => RoomInv'
  BY RoomInvStep
<1>3. RoomInv => SingleRoom
  BY DEF RoomInv
<1>4. QED
  BY <1>1, <1>2, <1>3, PTL DEF Spec

-----------------------------------------------------------------------------
(* Nobody is left behind                                                    *)

(* What the theorems of this part need: one instance, one socket per user,  *)
(* clients as the front makes them, no crash and no TTL that runs out.      *)
Undisturbed ==
  /\ Patient /\ Polite /\ ~Expiry /\ Mortal = {}
  /\ \A s, t \in Sockets : HostOf[s] = HostOf[t] /\ (UserOf[s] = UserOf[t] => s = t)

(* What the command x may still do to socket s: a join add it, a list read  *)
(* clean it away, handleDisconnect look for its room, and a leave or the end*)
(* of handleDisconnect remove it.                                           *)
Adding(x, s) ==
  x.sock = s /\ x.job = "join" /\ x.cmd \in {"smembers", "hgetall", "sismember", "hset"}
Suspecting(x, s) == x.cmd \in {"hgetall", "cleanup"} /\ s \in x.keys
Ending(x, s) == x.sock = s /\ x.job = "disconnect"
Quitting(x, s) == x.sock = s /\ x.job = "leave" /\ x.cmd = "srem"
Purging(x, s) == x.sock = s /\ x.job = "purge" /\ x.cmd = "srem"

(* In how many rounds of the queue, at least or at most, it does that.      *)
LeastToAdd(x) == IF x.cmd = "hset" THEN 1 ELSE IF x.cmd = "sismember" THEN 2 ELSE 3
MostToAdd(x) == IF x.cmd = "smembers" THEN 4
                ELSE IF x.cmd = "hgetall" THEN 3 ELSE LeastToAdd(x)
MostToClean(x) == IF x.cmd = "cleanup" THEN 1 ELSE 2
LeastToLook(x) == IF x.cmd = "lookup" THEN 1 ELSE IF x.cmd = "count" THEN 2
                  ELSE IF x.cmd \in {"scard", "del"} THEN 3 ELSE 4

(* x is before y in the queue: a join outlasts those that clean for an      *)
(* earlier stay, and handleDisconnect outlasts the join.                    *)
Fits(x, y) == \A s \in Sockets :
  /\ Suspecting(x, s) /\ Adding(y, s) => MostToClean(x) <= LeastToAdd(y)
  /\ Adding(x, s) /\ Suspecting(y, s) => MostToClean(y) < LeastToAdd(x)
  /\ Adding(x, s) /\ Ending(y, s) => MostToAdd(x) <= LeastToLook(y)
  /\ Ending(x, s) /\ Adding(y, s) => MostToAdd(y) < LeastToLook(x)
  /\ Quitting(x, s) /\ Adding(y, s) => y.cmd = "smembers"
  /\ Adding(x, s) => ~Adding(y, s) /\ ~Quitting(y, s) /\ ~Purging(y, s)
  /\ Purging(x, s) => ~Adding(y, s)
  /\ Ending(x, s) => ~Quitting(y, s)

InOrder == \A i \in Instances : \A m, n \in DOMAIN pipe[i] :
  m < n => Fits(pipe[i][m], pipe[i][n])

(* The commands each handler makes when nobody is evicted and nobody        *)
(* switches.                                                                *)
Made(x) ==
  /\ x.key = x.sock
  /\ CASE x.job = "join" -> x.cmd \in {"smembers", "hgetall", "sismember", "hset", "count"}
       [] x.job = "leave" -> x.cmd \in {"srem", "scard", "del", "count"}
       [] x.job = "disconnect" -> x.cmd \in {"srem", "scard", "del", "count", "lookup"}
       [] x.job = "purge" -> x.cmd \in {"srem", "scard", "del"}
       [] x.job \in {"emit", "read"} -> x.cmd \in {"smembers", "hgetall"}
       [] x.job = "clean" -> x.cmd = "cleanup"
       [] OTHER -> FALSE

(* What is so as long as x is in the queue.                                 *)
Holds(x) ==
  /\ Made(x)
  /\ Adding(x, x.sock) => current[x.sock] = x.room /\ ~Suspecting(x, x.sock)
  /\ x.job \in {"disconnect", "purge"} => x.sock \notin up
  /\ x.job = "disconnect" /\ x.cmd = "srem" => x.room = current[x.sock]
  /\ Quitting(x, x.sock) \/ Purging(x, x.sock) => hash[x.sock] \in {NoRoom, x.room}
  /\ x.cmd = "cleanup" => \A s \in x.keys : hash[s] = NoRoom

Holding == \A i \in Instances : \A x \in Pending(i) : HostOf[x.sock] = i /\ Holds(x)

Added(s) == \E x \in Pending(HostOf[s]) : Adding(x, s)
Quits(s) == \E x \in Pending(HostOf[s]) : Quitting(x, s)
Ended(s) == \E x \in Pending(HostOf[s]) : Ending(x, s) \/ Purging(x, s)

(* What Redis has about socket s, and the commands that will change it.     *)
Tracked(s) ==
  /\ \A r \in Rooms : s \in members[r] => hash[s] = r
  /\ hash[s] \in {NoRoom, current[s]} \/ Quits(s)
  /\ Added(s) => hash[s] = NoRoom \/ Quits(s)
  /\ s \in up /\ current[s] # NoRoom => hash[s] = current[s] \/ Added(s)
  /\ s \in up /\ Quits(s) => current[s] = NoRoom \/ Added(s)
  /\ s \notin up /\ (hash[s] # NoRoom \/ Added(s)) => Ended(s)

(* The inductive invariant of NoGhost and HashFollowsRoom.                  *)
Rounds == TypeOK /\ InOrder /\ Holding /\ \A s \in Sockets : Tracked(s)

LEMMA InPending ==
  ASSUME TypeOK, NEW i \in Instances
  PROVE  Pending(i) \in SUBSET Tasks
<1>1. pipe[i] \in Seq(Tasks)
  BY DEF TypeOK
<1>2. QED
  BY <1>1 DEF Pending

(* All commands are those of one instance.                                  *)
LEMMA OneQueue ==
  ASSUME Undisturbed, Rounds, NEW i \in Instances, Pending(i) # {}
  PROVE  /\ \A s \in Sockets : HostOf[s] = i
         /\ \A j \in Instances : j # i => Pending(j) = {}
<1>1. \A j \in Instances : \A x \in Pending(j) : x.sock \in Sockets /\ HostOf[x.sock] = j
  BY InPending DEF Rounds, Holding, Tasks
<1>2. PICK x \in Pending(i) : TRUE
  OBVIOUS
<1>3. \A s \in Sockets : HostOf[s] = i
  BY <1>1, <1>2 DEF Undisturbed
<1>4. QED
  BY <1>1, <1>3

(* A turn of the queue: the head t is answered and its handler sends ts; the*)
(* others, rest, come between them.                                         *)
LEMMA Turn ==
  ASSUME TypeOK, InOrder, NEW i \in Instances, pipe[i] # <<>>, NEW ts \in Seq(Tasks),
         Reply(i, ts)
  PROVE  \E rest \in SUBSET Tasks :
           /\ Pending(i) = {Head(pipe[i])} \union rest
           /\ Pending(i)' = rest \union {ts[k] : k \in DOMAIN ts}
           /\ \A j \in Instances : j # i => Pending(j)' = Pending(j)
           /\ \A x \in rest : Fits(Head(pipe[i]), x)
           /\ \A x, y \in rest : x = y \/ Fits(x, y) \/ Fits(y, x)
           /\ (/\ \A x \in rest : \A k \in DOMAIN ts : Fits(x, ts[k])
               /\ \A k, l \in DOMAIN ts : k < l => Fits(ts[k], ts[l])) => InOrder'
<1> DEFINE q == pipe[i]
           L == Len(q)
           rest == {q[n] : n \in 2 .. L}
           p == pipe'[i]
<1>1. /\ q \in Seq(Tasks) /\ q # <<>> /\ L \in Nat /\ L >= 1 /\ DOMAIN q = 1 .. L
      /\ Len(ts) \in Nat /\ DOMAIN ts = 1 .. Len(ts)
  <2>1. q \in Seq(Tasks)
    BY DEF TypeOK
  <2>2. QED
    BY <2>1
<1>2. /\ p = Tail(q) \o ts
      /\ \A j \in Instances : j # i => pipe'[j] = pipe[j]
  BY DEF Reply, TypeOK
<1>3. q[1] = Head(q)
  BY <1>1
<1> HIDE DEF q, p
<1>4. /\ p \in Seq(Tasks) /\ Len(p) = L - 1 + Len(ts)
      /\ \A n \in 1 .. L - 1 : p[n] = q[n + 1]
      /\ \A k \in 1 .. Len(ts) : p[L - 1 + k] = ts[k]
  BY <1>1, <1>2, ReplyType
<1>5. DOMAIN p = 1 .. L - 1 + Len(ts)
  BY <1>1, <1>4
<1>6. /\ \A n \in DOMAIN p : \/ n \in 1 .. L - 1 /\ n + 1 \in 2 .. L /\ p[n] = q[n + 1]
                             \/ n - (L - 1) \in 1 .. Len(ts) /\ p[n] = ts[n - (L - 1)]
      /\ \A n \in 2 .. L : n - 1 \in DOMAIN p /\ p[n - 1] = q[n]
      /\ \A k \in 1 .. Len(ts) : L - 1 + k \in DOMAIN p /\ p[L - 1 + k] = ts[k]
  <2>1. ASSUME NEW n \in DOMAIN p, n \notin 1 .. L - 1
        PROVE  n - (L - 1) \in 1 .. Len(ts) /\ p[n] = ts[n - (L - 1)]
    <3>1. n - (L - 1) \in 1 .. Len(ts) /\ L - 1 + (n - (L - 1)) = n
      BY <1>1, <1>5, <2>1
    <3>2. QED
      BY <1>4, <3>1
  <2>2. QED
    BY <1>1, <1>4, <1>5, <2>1
<1>7. Pending(i) = {Head(q)} \union rest
  <2>1. Pending(i) = {q[n] : n \in 1 .. L}
    BY <1>1 DEF Pending, q
  <2>2. \A n \in 1 .. L : n = 1 \/ n \in 2 .. L
    BY <1>1
  <2>3. \A n \in 2 .. L : n \in 1 .. L
    BY <1>1
  <2>4. 1 \in 1 .. L
    BY <1>1
  <2>5. QED
    BY <1>3, <2>1, <2>2, <2>3, <2>4
<1>8. Pending(i)' = rest \union {ts[k] : k \in DOMAIN ts}
  <2>1. Pending(i)' = {p[n] : n \in DOMAIN p}
    BY DEF Pending, p
  <2>2. QED
    BY <1>1, <1>6, <2>1
<1>9. \A m, n \in 1 .. L : m < n => Fits(q[m], q[n])
  BY <1>1 DEF InOrder, q
<1>10. \A x \in rest : Fits(Head(q), x)
  BY <1>1, <1>3, <1>9
<1>11. ASSUME NEW x \in rest, NEW y \in rest PROVE x = y \/ Fits(x, y) \/ Fits(y, x)
  <2>1. PICK m \in 2 .. L, n \in 2 .. L : x = q[m] /\ y = q[n]
    BY <1>11
  <2>2. m \in 1 .. L /\ n \in 1 .. L /\ (m = n \/ m < n \/ n < m)
    BY <1>1
  <2>3. QED
    BY <1>9, <2>1, <2>2
<1>12. ASSUME \A x \in rest : \A k \in DOMAIN ts : Fits(x, ts[k]),
              \A k, l \in DOMAIN ts : k < l => Fits(ts[k], ts[l])
       PROVE  InOrder'
  <2>1. ASSUME NEW m \in DOMAIN p, NEW n \in DOMAIN p, m < n PROVE Fits(p[m], p[n])
    <3>0. m \in Nat /\ n \in Nat
      BY <1>1, <1>5
    <3>1. CASE n \in 1 .. L - 1
      <4>1. m \in 1 .. L - 1 /\ m + 1 \in 1 .. L /\ n + 1 \in 1 .. L /\ m + 1 < n + 1
        BY <1>1, <1>5, <2>1, <3>0, <3>1
      <4>2. p[m] = q[m + 1] /\ p[n] = q[n + 1]
        BY <1>4, <3>1, <4>1
      <4>3. QED
        BY <1>9, <4>1, <4>2
    <3>2. CASE n \notin 1 .. L - 1 /\ m \in 1 .. L - 1
      <4>1. p[m] \in rest
        BY <1>1, <1>6, <3>2
      <4>2. n - (L - 1) \in DOMAIN ts /\ p[n] = ts[n - (L - 1)]
        BY <1>1, <1>6, <3>2
      <4>3. QED
        BY <1>12, <4>1, <4>2
    <3>3. CASE n \notin 1 .. L - 1 /\ m \notin 1 .. L - 1
      <4>1. /\ n - (L - 1) \in DOMAIN ts /\ p[n] = ts[n - (L - 1)]
            /\ m - (L - 1) \in DOMAIN ts /\ p[m] = ts[m - (L - 1)]
        BY <1>1, <1>6, <3>3
      <4>2. m - (L - 1) < n - (L - 1)
        BY <1>1, <2>1, <3>0
      <4>3. QED
        BY <1>12, <4>1, <4>2
    <3>4. QED
      BY <3>1, <3>2, <3>3
  <2>2. \A m, n \in DOMAIN pipe'[i] : m < n => Fits(pipe'[i][m], pipe'[i][n])
    BY <2>1 DEF p
  <2>3. \A j \in Instances : \A m, n \in DOMAIN pipe'[j] :
          m < n => Fits(pipe'[j][m], pipe'[j][n])
    BY <1>2, <2>2 DEF InOrder
  <2>4. QED
    BY <2>3 DEF InOrder
<1>13. \A j \in Instances : j # i => Pending(j)' = Pending(j)
  BY <1>2 DEF Pending
<1>14. rest \in SUBSET Tasks
  BY <1>1
<1>15. QED
  BY <1>7, <1>8, <1>10, <1>11, <1>12, <1>13, <1>14 DEF q

(* The socket is sent one more command.                                     *)
LEMMA Sending ==
  ASSUME TypeOK, InOrder, NEW s \in Sockets, NEW t \in Tasks, Send(s, t)
  PROVE  /\ Pending(HostOf[s])' = Pending(HostOf[s]) \union {t}
         /\ \A j \in Instances : j # HostOf[s] => Pending(j)' = Pending(j)
         /\ (\A x \in Pending(HostOf[s]) : Fits(x, t)) => InOrder'
<1> DEFINE i == HostOf[s]
           q == pipe[i]
           L == Len(q)
           p == pipe'[i]
<1>0. i \in Instances
  BY PresenceAssumption
<1>1. q \in Seq(Tasks) /\ L \in Nat /\ DOMAIN q = 1 .. L
  <2>1. q \in Seq(Tasks)
    BY <1>0 DEF TypeOK
  <2>2. QED
    BY <2>1
<1>2. /\ p = Append(q, t)
      /\ \A j \in Instances : j # i => pipe'[j] = pipe[j]
  BY <1>0 DEF Send, TypeOK
<1> HIDE DEF q, p, i
<1>3. /\ p \in Seq(Tasks) /\ Len(p) = L + 1
      /\ \A n \in 1 .. L : p[n] = q[n]
      /\ p[L + 1] = t
  BY <1>1, <1>2, SendType
<1>4. DOMAIN p = 1 .. L + 1
  BY <1>1, <1>3
<1>5. Pending(i)' = Pending(i) \union {t}
  <2>1. Pending(i)' = {p[n] : n \in 1 .. L + 1} /\ Pending(i) = {q[n] : n \in 1 .. L}
    BY <1>1, <1>4 DEF Pending, p, q
  <2>2. /\ \A n \in 1 .. L + 1 : n \in 1 .. L \/ n = L + 1
        /\ \A n \in 1 .. L : n \in 1 .. L + 1
        /\ L + 1 \in 1 .. L + 1
    BY <1>1
  <2>3. QED
    BY <1>3, <2>1, <2>2
<1>6. ASSUME \A x \in Pending(i) : Fits(x, t) PROVE InOrder'
  <2>1. \A m, n \in 1 .. L : m < n => Fits(q[m], q[n])
    BY <1>0, <1>1 DEF InOrder, q
  <2>2. \A m \in 1 .. L : Fits(q[m], t)
    BY <1>1, <1>6 DEF Pending, q
  <2>3. ASSUME NEW m \in DOMAIN p, NEW n \in DOMAIN p, m < n PROVE Fits(p[m], p[n])
    <3>1. m \in 1 .. L /\ (n \in 1 .. L \/ n = L + 1)
      BY <1>1, <1>4, <2>3
    <3>2. QED
      BY <1>3, <2>1, <2>2, <2>3, <3>1
  <2>4. \A j \in Instances : \A m, n \in DOMAIN pipe'[j] :
          m < n => Fits(pipe'[j][m], pipe'[j][n])
    BY <1>2, <2>3 DEF InOrder, p
  <2>5. QED
    BY <2>4 DEF InOrder
<1>7. \A j \in Instances : j # i => Pending(j)' = Pending(j)
  BY <1>2 DEF Pending
<1>8. QED
  BY <1>5, <1>6, <1>7 DEF i

(* A command that does none of this, at any place in the queue.             *)
Neutral(u) == \A s \in Sockets :
  ~Adding(u, s) /\ ~Suspecting(u, s) /\ ~Ending(u, s) /\ ~Quitting(u, s) /\ ~Purging(u, s)

LEMMA NeutralFits ==
  ASSUME NEW u, NEW x, Neutral(u)
  PROVE  Fits(u, x) /\ Fits(x, u)
  BY DEF Fits, Neutral

(* The next command of a handler, after others that were behind the last.   *)
Steps == {<<"smembers", "hgetall">>, <<"smembers", "sismember">>, <<"hgetall", "sismember">>,
          <<"sismember", "hset">>, <<"hset", "count">>, <<"srem", "scard">>,
          <<"scard", "del">>, <<"scard", "count">>, <<"del", "count">>, <<"count", "lookup">>}

LEMMA NextFits ==
  ASSUME NEW t \in Tasks, Made(t), NEW u \in Tasks, NEW x \in Tasks, Fits(t, x),
         u.sock = t.sock, u.job = t.job, <<t.cmd, u.cmd>> \in Steps,
         u.cmd = "hgetall" => \A s \in u.keys : ~Adding(x, s) \/ LeastToAdd(x) = 3
  PROVE  Fits(x, u)
<1> SUFFICES ASSUME NEW s \in Sockets
             PROVE
    /\ Suspecting(x, s) /\ Adding(u, s) => MostToClean(x) <= LeastToAdd(u)
    /\ Adding(x, s) /\ Suspecting(u, s) => MostToClean(u) < LeastToAdd(x)
    /\ Adding(x, s) /\ Ending(u, s) => MostToAdd(x) <= LeastToLook(u)
    /\ Ending(x, s) /\ Adding(u, s) => MostToAdd(u) < LeastToLook(x)
    /\ Quitting(x, s) /\ Adding(u, s) => u.cmd = "smembers"
    /\ Adding(x, s) => ~Adding(u, s) /\ ~Quitting(u, s) /\ ~Purging(u, s)
    /\ Purging(x, s) => ~Adding(u, s)
    /\ Ending(x, s) => ~Quitting(u, s)
  BY DEF Fits
<1>1. /\ Suspecting(t, s) /\ Adding(x, s) => MostToClean(t) <= LeastToAdd(x)
      /\ Adding(t, s) /\ Suspecting(x, s) => MostToClean(x) < LeastToAdd(t)
      /\ Adding(t, s) /\ Ending(x, s) => MostToAdd(t) <= LeastToLook(x)
      /\ Ending(t, s) /\ Adding(x, s) => MostToAdd(x) < LeastToLook(t)
      /\ Quitting(t, s) /\ Adding(x, s) => x.cmd = "smembers"
      /\ Adding(t, s) => ~Adding(x, s) /\ ~Quitting(x, s) /\ ~Purging(x, s)
      /\ Purging(t, s) => ~Adding(x, s)
      /\ Ending(t, s) => ~Quitting(x, s)
  BY DEF Fits
<1>2. u.cmd # "srem" /\ ~Quitting(u, s) /\ ~Purging(u, s)
  BY DEF Steps, Quitting, Purging
<1>3. ASSUME Adding(u, s)
      PROVE  /\ Adding(t, s) /\ u.cmd # "smembers"
             /\ <<t.cmd, u.cmd>> \in {<<"smembers", "hgetall">>, <<"smembers", "sismember">>,
                  <<"hgetall", "sismember">>, <<"sismember", "hset">>}
  BY <1>3 DEF Adding, Steps, Made
<1>4. ASSUME Ending(u, s), Adding(x, s) PROVE MostToAdd(x) <= LeastToLook(u)
  <2>1. Ending(t, s) /\ MostToAdd(x) < LeastToLook(t)
    BY <1>1, <1>4 DEF Ending
  <2>2. <<t.cmd, u.cmd>> \in {<<"srem", "scard">>, <<"scard", "del">>, <<"scard", "count">>,
                              <<"del", "count">>, <<"count", "lookup">>}
    BY <1>4 DEF Ending, Made, Steps
  <2>3. LeastToLook(t) <= LeastToLook(u) + 1 /\ LeastToLook(u) \in Nat /\ LeastToLook(t) \in Nat
    BY <2>2 DEF LeastToLook
  <2>4. MostToAdd(x) \in Nat
    BY DEF MostToAdd, LeastToAdd
  <2>5. QED
    BY <2>1, <2>3, <2>4
<1>5. ASSUME Suspecting(x, s), Adding(u, s) PROVE MostToClean(x) <= LeastToAdd(u)
  <2>1. MostToClean(x) < LeastToAdd(t) /\ MostToClean(x) \in {1, 2}
    BY <1>1, <1>3, <1>5 DEF MostToClean
  <2>2. QED
    BY <1>3, <1>5, <2>1 DEF LeastToAdd
<1>6. ASSUME Adding(x, s), Suspecting(u, s) PROVE MostToClean(u) < LeastToAdd(x)
  <2>1. u.cmd = "hgetall" /\ s \in u.keys
    BY <1>6 DEF Suspecting, Steps
  <2>2. QED
    BY <1>6, <2>1 DEF MostToClean
<1>7. ASSUME Ending(x, s), Adding(u, s) PROVE MostToAdd(u) < LeastToLook(x)
  <2>1. MostToAdd(t) <= LeastToLook(x) /\ LeastToLook(x) \in {1, 2, 3, 4}
    BY <1>1, <1>3, <1>7 DEF LeastToLook
  <2>2. QED
    BY <1>3, <1>7, <2>1 DEF MostToAdd, LeastToAdd
<1>8. QED
  BY <1>1, <1>2, <1>3, <1>4, <1>5, <1>6, <1>7

LEMMA Pairs ==
  ASSUME TypeOK, InOrder, NEW i \in Instances, NEW x \in Pending(i), NEW y \in Pending(i)
  PROVE  x = y \/ Fits(x, y) \/ Fits(y, x)
<1>1. pipe[i] \in Seq(Tasks)
  BY DEF TypeOK
<1>2. PICK m \in DOMAIN pipe[i], n \in DOMAIN pipe[i] : x = pipe[i][m] /\ y = pipe[i][n]
  BY DEF Pending
<1>3. m = n \/ m < n \/ n < m
  BY <1>1
<1>4. QED
  BY <1>2, <1>3 DEF InOrder

LEMMA HoldsStill ==
  ASSUME NEW x, Holds(x), UNCHANGED <<local, hash>>
  PROVE  Holds(x)'
  BY DEF Holds, local

LEMMA Counts ==
  ASSUME NEW x
  PROVE  /\ LeastToAdd(x) \in 1 .. 3 /\ MostToAdd(x) \in 1 .. 4 /\ MostToClean(x) \in 1 .. 2
         /\ LeastToLook(x) \in 1 .. 4
         /\ (x.cmd = "hset" => MostToAdd(x) = 1 /\ LeastToAdd(x) = 1)
         /\ (x.cmd = "lookup" => LeastToLook(x) = 1)
  BY DEF LeastToAdd, MostToAdd, MostToClean, LeastToLook

(* A reply after which the handler does the next of its commands, and Redis *)
(* has lost nothing but members.                                            *)
LEMMA Passing ==
  ASSUME Undisturbed, Rounds, TypeOK', NEW i \in Instances, pipe[i] # <<>>,
         NEW t \in Tasks, t = Head(pipe[i]), NEW ts \in Seq(Tasks), Reply(i, ts),
         UNCHANGED <<local, hash>>, \A r \in Rooms : members'[r] \subseteq members[r],
         t.cmd # "srem",
         \A k \in DOMAIN ts :
           /\ ts[k].sock = t.sock /\ Holds(ts[k]) /\ ~Quitting(ts[k], t.sock)
           /\ Adding(ts[k], t.sock) => Adding(t, t.sock),
         Adding(t, t.sock) => \E k \in DOMAIN ts : Adding(ts[k], t.sock),
         Ending(t, t.sock) =>
           \/ \E k \in DOMAIN ts : Ending(ts[k], t.sock) \/ Purging(ts[k], t.sock)
           \/ hash[t.sock] = NoRoom /\ t.cmd = "lookup",
         \A x \in Pending(i) : Fits(t, x) => \A k \in DOMAIN ts : Fits(x, ts[k]),
         \A k, l \in DOMAIN ts : k < l => Fits(ts[k], ts[l])
  PROVE  Rounds'
<1> DEFINE new == {ts[k] : k \in DOMAIN ts}
<1>1. PICK rest \in SUBSET Tasks :
        /\ Pending(i) = {t} \union rest
        /\ Pending(i)' = rest \union new
        /\ \A j \in Instances : j # i => Pending(j)' = Pending(j)
        /\ \A x \in rest : Fits(t, x)
        /\ (/\ \A x \in rest : \A k \in DOMAIN ts : Fits(x, ts[k])
            /\ \A k, l \in DOMAIN ts : k < l => Fits(ts[k], ts[l])) => InOrder'
  BY Turn DEF Rounds
<1>2. InOrder'
  BY <1>1
<1>3. Holding /\ (\A s \in Sockets : HostOf[s] = i) /\ t.sock \in Sockets
      /\ \A s \in Sockets : Tracked(s)
  BY <1>1, OneQueue DEF Rounds, Tasks
<1>4. \A x \in new : x.sock = t.sock /\ Holds(x)
  OBVIOUS
<1>5. Holding'
  <2>1. \A j \in Instances : \A x \in Pending(j)' : HostOf[x.sock] = j /\ Holds(x)
    BY <1>1, <1>3, <1>4 DEF Holding
  <2>2. QED
    BY <2>1, HoldsStill DEF Holding
<1>6. ASSUME NEW s \in Sockets PROVE Tracked(s)'
  <2>1. /\ (Added(s) <=> \E x \in Pending(i) : Adding(x, s))
        /\ (Added(s)' <=> \E x \in Pending(i)' : Adding(x, s))
        /\ (Quits(s) <=> \E x \in Pending(i) : Quitting(x, s))
        /\ (Quits(s)' <=> \E x \in Pending(i)' : Quitting(x, s))
        /\ (Ended(s) <=> \E x \in Pending(i) : Ending(x, s) \/ Purging(x, s))
        /\ (Ended(s)' <=> \E x \in Pending(i)' : Ending(x, s) \/ Purging(x, s))
    BY <1>3 DEF Added, Quits, Ended
  <2>2. Added(s)' <=> Added(s)
    <3>1. \A x \in new : Adding(x, s) => s = t.sock /\ Adding(t, s)
      BY <1>4 DEF Adding
    <3>2. Adding(t, s) => \E x \in new : Adding(x, s)
      BY DEF Adding
    <3> HIDE DEF new
    <3>3. QED
      BY <1>1, <2>1, <3>1, <3>2
  <2>3. Quits(s)' <=> Quits(s)
    <3>1. \A x \in new : ~Quitting(x, s)
      BY <1>4 DEF Quitting
    <3>2. ~Quitting(t, s)
      BY DEF Quitting
    <3> HIDE DEF new
    <3>3. QED
      BY <1>1, <2>1, <3>1, <3>2
  <2>4. Ended(s) => Ended(s)' \/ (hash[s] = NoRoom /\ ~Added(s))
    <3>1. ~Purging(t, s) /\ (Ending(t, s) => s = t.sock)
      BY DEF Purging, Ending
    <3>2. Ending(t, s) => \/ \E x \in new : Ending(x, s) \/ Purging(x, s)
                          \/ hash[s] = NoRoom /\ t.cmd = "lookup"
      BY <3>1
    <3>3. Ending(t, s) /\ t.cmd = "lookup" => ~Added(s)
      <4>1. SUFFICES ASSUME Ending(t, s), t.cmd = "lookup", NEW x \in Pending(i), Adding(x, s)
                     PROVE  FALSE
        BY <2>1
      <4>2. x # t
        BY <4>1 DEF Adding
      <4>3. MostToAdd(x) < LeastToLook(t)
        BY <1>1, <4>1, <4>2 DEF Fits
      <4>4. QED
        BY <4>1, <4>3, Counts
    <3> HIDE DEF new
    <3>4. QED
      BY <1>1, <2>1, <3>1, <3>2, <3>3
  <2>5. /\ up' = up /\ current' = current /\ hash' = hash
        /\ \A r \in Rooms : s \in members'[r] => s \in members[r]
    BY DEF local
  <2>6. Tracked(s)
    BY <1>3
  <2>7. QED
    BY <2>2, <2>3, <2>4, <2>5, <2>6 DEF Tracked
<1>7. QED
  BY <1>2, <1>5, <1>6 DEF Rounds

LEMMA CleanFits ==
  ASSUME NEW t \in Tasks, NEW c \in Tasks, NEW x \in Tasks, Fits(t, x),
         t.cmd = "hgetall", c.cmd = "cleanup", c.job = "clean", c.keys \subseteq t.keys
  PROVE  Fits(x, c)
<1>1. \A s \in Sockets : ~Adding(c, s) /\ ~Ending(c, s) /\ ~Quitting(c, s) /\ ~Purging(c, s)
  BY DEF Adding, Ending, Quitting, Purging
<1>2. ASSUME NEW s \in Sockets, Adding(x, s), Suspecting(c, s)
      PROVE  MostToClean(c) < LeastToAdd(x)
  <2>1. Suspecting(t, s)
    BY <1>2 DEF Suspecting
  <2>2. MostToClean(t) <= LeastToAdd(x)
    BY <1>2, <2>1 DEF Fits
  <2>3. MostToClean(t) = 2 /\ MostToClean(c) = 1 /\ LeastToAdd(x) \in 1 .. 3
    BY Counts DEF MostToClean
  <2>4. QED
    BY <2>2, <2>3
<1>3. QED
  BY <1>1, <1>2 DEF Fits

(* getRoomUsers ends, for whoever asked.                                    *)
LEMMA ListedPasses ==
  ASSUME Undisturbed, Rounds, TypeOK', NEW i \in Instances, pipe[i] # <<>>,
         NEW h \in Tasks, h = Head(pipe[i]), h.cmd \in {"smembers", "hgetall"},
         NEW t \in Tasks, t.sock = h.sock, t.job = h.job, t.room = h.room,
         NEW users \in SUBSET Sockets, NEW cleaning \in Seq(Tasks),
         \/ cleaning = <<>>
         \/ \E c \in Tasks :
              /\ cleaning = <<c>> /\ c.sock = h.sock /\ c.key = c.sock
              /\ c.job = "clean" /\ c.cmd = "cleanup"
              /\ h.cmd = "hgetall" /\ c.keys \subseteq h.keys
              /\ \A s \in c.keys : hash[s] = NoRoom,
         UNCHANGED <<local, redis>>, Listed(i, t, users, cleaning)
  PROVE  Rounds'
<1> DEFINE n == [t EXCEPT !.cmd = "sismember", !.job = "join", !.key = t.sock, !.keys = {}]
<1>1. OldConnections(t, users) = {}
  BY DEF OldConnections, Undisturbed, Tasks
<1>2. Holds(h) /\ h.sock \in Sockets
  <2>1. h \in Pending(i)
    BY DEF Pending, Rounds, TypeOK
  <2>2. QED
    BY <2>1 DEF Rounds, Holding, Tasks
<1>3. h.job \in {"join", "emit", "read"}
  BY <1>2 DEF Holds, Made
<1>4. /\ n \in Tasks /\ n.sock = h.sock /\ n.key = n.sock /\ n.cmd = "sismember" /\ n.job = "join"
      /\ n.room = h.room
  <2>1. t.room \in Rooms /\ t.sock \in Sockets
    BY DEF Tasks
  <2>2. n.sock = t.sock /\ n.key = t.sock /\ n.cmd = "sismember" /\ n.job = "join"
        /\ n.room = t.room
    BY DEF Tasks
  <2>3. n \in Tasks
    BY <2>1, EvictOrCheckType DEF EvictOrCheck
  <2>4. QED
    BY <2>2, <2>3
<1> HIDE DEF n
<1>5. UNCHANGED <<local, hash>> /\ \A r \in Rooms : members'[r] \subseteq members[r]
  BY DEF redis
<1>6. \A k \in DOMAIN cleaning :
        /\ cleaning[k].sock = h.sock /\ Holds(cleaning[k])
        /\ ~Quitting(cleaning[k], h.sock) /\ ~Adding(cleaning[k], h.sock)
        /\ \A x \in Tasks : Fits(h, x) => Fits(x, cleaning[k])
  <2>1. ASSUME NEW c \in Tasks, c.sock = h.sock, c.key = c.sock, c.job = "clean",
               c.cmd = "cleanup", h.cmd = "hgetall", c.keys \subseteq h.keys,
               \A s \in c.keys : hash[s] = NoRoom
        PROVE  /\ Holds(c) /\ ~Quitting(c, h.sock) /\ ~Adding(c, h.sock)
               /\ \A x \in Tasks : Fits(h, x) => Fits(x, c)
    BY <2>1, CleanFits DEF Holds, Made, Adding, Quitting, Purging
  <2>2. QED
    BY <2>1
<1>7. ~Ending(h, h.sock)
  BY <1>3 DEF Ending
<1>8. Pending(i) \in SUBSET Tasks
  BY InPending DEF Rounds
<1>9. CASE t.job = "join" /\ \E m \in EvictOrCheck(t, OldConnections(t, users)) :
                               Reply(i, Append(cleaning, m))
  <2> DEFINE ts == Append(cleaning, n)
  <2>1. Reply(i, ts)
    BY <1>1, <1>9 DEF EvictOrCheck, n
  <2>2. Holds(n) /\ ~Quitting(n, h.sock) /\ Adding(n, h.sock) /\ Adding(h, h.sock)
    <3>1. Adding(h, h.sock)
      BY <1>9 DEF Adding
    <3>2. current[h.sock] = h.room
      BY <1>2, <3>1 DEF Holds
    <3>3. QED
      BY <1>4, <3>1, <3>2 DEF Holds, Made, Adding, Suspecting, Quitting, Purging
  <2>3. \A x \in Tasks : Fits(h, x) => Fits(x, n)
    BY <1>2, <1>4, <1>9, NextFits DEF Holds, Steps
  <2>4. /\ ts \in Seq(Tasks)
        /\ \A k \in DOMAIN ts : \/ k \in DOMAIN cleaning /\ ts[k] = cleaning[k]
                                \/ ts[k] = n
        /\ \E k \in DOMAIN ts : ts[k] = n
        /\ \A k, l \in DOMAIN ts : k < l =>
             k \in DOMAIN cleaning /\ ts[k] = cleaning[k] /\ ts[l] = n
    <3>1. /\ ts \in Seq(Tasks) /\ Len(ts) = Len(cleaning) + 1
          /\ \A k \in 1 .. Len(cleaning) : ts[k] = cleaning[k]
          /\ ts[Len(cleaning) + 1] = n
      BY <1>4, SendType
    <3>2. /\ DOMAIN cleaning = 1 .. Len(cleaning) /\ Len(cleaning) \in Nat
          /\ DOMAIN ts = 1 .. Len(cleaning) + 1
      BY <3>1
    <3> HIDE DEF ts
    <3>3. QED
      BY <3>1, <3>2
  <2>5. \A k \in DOMAIN cleaning : Fits(cleaning[k], n)
    <3>1. ASSUME NEW c \in Tasks, c.job = "clean", c.cmd = "cleanup" PROVE Fits(c, n)
      BY <1>4, <3>1 DEF Fits, Adding, Suspecting, Ending, Quitting, Purging,
                        MostToClean, LeastToAdd
    <3>2. QED
      BY <3>1
  <2> HIDE DEF ts
  <2>6. QED
    BY <1>4, <1>5, <1>6, <1>7, <1>8, <2>1, <2>2, <2>3, <2>4, <2>5, Passing
<1>10. CASE t.job # "join" /\ Reply(i, cleaning)
  <2>1. ~Adding(h, h.sock)
    BY <1>10 DEF Adding
  <2>2. \A k, l \in DOMAIN cleaning : ~(k < l)
    OBVIOUS
  <2>3. QED
    BY <1>5, <1>6, <1>7, <1>8, <1>10, <2>1, <2>2, Passing
<1>11. QED
  BY <1>3, <1>9, <1>10 DEF Listed

(* The head of the queue: what holds of it, and what comes behind it.       *)
LEMMA AtHead ==
  ASSUME Undisturbed, Rounds, NEW i \in Instances, NEW cmd, At(i, cmd)
  PROVE  /\ pipe[i] # <<>> /\ Head(pipe[i]) \in Tasks /\ Head(pipe[i]).cmd = cmd
         /\ Head(pipe[i]).sock \in Sockets /\ Head(pipe[i]).keys \in SUBSET Sockets
         /\ cmd # "lookup" => Head(pipe[i]).room \in Rooms
         /\ Head(pipe[i]) \in Pending(i) /\ Holds(Head(pipe[i]))
         /\ Pending(i) \in SUBSET Tasks
         /\ \A s \in Sockets : HostOf[s] = i /\ Tracked(s)
<1>1. /\ pipe[i] # <<>> /\ Head(pipe[i]) \in Tasks /\ Head(pipe[i]).cmd = cmd
      /\ Head(pipe[i]).sock \in Sockets /\ Head(pipe[i]).keys \in SUBSET Sockets
      /\ cmd # "lookup" => Head(pipe[i]).room \in Rooms
  BY HeadIsTask DEF Rounds
<1>2. Head(pipe[i]) \in Pending(i)
  BY <1>1 DEF Pending, Rounds, TypeOK
<1>3. QED
  BY <1>1, <1>2, OneQueue, InPending DEF Rounds, Holding

(* No leave and no other join of the socket is left in the queue when a join*)
(* of its comes to the head.                                                *)
LEMMA NotBehind ==
  ASSUME Undisturbed, Rounds, NEW i \in Instances, pipe[i] # <<>>, NEW t \in Tasks,
         t = Head(pipe[i])
  PROVE  /\ Adding(t, t.sock) => ~Quits(t.sock)
         /\ Ending(t, t.sock) /\ t.cmd = "srem" => ~Quits(t.sock)
<1>1. /\ pipe[i] \in Seq(Tasks) /\ DOMAIN pipe[i] = 1 .. Len(pipe[i]) /\ Len(pipe[i]) >= 1
      /\ pipe[i][1] = t /\ Len(pipe[i]) \in Nat
  <2>1. pipe[i] \in Seq(Tasks)
    BY DEF Rounds, TypeOK
  <2>2. QED
    BY <2>1
<1>2. \A x \in Pending(i) : x = t \/ Fits(t, x)
  <2>1. \A n \in 1 .. Len(pipe[i]) : n = 1 \/ 1 < n
    BY <1>1
  <2>2. QED
    BY <1>1, <2>1 DEF Pending, Rounds, InOrder
<1>3. t \in Pending(i) /\ t.sock \in Sockets
  BY <1>1 DEF Pending, Tasks
<1>4. HostOf[t.sock] = i
  BY <1>3 DEF Rounds, Holding
<1>5. QED
  BY <1>2, <1>3, <1>4 DEF Quits, Fits, Adding, Ending, Quitting

LEMMA SMembersRounds ==
  ASSUME Undisturbed, Rounds, TypeOK', NEW i \in Instances, SMembers(i)
  PROVE  Rounds'
<1>1. At(i, "smembers") /\ UNCHANGED <<local, redis, events>>
  BY DEF SMembers
<1>2. PICK t \in Tasks : t = Head(pipe[i])
  BY <1>1, AtHead
<1>3. /\ pipe[i] # <<>> /\ t.cmd = "smembers" /\ t.sock \in Sockets /\ t.room \in Rooms
      /\ t \in Pending(i) /\ Holds(t) /\ Pending(i) \in SUBSET Tasks
      /\ \A s \in Sockets : HostOf[s] = i /\ Tracked(s)
  BY <1>1, <1>2, AtHead
<1>4. /\ TypeOK /\ InOrder /\ members[t.room] \in SUBSET Sockets
      /\ UNCHANGED <<local, redis>> /\ UNCHANGED <<local, hash>> /\ members' = members
  BY <1>1, <1>3 DEF Rounds, TypeOK, redis
<1>5. CASE Listed(i, t, {}, <<>>)
  <2>1. <<>> \in Seq(Tasks) /\ {} \in SUBSET Sockets
    OBVIOUS
  <2>2. QED
    BY <1>2, <1>3, <1>4, <1>5, <2>1, ListedPasses
<1>6. CASE Reply(i, <<[t EXCEPT !.cmd = "hgetall", !.keys = members[t.room]]>>)
  <2>1. PICK u \in Tasks : u = [t EXCEPT !.cmd = "hgetall", !.keys = members[t.room]]
    <3>1. [t EXCEPT !.cmd = "hgetall", !.keys = members[t.room]] \in Tasks
      BY <1>3, <1>4 DEF Tasks, Commands
    <3>2. QED
      BY <3>1
  <2>2. /\ u.cmd = "hgetall" /\ u.keys = members[t.room] /\ u.sock = t.sock /\ u.job = t.job
        /\ u.room = t.room /\ u.key = t.key
    BY <2>1 DEF Tasks
  <2>3. t.job \in {"join", "emit", "read"}
    BY <1>3 DEF Holds, Made
  <2>4. \A s \in u.keys : s \in Sockets /\ hash[s] = t.room /\ hash[s] # NoRoom
    BY <1>3, <1>4, <2>2, PresenceAssumption DEF Tracked
  <2>5. Holds(u) /\ (Adding(u, t.sock) <=> Adding(t, t.sock)) /\ ~Quitting(u, t.sock)
    <3>1. ASSUME Adding(t, t.sock) PROVE t.sock \notin u.keys
      <4>1. SUFFICES ASSUME t.sock \in u.keys PROVE FALSE
        OBVIOUS
      <4>2. Quits(t.sock)
        <5>1. Added(t.sock)
          BY <1>3, <3>1 DEF Added
        <5>2. QED
          BY <1>3, <2>4, <4>1, <5>1 DEF Tracked
      <4>3. QED
        BY <1>2, <1>3, <3>1, <4>2, NotBehind
    <3>2. QED
      BY <1>3, <2>2, <2>3, <3>1 DEF Holds, Made, Adding, Suspecting, Quitting, Purging
  <2>6. ASSUME NEW x \in Pending(i), Fits(t, x) PROVE Fits(x, u)
    <3>1. ASSUME NEW s \in u.keys, Adding(x, s) PROVE LeastToAdd(x) = 3
      <4>1. Quits(s)
        <5>1. Added(s) /\ s \in Sockets
          BY <1>3, <2>4, <3>1 DEF Added
        <5>2. QED
          BY <1>3, <2>4, <5>1 DEF Tracked
      <4>2. PICK y \in Pending(i) : Quitting(y, s)
        BY <1>3, <2>4, <4>1 DEF Quits
      <4>3. s \in Sockets /\ (x = y \/ Fits(x, y) \/ Fits(y, x))
        BY <1>4, <2>4, Pairs
      <4>4. x.cmd = "smembers"
        BY <3>1, <4>2, <4>3 DEF Fits, Adding, Quitting
      <4>5. QED
        BY <4>4 DEF LeastToAdd
    <3>2. x \in Tasks /\ Made(t) /\ <<t.cmd, u.cmd>> \in Steps
      BY <1>3, <2>2 DEF Holds, Steps
    <3>3. QED
      BY <2>2, <2>6, <3>1, <3>2, NextFits
  <2>7. ~Ending(t, t.sock)
    BY <2>3 DEF Ending
  <2> DEFINE ts == <<u>>
  <2>8. /\ ts \in Seq(Tasks) /\ Reply(i, ts) /\ \A k \in DOMAIN ts : ts[k] = u
        /\ 1 \in DOMAIN ts /\ \A k, l \in DOMAIN ts : ~(k < l)
    BY <1>6, <2>1
  <2> HIDE DEF ts
  <2>9. QED
    BY <1>2, <1>3, <1>4, <2>2, <2>5, <2>6, <2>7, <2>8, Passing
<1>7. QED
  BY <1>2, <1>5, <1>6 DEF SMembers

LEMMA HGetAllRounds ==
  ASSUME Undisturbed, Rounds, TypeOK', NEW i \in Instances, HGetAll(i)
  PROVE  Rounds'
<1>1. At(i, "hgetall") /\ UNCHANGED <<local, redis, events>>
  BY DEF HGetAll
<1>2. PICK t \in Tasks : t = Head(pipe[i])
  BY <1>1, AtHead
<1>3. /\ pipe[i] # <<>> /\ t.cmd = "hgetall" /\ t.sock \in Sockets /\ t.room \in Rooms
      /\ t.keys \in SUBSET Sockets /\ Holds(t)
  BY <1>1, <1>2, AtHead
<1> DEFINE valid == {k \in t.keys : hash[k] # NoRoom}
           cleanup == [t EXCEPT !.cmd = "cleanup", !.job = "clean", !.keys = t.keys \ valid]
           cleaning == IF valid = t.keys THEN <<>> ELSE <<cleanup>>
<1>4. /\ cleanup \in Tasks /\ cleanup.sock = t.sock /\ cleanup.key = t.key
      /\ cleanup.job = "clean" /\ cleanup.cmd = "cleanup" /\ cleanup.keys = t.keys \ valid
  BY <1>3 DEF Tasks, Commands, Jobs
<1>5. \A s \in cleanup.keys : hash[s] = NoRoom
  BY <1>4
<1>6. valid \in SUBSET Sockets
  BY <1>3
<1>7. PICK u \in Tasks : u = [t EXCEPT !.keys = {}]
  BY DEF Tasks
<1>8. u.sock = t.sock /\ u.job = t.job /\ u.room = t.room
  BY <1>7 DEF Tasks
<1>9. Listed(i, u, valid, cleaning)
  BY <1>2, <1>7 DEF HGetAll
<1>10. t.key = t.sock
  BY <1>3 DEF Holds, Made
<1> HIDE DEF cleanup, valid
<1>11. cleaning \in Seq(Tasks)
  BY <1>4
<1>12. PICK users \in SUBSET Sockets, cl \in Seq(Tasks) : users = valid /\ cl = cleaning
  BY <1>6, <1>11
<1>13. \/ cl = <<>>
       \/ \E c \in Tasks :
            /\ cl = <<c>> /\ c.sock = t.sock /\ c.key = c.sock
            /\ c.job = "clean" /\ c.cmd = "cleanup"
            /\ t.cmd = "hgetall" /\ c.keys \subseteq t.keys
            /\ \A s \in c.keys : hash[s] = NoRoom
  BY <1>3, <1>4, <1>5, <1>10, <1>12
<1>14. Listed(i, u, users, cl)
  BY <1>9, <1>12
<1>15. QED
  BY <1>1, <1>2, <1>3, <1>8, <1>13, <1>14, ListedPasses

(* A reply after which the handler sends nothing more.                      *)
LEMMA PassingOut ==
  ASSUME Undisturbed, Rounds, TypeOK', NEW i \in Instances, pipe[i] # <<>>,
         NEW t \in Tasks, t = Head(pipe[i]), Reply(i, <<>>),
         UNCHANGED <<local, hash>>, \A r \in Rooms : members'[r] \subseteq members[r],
         t.cmd # "srem", ~Adding(t, t.sock),
         Ending(t, t.sock) => hash[t.sock] = NoRoom /\ t.cmd = "lookup"
  PROVE  Rounds'
<1> DEFINE ts == <<>>
<1>1. ts \in Seq(Tasks) /\ DOMAIN ts = {} /\ Reply(i, ts)
  OBVIOUS
<1> HIDE DEF ts
<1>2. QED
  BY <1>1, Passing

(* A reply after which the handler sends the next of its commands.          *)
LEMMA PassingOn ==
  ASSUME Undisturbed, Rounds, TypeOK', NEW i \in Instances, pipe[i] # <<>>,
         NEW t \in Tasks, t = Head(pipe[i]), NEW u \in Tasks, Reply(i, <<u>>),
         UNCHANGED <<local, hash>>, \A r \in Rooms : members'[r] \subseteq members[r],
         u.sock = t.sock, u.job = t.job, u.room = t.room, u.key = t.key,
         <<t.cmd, u.cmd>> \in Steps, u.cmd # "hgetall", t.cmd \notin {"hset", "srem"}, Made(u)
  PROVE  Rounds'
<1>1. t \in Pending(i) /\ Holds(t) /\ Pending(i) \in SUBSET Tasks
  <2>1. t \in Pending(i)
    BY DEF Pending, Rounds, TypeOK
  <2>2. QED
    BY <2>1, InPending DEF Rounds, Holding
<1>2. t.cmd # "srem"
  OBVIOUS
<1>3. u.cmd \notin {"srem", "cleanup", "hgetall"}
  BY DEF Steps
<1>4. /\ Adding(t, t.sock) <=> Adding(u, t.sock)
      /\ Ending(t, t.sock) <=> Ending(u, t.sock)
      /\ ~Quitting(u, t.sock)
  BY <1>1, <1>3 DEF Adding, Ending, Quitting, Holds, Made, Steps
<1>5. Holds(u)
  BY <1>1, <1>3, <1>4 DEF Holds, Suspecting, Quitting, Purging
<1>6. \A x \in Pending(i) : Fits(t, x) => Fits(x, u)
  BY <1>1, <1>3, NextFits DEF Holds
<1> DEFINE ts == <<u>>
<1>7. /\ ts \in Seq(Tasks) /\ Reply(i, ts) /\ 1 \in DOMAIN ts /\ \A k \in DOMAIN ts : ts[k] = u
      /\ \A k, l \in DOMAIN ts : ~(k < l)
  OBVIOUS
<1> HIDE DEF ts
<1>8. QED
  BY <1>2, <1>4, <1>5, <1>6, <1>7, Passing

LEMMA SCardRounds ==
  ASSUME Undisturbed, Rounds, TypeOK', NEW i \in Instances,
         NEW t \in Tasks, t = Head(pipe[i]), pipe[i] # <<>>, t.cmd \in {"scard", "del"},
         t.room \in Rooms, UNCHANGED <<local, hash>>,
         \A r \in Rooms : members'[r] \subseteq members[r],
         \/ t.cmd = "scard" /\ Reply(i, <<[t EXCEPT !.cmd = "del"]>>)
         \/ \E ts \in AfterRemoval(t) : Reply(i, ts)
  PROVE  Rounds'
<1>1. Made(t)
  <2>1. t \in Pending(i)
    BY DEF Pending, Rounds, TypeOK
  <2>2. QED
    BY <2>1 DEF Rounds, Holding, Holds
<1>2. t.job \in {"leave", "disconnect", "purge"}
  BY <1>1 DEF Made
<1>3. ASSUME NEW cmd \in {"del", "count"}, Reply(i, <<[t EXCEPT !.cmd = cmd]>>),
             <<t.cmd, cmd>> \in Steps, cmd = "count" => t.job # "purge"
      PROVE  Rounds'
  <2>1. PICK u \in Tasks : u = [t EXCEPT !.cmd = cmd]
    <3>1. [t EXCEPT !.cmd = cmd] \in Tasks
      BY DEF Tasks, Commands
    <3>2. QED
      BY <3>1
  <2>2. u.cmd = cmd /\ u.sock = t.sock /\ u.job = t.job /\ u.room = t.room /\ u.key = t.key
    BY <2>1 DEF Tasks
  <2>3. Made(u)
    BY <1>1, <1>2, <1>3, <2>2 DEF Made
  <2>4. Reply(i, <<u>>)
    BY <1>3, <2>1
  <2>5. QED
    BY <1>3, <2>2, <2>3, <2>4, PassingOn
<1>4. CASE t.cmd = "scard" /\ Reply(i, <<[t EXCEPT !.cmd = "del"]>>)
  BY <1>3, <1>4 DEF Steps
<1>5. CASE \E ts \in AfterRemoval(t) : Reply(i, ts)
  <2>1. CASE t.job = "purge"
    <3>1. Reply(i, <<>>)
      BY <1>5, <2>1 DEF AfterRemoval
    <3>2. ~Adding(t, t.sock) /\ ~Ending(t, t.sock)
      BY <2>1 DEF Adding, Ending
    <3>3. QED
      BY <3>1, <3>2, PassingOut
  <2>2. CASE t.job # "purge"
    <3>1. Reply(i, <<[t EXCEPT !.cmd = "count"]>>)
      BY <1>2, <1>5, <2>2 DEF AfterRemoval
    <3>2. QED
      BY <1>3, <2>2, <3>1 DEF Steps
  <2>3. QED
    BY <2>1, <2>2
<1>6. QED
  BY <1>4, <1>5

LEMMA SIsMemberRounds ==
  ASSUME Undisturbed, Rounds, TypeOK', NEW i \in Instances, SIsMember(i)
  PROVE  Rounds'
<1>1. At(i, "sismember") /\ UNCHANGED <<local, hash>> /\ members' = members
  BY DEF SIsMember, redis
<1>2. PICK t \in Tasks : t = Head(pipe[i])
  BY <1>1, AtHead
<1>3. /\ pipe[i] # <<>> /\ t.cmd = "sismember" /\ t.sock \in Sockets /\ t.room \in Rooms
      /\ t \in Pending(i) /\ Holds(t)
      /\ \A s \in Sockets : HostOf[s] = i /\ Tracked(s)
  BY <1>1, <1>2, AtHead
<1>4. t.job = "join" /\ t.key = t.sock /\ Adding(t, t.sock)
  BY <1>3 DEF Holds, Made, Adding
<1>5. t.sock \notin members[t.room]
  <2>1. Added(t.sock) /\ ~Quits(t.sock)
    BY <1>2, <1>3, <1>4, NotBehind DEF Added
  <2>2. hash[t.sock] = NoRoom
    BY <1>3, <2>1 DEF Tracked
  <2>3. QED
    BY <1>3, <2>2, PresenceAssumption DEF Tracked
<1>6. PICK u \in Tasks : u = [t EXCEPT !.cmd = "hset"]
  <2>1. [t EXCEPT !.cmd = "hset"] \in Tasks
    BY <1>3 DEF Tasks, Commands
  <2>2. QED
    BY <2>1
<1>7. /\ u.cmd = "hset" /\ u.sock = t.sock /\ u.job = t.job /\ u.room = t.room /\ u.key = t.key
  BY <1>6 DEF Tasks
<1>8. Reply(i, <<u>>)
  BY <1>2, <1>5, <1>6 DEF SIsMember
<1>9. Made(u) /\ <<t.cmd, u.cmd>> \in Steps
  BY <1>3, <1>4, <1>7 DEF Made, Steps
<1>10. QED
  BY <1>1, <1>2, <1>3, <1>7, <1>8, <1>9, PassingOn

(* emitOnlineUsers starts.                                                  *)
LEMMA EmitIs ==
  ASSUME NEW s \in Sockets, NEW r \in Rooms
  PROVE  LET e == Task("smembers", "emit", s, r) IN
         /\ e \in Tasks /\ e.sock = s /\ Holds(e) /\ Neutral(e)
<1> DEFINE e == Task("smembers", "emit", s, r)
<1>1. e \in Tasks
  BY TaskType DEF Commands, Jobs, RoomOrNone
<1>2. e.sock = s /\ e.key = s /\ e.cmd = "smembers" /\ e.job = "emit"
  BY DEF Task
<1> HIDE DEF e
<1>3. Neutral(e)
  BY <1>2 DEF Neutral, Adding, Suspecting, Ending, Quitting, Purging
<1>4. Holds(e)
  BY <1>2 DEF Holds, Made, Adding, Quitting, Purging
<1>5. QED
  BY <1>1, <1>2, <1>3, <1>4 DEF e

LEMMA CountRounds ==
  ASSUME Undisturbed, Rounds, TypeOK', NEW i \in Instances, Count(i)
  PROVE  Rounds'
<1>1. At(i, "count") /\ hash' = hash /\ members' = members
  BY DEF Count, redis
<1>2. PICK t \in Tasks : t = Head(pipe[i])
  BY <1>1, AtHead
<1>3. /\ pipe[i] # <<>> /\ t.cmd = "count" /\ t.sock \in Sockets /\ t.room \in Rooms
      /\ t \in Pending(i) /\ Holds(t) /\ Pending(i) \in SUBSET Tasks
  BY <1>1, <1>2, AtHead
<1>4. t.job \in {"join", "leave", "disconnect"} /\ ~Adding(t, t.sock)
  BY <1>3 DEF Holds, Made, Adding
<1>5. PICK e \in Tasks : /\ e = Task("smembers", "emit", t.sock, t.room)
                         /\ e.sock = t.sock /\ Holds(e) /\ Neutral(e)
  BY <1>3, EmitIs
<1>6. UNCHANGED local
  BY <1>2, <1>4 DEF Count
<1>7. ~Quitting(e, t.sock) /\ ~Adding(e, t.sock) /\ \A x : Fits(x, e) /\ Fits(e, x)
  BY <1>3, <1>5, NeutralFits DEF Neutral
<1>8. CASE t.job # "disconnect"
  <2>1. Reply(i, <<e>>) /\ ~Ending(t, t.sock)
    BY <1>2, <1>4, <1>5, <1>8 DEF Count, Ending
  <2> DEFINE ts == <<e>>
  <2>2. /\ ts \in Seq(Tasks) /\ Reply(i, ts) /\ \A k \in DOMAIN ts : ts[k] = e
        /\ \A k, l \in DOMAIN ts : ~(k < l)
    BY <2>1
  <2> HIDE DEF ts
  <2>3. QED
    BY <1>1, <1>2, <1>3, <1>4, <1>5, <1>6, <1>7, <2>1, <2>2, Passing
<1>9. CASE t.job = "disconnect"
  <2>1. PICK u \in Tasks : u = Task("lookup", "disconnect", t.sock, NoRoom)
    BY <1>3, TaskType DEF Commands, Jobs, RoomOrNone
  <2>2. /\ u.cmd = "lookup" /\ u.sock = t.sock /\ u.job = "disconnect" /\ u.key = t.sock
        /\ Reply(i, <<e, u>>)
    BY <1>2, <1>4, <1>5, <1>9, <2>1 DEF Count, Task
  <2>3. Holds(u) /\ Ending(u, t.sock) /\ ~Quitting(u, t.sock) /\ ~Adding(u, t.sock)
    BY <1>3, <1>9, <2>2 DEF Holds, Made, Adding, Ending, Quitting, Purging, Suspecting
  <2>4. \A x \in Pending(i) : Fits(t, x) => Fits(x, u)
    BY <1>3, <1>9, <2>2, NextFits DEF Holds, Steps
  <2> DEFINE ts == <<e, u>>
  <2>5. /\ ts \in Seq(Tasks) /\ Reply(i, ts) /\ 2 \in DOMAIN ts /\ ts[2] = u
        /\ \A k \in DOMAIN ts : ts[k] \in {e, u}
        /\ \A k, l \in DOMAIN ts : k < l => ts[k] = e
    BY <2>2
  <2> HIDE DEF ts
  <2>6. QED
    BY <1>1, <1>2, <1>3, <1>4, <1>5, <1>6, <1>7, <2>2, <2>3, <2>4, <2>5, Passing
<1>10. QED
  BY <1>8, <1>9

LEMMA LookupRounds ==
  ASSUME Undisturbed, Rounds, TypeOK', NEW i \in Instances, Lookup(i)
  PROVE  Rounds'
<1>1. At(i, "lookup") /\ hash' = hash /\ members' = members /\ UNCHANGED local
  BY DEF Lookup, redis
<1>2. PICK t \in Tasks : t = Head(pipe[i])
  BY <1>1, AtHead
<1>3. /\ pipe[i] # <<>> /\ t.cmd = "lookup" /\ t.sock \in Sockets
      /\ t \in Pending(i) /\ Holds(t) /\ Pending(i) \in SUBSET Tasks
  BY <1>1, <1>2, AtHead
<1>4. t.job = "disconnect" /\ ~Adding(t, t.sock) /\ Ending(t, t.sock) /\ t.sock \notin up
  BY <1>3 DEF Holds, Made, Adding, Ending
<1>5. CASE hash[t.sock] = NoRoom
  <2>1. Reply(i, <<>>)
    BY <1>2, <1>5 DEF Lookup
  <2>2. QED
    BY <1>1, <1>2, <1>3, <1>4, <1>5, <2>1, PassingOut
<1>6. CASE hash[t.sock] # NoRoom
  <2>1. hash[t.sock] \in Rooms
    BY <1>3, <1>6 DEF Rounds, TypeOK, RoomOrNone
  <2>2. PICK u \in Tasks : u = Task("srem", "purge", t.sock, hash[t.sock])
    BY <1>3, <2>1, TaskType DEF Commands, Jobs, RoomOrNone
  <2>3. /\ u.cmd = "srem" /\ u.sock = t.sock /\ u.job = "purge" /\ u.key = t.sock
        /\ u.room = hash[t.sock] /\ Reply(i, <<u>>)
    BY <1>2, <1>6, <2>2 DEF Lookup, Task
  <2>4. Holds(u) /\ Purging(u, t.sock) /\ ~Quitting(u, t.sock) /\ ~Adding(u, t.sock)
    BY <1>4, <2>3 DEF Holds, Made, Adding, Quitting, Purging
  <2>5. ASSUME NEW x \in Pending(i), Fits(t, x) PROVE Fits(x, u)
    <3>1. ~Adding(x, t.sock)
      <4>1. Adding(x, t.sock) => MostToAdd(x) < LeastToLook(t)
        BY <1>3, <1>4, <2>5 DEF Fits
      <4>2. MostToAdd(x) \in 1 .. 4 /\ LeastToLook(t) = 1
        BY <1>3, Counts
      <4>3. QED
        BY <4>1, <4>2
    <3>2. \A s \in Sockets : ~Adding(u, s) /\ ~Suspecting(u, s) /\ ~Ending(u, s)
                             /\ ~Quitting(u, s) /\ (Purging(u, s) => s = t.sock)
      BY <2>3 DEF Adding, Suspecting, Ending, Quitting, Purging
    <3>3. QED
      BY <3>1, <3>2 DEF Fits
  <2> DEFINE ts == <<u>>
  <2>6. /\ ts \in Seq(Tasks) /\ Reply(i, ts) /\ 1 \in DOMAIN ts /\ \A k \in DOMAIN ts : ts[k] = u
        /\ \A k, l \in DOMAIN ts : ~(k < l)
    BY <2>3
  <2> HIDE DEF ts
  <2>7. QED
    BY <1>1, <1>2, <1>3, <1>4, <2>3, <2>4, <2>5, <2>6, Passing
<1>7. QED
  BY <1>5, <1>6

LEMMA CleanupRounds ==
  ASSUME Undisturbed, Rounds, TypeOK', NEW i \in Instances, Cleanup(i)
  PROVE  Rounds'
<1>1. At(i, "cleanup") /\ UNCHANGED local
  BY DEF Cleanup
<1>2. PICK t \in Tasks : t = Head(pipe[i])
  BY <1>1, AtHead
<1>3. pipe[i] # <<>> /\ t.cmd = "cleanup" /\ t.keys \in SUBSET Sockets /\ Holds(t)
  BY <1>1, <1>2, AtHead
<1>4. ~Adding(t, t.sock) /\ ~Ending(t, t.sock)
  BY <1>3 DEF Holds, Made, Adding, Ending
<1>5. /\ members' = [members EXCEPT ![t.room] = @ \ t.keys]
      /\ hash' = [k \in Sockets |-> IF k \in t.keys THEN NoRoom ELSE hash[k]]
      /\ Reply(i, <<>>)
  BY <1>2 DEF Cleanup
<1>6. hash' = hash
  <2>1. \A k \in Sockets : hash'[k] = hash[k]
    BY <1>3, <1>5 DEF Holds
  <2>2. hash \in [Sockets -> RoomOrNone] /\ hash' \in [Sockets -> RoomOrNone]
    BY DEF Rounds, TypeOK
  <2>3. QED
    BY <2>1, <2>2
<1>7. \A r \in Rooms : members'[r] \subseteq members[r]
  BY <1>5 DEF Rounds, TypeOK
<1>8. QED
  BY <1>1, <1>2, <1>3, <1>4, <1>5, <1>6, <1>7, PassingOut

(* A reply after which the handler sends u, and what Redis has about        *)
(* another socket is as before.                                             *)
LEMMA Changing ==
  ASSUME Undisturbed, Rounds, TypeOK', NEW i \in Instances, pipe[i] # <<>>,
         NEW t \in Tasks, t = Head(pipe[i]), NEW u \in Tasks, Reply(i, <<u>>),
         UNCHANGED local, t.cmd \in {"srem", "hset"},
         u.sock = t.sock, u.job = t.job, u.key = t.key, <<t.cmd, u.cmd>> \in Steps,
         \A s \in Sockets : s # t.sock =>
           /\ hash'[s] = hash[s]
           /\ \A r \in Rooms : s \in members'[r] => s \in members[r],
         \A x \in Pending(i) : Fits(t, x) => Holds(x)',
         Holds(u)',
         NEW rest \in SUBSET Tasks,
         Pending(i) = {t} \union rest,
         Pending(i)' = rest \union {u},
         (\A x \in rest : Fits(x, u)) => InOrder',
         \A x \in rest : Fits(t, x),
         \A j \in Instances : j # i => Pending(j)' = Pending(j),
         Tracked(t.sock)'
  PROVE  Rounds'
<1>1. Holds(t) /\ t.sock \in Sockets /\ \A s \in Sockets : HostOf[s] = i /\ Tracked(s)
  BY OneQueue DEF Rounds, Holding, Tasks
<1>2. InOrder'
  <2>1. \A x \in rest : Fits(x, u)
    BY <1>1, NextFits DEF Holds, Steps
  <2>2. QED
    BY <2>1
<1>3. Holding'
  <2>1. \A x \in Pending(i)' : HostOf[x.sock] = i /\ Holds(x)'
    BY <1>1 DEF Rounds, Holding
  <2>2. \A j \in Instances : j # i => Pending(j)' = {}
    BY OneQueue
  <2>3. QED
    BY <2>1, <2>2 DEF Holding
<1>4. ASSUME NEW s \in Sockets, s # t.sock PROVE Tracked(s)'
  <2>1. /\ (Added(s) <=> \E x \in Pending(i) : Adding(x, s))
        /\ (Added(s)' <=> \E x \in Pending(i)' : Adding(x, s))
        /\ (Quits(s) <=> \E x \in Pending(i) : Quitting(x, s))
        /\ (Quits(s)' <=> \E x \in Pending(i)' : Quitting(x, s))
        /\ (Ended(s) <=> \E x \in Pending(i) : Ending(x, s) \/ Purging(x, s))
        /\ (Ended(s)' <=> \E x \in Pending(i)' : Ending(x, s) \/ Purging(x, s))
    BY <1>1 DEF Added, Quits, Ended
  <2>2. \A x \in {t, u} : ~Adding(x, s) /\ ~Quitting(x, s) /\ ~Ending(x, s) /\ ~Purging(x, s)
    BY <1>4 DEF Adding, Quitting, Ending, Purging
  <2>3. (Added(s)' <=> Added(s)) /\ (Quits(s)' <=> Quits(s)) /\ (Ended(s)' <=> Ended(s))
    BY <2>1, <2>2
  <2>4. /\ up' = up /\ current' = current /\ hash'[s] = hash[s]
        /\ \A r \in Rooms : s \in members'[r] => s \in members[r]
    BY <1>4 DEF local
  <2>5. Tracked(s)
    BY <1>1
  <2>6. QED
    BY <2>3, <2>4, <2>5 DEF Tracked
<1>5. QED
  BY <1>2, <1>3, <1>4 DEF Rounds

LEMMA TurnOne ==
  ASSUME Rounds, NEW i \in Instances, pipe[i] # <<>>, NEW t \in Tasks, t = Head(pipe[i]),
         NEW u \in Tasks, Reply(i, <<u>>)
  PROVE  \E rest \in SUBSET Tasks :
           /\ Pending(i) = {t} \union rest
           /\ Pending(i)' = rest \union {u}
           /\ (\A x \in rest : Fits(x, u)) => InOrder'
           /\ \A x \in rest : Fits(t, x)
           /\ \A j \in Instances : j # i => Pending(j)' = Pending(j)
<1> DEFINE ts == <<u>>
<1>1. /\ ts \in Seq(Tasks) /\ Reply(i, ts) /\ \A k \in DOMAIN ts : ts[k] = u
      /\ {ts[k] : k \in DOMAIN ts} = {u} /\ \A k, l \in DOMAIN ts : ~(k < l)
  OBVIOUS
<1> HIDE DEF ts
<1>2. QED
  BY <1>1, Turn DEF Rounds

LEMMA SRemRounds ==
  ASSUME Undisturbed, Rounds, TypeOK', NEW i \in Instances, SRem(i)
  PROVE  Rounds'
<1>1. At(i, "srem") /\ UNCHANGED local
  BY DEF SRem
<1>2. PICK t \in Tasks : t = Head(pipe[i])
  BY <1>1, AtHead
<1>3. /\ pipe[i] # <<>> /\ t.cmd = "srem" /\ t.sock \in Sockets /\ t.room \in Rooms
      /\ t \in Pending(i) /\ Holds(t)
      /\ \A s \in Sockets : HostOf[s] = i /\ Tracked(s)
  BY <1>1, <1>2, AtHead
<1>4. t.key = t.sock /\ t.job \in {"leave", "disconnect", "purge"}
  BY <1>3 DEF Holds, Made
<1>5. PICK u \in Tasks : u = [t EXCEPT !.cmd = "scard"]
  <2>1. [t EXCEPT !.cmd = "scard"] \in Tasks
    BY <1>3 DEF Tasks, Commands
  <2>2. QED
    BY <2>1
<1>6. u.cmd = "scard" /\ u.sock = t.sock /\ u.job = t.job /\ u.key = t.key
  BY <1>5 DEF Tasks
<1>7. /\ Reply(i, <<u>>) /\ members' = [members EXCEPT ![t.room] = @ \ {t.sock}]
      /\ hash' = [hash EXCEPT ![t.sock] = NoRoom]
  BY <1>2, <1>4, <1>5 DEF SRem
<1>8. /\ hash'[t.sock] = NoRoom /\ \A s \in Sockets : s # t.sock => hash'[s] = hash[s]
      /\ \A r \in Rooms : members'[r] \subseteq members[r]
      /\ t.sock \notin members'[t.room]
      /\ up' = up /\ current' = current
  BY <1>1, <1>3, <1>7 DEF Rounds, TypeOK, local
<1>9. PICK rest \in SUBSET Tasks :
        /\ Pending(i) = {t} \union rest
        /\ Pending(i)' = rest \union {u}
        /\ (\A x \in rest : Fits(x, u)) => InOrder'
        /\ \A x \in rest : Fits(t, x)
        /\ \A j \in Instances : j # i => Pending(j)' = Pending(j)
  BY <1>2, <1>3, <1>7, TurnOne
<1>10. ASSUME NEW x \in Pending(i) PROVE Holds(x)'
  <2>1. Holds(x) /\ x \in Tasks /\ x.sock \in Sockets /\ x.keys \in SUBSET Sockets
    BY <1>10, InPending DEF Rounds, Holding, Tasks
  <2>2. \A s \in Sockets : hash'[s] = hash[s] \/ hash'[s] = NoRoom
    BY <1>8
  <2>3. QED
    BY <1>8, <2>1, <2>2 DEF Holds
<1>11. Holds(u)'
  BY <1>3, <1>4, <1>6, <1>8 DEF Holds, Made, Adding, Quitting, Purging
<1>12. hash[t.sock] \in {NoRoom, t.room}
  <2>1. CASE t.job = "disconnect"
    <3>1. ~Quits(t.sock) /\ t.room = current[t.sock]
      BY <1>2, <1>3, <2>1, NotBehind DEF Ending, Holds
    <3>2. QED
      BY <1>3, <3>1 DEF Tracked
  <2>2. CASE t.job # "disconnect"
    BY <1>3, <1>4, <2>2 DEF Holds, Quitting, Purging
  <2>3. QED
    BY <2>1, <2>2
<1>13. \A r \in Rooms : t.sock \notin members'[r]
  <2>1. \A r \in Rooms : t.sock \in members[r] => r = t.room
    BY <1>3, <1>12, PresenceAssumption DEF Tracked
  <2>2. QED
    BY <1>8, <2>1
<1>14. Tracked(t.sock)'
  <2> DEFINE s == t.sock
  <2>1. /\ (Added(s) <=> \E x \in Pending(i) : Adding(x, s))
        /\ (Added(s)' <=> \E x \in Pending(i)' : Adding(x, s))
        /\ (Quits(s) <=> \E x \in Pending(i) : Quitting(x, s))
        /\ (Quits(s)' <=> \E x \in Pending(i)' : Quitting(x, s))
        /\ (Ended(s) <=> \E x \in Pending(i) : Ending(x, s) \/ Purging(x, s))
        /\ (Ended(s)' <=> \E x \in Pending(i)' : Ending(x, s) \/ Purging(x, s))
    BY <1>3 DEF Added, Quits, Ended
  <2>2. ~Adding(t, s) /\ ~Adding(u, s) /\ ~Quitting(u, s)
    BY <1>3, <1>6 DEF Adding, Quitting
  <2>3. (Added(s)' <=> Added(s)) /\ (Quits(s)' => Quits(s))
    BY <1>9, <2>1, <2>2
  <2>4. Added(s) /\ Ended(s) => Ended(s)'
    <3>1. SUFFICES ASSUME Added(s), Ended(s) PROVE Ended(s)'
      OBVIOUS
    <3>2. PICK y \in rest : Adding(y, s)
      BY <1>9, <2>1, <2>2, <3>1
    <3>3. ~Purging(t, s)
      BY <1>3, <1>9, <3>2 DEF Fits
    <3>4. Ending(t, s) => Ending(u, s)
      BY <1>6 DEF Ending
    <3>5. QED
      BY <1>9, <2>1, <3>1, <3>3, <3>4
  <2>5. s \in up => Quits(s)
    <3>1. s \in up => t.job = "leave"
      BY <1>3, <1>4 DEF Holds
    <3>2. QED
      BY <1>3, <2>1, <3>1 DEF Quitting
  <2>6. Tracked(s)
    BY <1>3
  <2> HIDE DEF s
  <2>7. hash'[s] = NoRoom /\ \A r \in Rooms : s \notin members'[r]
    BY <1>8, <1>13 DEF s
  <2>8. Tracked(s)'
    BY <1>8, <2>3, <2>4, <2>5, <2>6, <2>7 DEF Tracked
  <2>9. QED
    BY <2>8 DEF s
<1>15. <<t.cmd, u.cmd>> \in Steps
  BY <1>3, <1>6 DEF Steps
<1>16. \A s \in Sockets : s # t.sock =>
         hash'[s] = hash[s] /\ \A r \in Rooms : s \in members'[r] => s \in members[r]
  BY <1>8
<1>17. QED
  BY <1>1, <1>2, <1>3, <1>6, <1>7, <1>9, <1>10, <1>11, <1>14, <1>15, <1>16, Changing

LEMMA HSetRounds ==
  ASSUME Undisturbed, Rounds, TypeOK', NEW i \in Instances, HSet(i)
  PROVE  Rounds'
<1>1. At(i, "hset") /\ UNCHANGED local
  BY DEF HSet
<1>2. PICK t \in Tasks : t = Head(pipe[i])
  BY <1>1, AtHead
<1>3. /\ pipe[i] # <<>> /\ t.cmd = "hset" /\ t.sock \in Sockets /\ t.room \in Rooms
      /\ t \in Pending(i) /\ Holds(t)
      /\ \A s \in Sockets : HostOf[s] = i /\ Tracked(s)
  BY <1>1, <1>2, AtHead
<1>4. t.key = t.sock /\ t.job = "join" /\ Adding(t, t.sock) /\ current[t.sock] = t.room
  BY <1>3 DEF Holds, Made, Adding
<1>5. PICK u \in Tasks : u = [t EXCEPT !.cmd = "count"]
  <2>1. [t EXCEPT !.cmd = "count"] \in Tasks
    BY <1>3 DEF Tasks, Commands
  <2>2. QED
    BY <2>1
<1>6. u.cmd = "count" /\ u.sock = t.sock /\ u.job = t.job /\ u.key = t.key
  BY <1>5 DEF Tasks
<1>7. /\ Reply(i, <<u>>) /\ members' = [members EXCEPT ![t.room] = @ \union {t.sock}]
      /\ hash' = [hash EXCEPT ![t.sock] = t.room]
  BY <1>2, <1>5 DEF HSet
<1>8. /\ hash'[t.sock] = t.room /\ \A s \in Sockets : s # t.sock => hash'[s] = hash[s]
      /\ \A s \in Sockets : s # t.sock => \A r \in Rooms : s \in members'[r] => s \in members[r]
      /\ \A r \in Rooms : t.sock \in members'[r] => r = t.room \/ t.sock \in members[r]
      /\ up' = up /\ current' = current
  BY <1>1, <1>3, <1>7 DEF Rounds, TypeOK, local
<1>9. PICK rest \in SUBSET Tasks :
        /\ Pending(i) = {t} \union rest
        /\ Pending(i)' = rest \union {u}
        /\ (\A x \in rest : Fits(x, u)) => InOrder'
        /\ \A x \in rest : Fits(t, x)
        /\ \A j \in Instances : j # i => Pending(j)' = Pending(j)
  BY <1>2, <1>3, <1>7, TurnOne
<1>10. Added(t.sock) /\ ~Quits(t.sock)
  BY <1>2, <1>3, <1>4, NotBehind DEF Added
<1>11. hash[t.sock] = NoRoom /\ \A r \in Rooms : t.sock \notin members[r]
  BY <1>3, <1>10, PresenceAssumption DEF Tracked
<1>12. ASSUME NEW x \in Pending(i), Fits(t, x) PROVE Holds(x)'
  <2>1. Holds(x) /\ x \in Tasks /\ x.sock \in Sockets /\ x.keys \in SUBSET Sockets
    BY <1>12, InPending DEF Rounds, Holding, Tasks
  <2>2. ~Quitting(x, t.sock) /\ ~Purging(x, t.sock)
    BY <1>3, <1>4, <1>12 DEF Fits
  <2>3. ~(x.cmd = "cleanup" /\ t.sock \in x.keys)
    <3>1. SUFFICES ASSUME x.cmd = "cleanup", t.sock \in x.keys PROVE FALSE
      OBVIOUS
    <3>2. MostToClean(x) < LeastToAdd(t)
      BY <1>3, <1>4, <1>12, <3>1 DEF Fits, Suspecting
    <3>3. MostToClean(x) \in 1 .. 2 /\ LeastToAdd(t) = 1
      BY <1>3, Counts
    <3>4. QED
      BY <3>2, <3>3
  <2>4. Quitting(x, x.sock) \/ Purging(x, x.sock) => x.sock # t.sock
    BY <2>2
  <2>5. Quitting(x, x.sock) \/ Purging(x, x.sock) => hash'[x.sock] \in {NoRoom, x.room}
    BY <1>8, <2>1, <2>4 DEF Holds
  <2>6. x.cmd = "cleanup" => \A s \in x.keys : hash'[s] = NoRoom
    BY <1>8, <2>1, <2>3 DEF Holds
  <2>7. QED
    BY <1>8, <2>1, <2>5, <2>6 DEF Holds
<1>13. Holds(u)'
  BY <1>4, <1>6 DEF Holds, Made, Adding, Quitting, Purging
<1>14. Tracked(t.sock)'
  <2> DEFINE s == t.sock
  <2>1. /\ (Added(s)' <=> \E x \in Pending(i)' : Adding(x, s))
        /\ (Quits(s) <=> \E x \in Pending(i) : Quitting(x, s))
        /\ (Quits(s)' <=> \E x \in Pending(i)' : Quitting(x, s))
        /\ (Ended(s) <=> \E x \in Pending(i) : Ending(x, s) \/ Purging(x, s))
        /\ (Ended(s)' <=> \E x \in Pending(i)' : Ending(x, s) \/ Purging(x, s))
    BY <1>3 DEF Added, Quits, Ended
  <2>2. /\ ~Adding(u, s) /\ ~Quitting(u, s) /\ ~Ending(t, s) /\ ~Purging(t, s)
        /\ \A x \in rest : ~Adding(x, s)
    <3>1. \A x \in rest : ~Adding(x, s)
      BY <1>3, <1>4, <1>9 DEF Fits
    <3>2. QED
      BY <1>4, <1>6, <3>1 DEF Adding, Quitting, Ending, Purging
  <2>3. ~Added(s)' /\ ~Quits(s)' /\ (Ended(s) => Ended(s)')
    BY <1>9, <1>10, <2>1, <2>2
  <2>4. s \notin up => Ended(s)
    BY <1>3, <1>10 DEF Tracked
  <2> HIDE DEF s
  <2>5. hash'[s] = current'[s] /\ up' = up /\ \A r \in Rooms : s \in members'[r] => hash'[s] = r
    BY <1>4, <1>8, <1>11 DEF s
  <2>6. Tracked(s)'
    BY <2>3, <2>4, <2>5 DEF Tracked
  <2>7. QED
    BY <2>6 DEF s
<1>15. <<t.cmd, u.cmd>> \in Steps
  BY <1>3, <1>6 DEF Steps
<1>16. \A s \in Sockets : s # t.sock =>
         hash'[s] = hash[s] /\ \A r \in Rooms : s \in members'[r] => s \in members[r]
  BY <1>8
<1>17. QED
  BY <1>1, <1>2, <1>3, <1>6, <1>7, <1>9, <1>12, <1>13, <1>14, <1>15, <1>16, Changing

(* An event of socket s sends t.                                            *)
LEMMA SendRounds ==
  ASSUME Undisturbed, Rounds, TypeOK', NEW s \in Sockets, NEW t \in Tasks, Send(s, t),
         t.sock = s, UNCHANGED redis,
         \A x \in Pending(HostOf[s]) : Fits(x, t) /\ Holds(x)',
         Holds(t)',
         \A c \in Sockets : c # s => (c \in up' <=> c \in up) /\ current'[c] = current[c],
         Tracked(s)'
  PROVE  Rounds'
<1> DEFINE i == HostOf[s]
<1>0. i \in Instances /\ \A c \in Sockets : HostOf[c] = i
  BY PresenceAssumption DEF Undisturbed
<1>1. /\ Pending(i)' = Pending(i) \union {t}
      /\ \A j \in Instances : j # i => Pending(j)' = Pending(j)
      /\ InOrder'
  BY Sending DEF Rounds
<1>2. Holding'
  <2>1. \A j \in Instances : \A x \in Pending(j) : HostOf[x.sock] = j /\ x.sock \in Sockets
    BY InPending DEF Rounds, Holding, Tasks
  <2>2. \A j \in Instances : j # i => Pending(j)' = {}
    BY <1>0, <1>1, <2>1
  <2>3. \A x \in Pending(i)' : HostOf[x.sock] = i /\ Holds(x)'
    BY <1>0, <1>1, <2>1
  <2>4. QED
    BY <2>2, <2>3 DEF Holding
<1>3. ASSUME NEW c \in Sockets, c # s PROVE Tracked(c)'
  <2>1. /\ (Added(c) <=> \E x \in Pending(i) : Adding(x, c))
        /\ (Added(c)' <=> \E x \in Pending(i)' : Adding(x, c))
        /\ (Quits(c) <=> \E x \in Pending(i) : Quitting(x, c))
        /\ (Quits(c)' <=> \E x \in Pending(i)' : Quitting(x, c))
        /\ (Ended(c) <=> \E x \in Pending(i) : Ending(x, c) \/ Purging(x, c))
        /\ (Ended(c)' <=> \E x \in Pending(i)' : Ending(x, c) \/ Purging(x, c))
    BY <1>0 DEF Added, Quits, Ended
  <2>2. ~Adding(t, c) /\ ~Quitting(t, c) /\ ~Ending(t, c) /\ ~Purging(t, c)
    BY <1>3 DEF Adding, Quitting, Ending, Purging
  <2>3. (Added(c)' <=> Added(c)) /\ (Quits(c)' <=> Quits(c)) /\ (Ended(c)' <=> Ended(c))
    BY <1>1, <2>1, <2>2
  <2>4. (c \in up' <=> c \in up) /\ current'[c] = current[c] /\ hash' = hash /\ members' = members
    BY <1>3 DEF redis
  <2>5. Tracked(c)
    BY DEF Rounds
  <2>6. QED
    BY <2>3, <2>4, <2>5 DEF Tracked
<1>4. QED
  BY <1>1, <1>2, <1>3 DEF Rounds

LEMMA HostFacts ==
  ASSUME Undisturbed, Rounds, NEW s \in Sockets
  PROVE  /\ Tracked(s) /\ HostOf[s] \in Instances
         /\ Pending(HostOf[s]) \in SUBSET Tasks
         /\ \A x \in Pending(HostOf[s]) : /\ Holds(x) /\ x \in Tasks /\ x.sock \in Sockets
                                          /\ (x.cmd # "lookup" => x.room \in Rooms)
         /\ (Added(s) <=> \E x \in Pending(HostOf[s]) : Adding(x, s))
         /\ (Added(s)' <=> \E x \in Pending(HostOf[s])' : Adding(x, s))
         /\ (Quits(s) <=> \E x \in Pending(HostOf[s]) : Quitting(x, s))
         /\ (Quits(s)' <=> \E x \in Pending(HostOf[s])' : Quitting(x, s))
         /\ (Ended(s)' <=> \E x \in Pending(HostOf[s])' : Ending(x, s) \/ Purging(x, s))
<1>1. HostOf[s] \in Instances
  BY PresenceAssumption
<1>2. Pending(HostOf[s]) \in SUBSET Tasks
  BY <1>1, InPending DEF Rounds
<1>3. \A x \in Pending(HostOf[s]) : Holds(x)
  BY <1>1 DEF Rounds, Holding
<1>4. \A x \in Tasks : x.sock \in Sockets /\ (x.cmd # "lookup" => x.room \in Rooms)
  BY DEF Tasks
<1>5. QED
  BY <1>1, <1>2, <1>3, <1>4 DEF Rounds, Added, Quits, Ended

(* JoinAgain and ListUsers.                                                 *)
LEMMA AskRounds ==
  ASSUME Undisturbed, Rounds, TypeOK', NEW s \in Sockets, NEW r \in Rooms,
         NEW job \in {"emit", "read"}, Send(s, Task("smembers", job, s, r)),
         UNCHANGED <<local, redis>>
  PROVE  Rounds'
<1>1. PICK t \in Tasks : t = Task("smembers", job, s, r)
  BY TaskType DEF Commands, Jobs, RoomOrNone
<1>2. t.sock = s /\ t.key = s /\ t.cmd = "smembers" /\ t.job = job /\ Send(s, t)
  BY <1>1 DEF Task
<1>3. Neutral(t)
  BY <1>2 DEF Neutral, Adding, Suspecting, Ending, Quitting, Purging
<1>4. Holds(t)'
  BY <1>2 DEF Holds, Made, Adding, Quitting, Purging
<1>5. UNCHANGED <<local, hash>> /\ UNCHANGED redis /\ up' = up /\ current' = current
      /\ hash' = hash /\ members' = members
  BY DEF local, redis
<1>6. \A x \in Pending(HostOf[s]) : Fits(x, t) /\ Holds(x)'
  BY <1>3, <1>5, HostFacts, HoldsStill, NeutralFits
<1>7. Tracked(s)'
  <2>1. Pending(HostOf[s])' = Pending(HostOf[s]) \union {t}
    BY <1>2, Sending DEF Rounds
  <2>2. (Added(s)' <=> Added(s)) /\ (Quits(s)' <=> Quits(s)) /\ (Ended(s) => Ended(s)')
    BY <1>3, <2>1, HostFacts DEF Neutral, Ended
  <2>3. Tracked(s)
    BY HostFacts
  <2>4. QED
    BY <1>5, <2>2, <2>3 DEF Tracked
<1>8. QED
  BY <1>2, <1>4, <1>5, <1>6, <1>7, SendRounds

(* A patient client that acts has no join in progress, and it has not       *)
(* disconnected.                                                            *)
LEMMA ActFacts ==
  ASSUME Undisturbed, Rounds, NEW s \in Sockets, Act(s)
  PROVE  /\ s \in up /\ ~Added(s)
         /\ \A x \in Pending(HostOf[s]) : ~Adding(x, s) /\ ~Ending(x, s) /\ ~Purging(x, s)
<1>1. s \in up /\ ~Entering(s)
  BY DEF Act, Undisturbed
<1>2. \A x \in Pending(HostOf[s]) : ~Adding(x, s)
  BY <1>1 DEF Entering, Adding, EnteringJobs
<1>3. QED
  BY <1>1, <1>2, HostFacts DEF Added, Holds, Ending, Purging

LEMMA JoinFreshRounds ==
  ASSUME Undisturbed, Rounds, TypeOK', NEW s \in Sockets, NEW r \in Rooms, JoinFresh(s, r)
  PROVE  Rounds'
<1>1. PICK t \in Tasks : t = Task("smembers", "join", s, r)
  BY TaskType DEF Commands, Jobs, RoomOrNone
<1>2. /\ t.sock = s /\ t.key = s /\ t.cmd = "smembers" /\ t.job = "join" /\ t.room = r
      /\ Send(s, t) /\ Act(s) /\ current[s] = NoRoom /\ UNCHANGED redis
      /\ up' = up /\ current' = [current EXCEPT ![s] = r]
      /\ hash' = hash /\ members' = members
  BY <1>1 DEF JoinFresh, EnterRoom, Task, redis
<1>3. current'[s] = r /\ \A c \in Sockets : c # s => current'[c] = current[c]
  BY <1>2 DEF Rounds, TypeOK
<1>4. /\ s \in up
      /\ \A x \in Pending(HostOf[s]) : ~Adding(x, s) /\ ~Ending(x, s) /\ ~Purging(x, s)
  BY <1>2, ActFacts
<1>5. ASSUME NEW x \in Pending(HostOf[s]) PROVE Fits(x, t) /\ Holds(x)'
  <2>1. \A c \in Sockets : /\ Adding(t, c) => c = s
                           /\ ~Suspecting(t, c) /\ ~Ending(t, c) /\ ~Quitting(t, c)
                           /\ ~Purging(t, c)
    BY <1>2 DEF Adding, Suspecting, Ending, Quitting, Purging
  <2>2. MostToClean(x) \in 1 .. 2 /\ LeastToAdd(t) = 3
    BY <1>2, Counts DEF LeastToAdd
  <2>3. Fits(x, t)
    BY <1>2, <1>4, <2>1, <2>2 DEF Fits
  <2>4. Holds(x) /\ x.sock \in Sockets
    BY HostFacts
  <2>5. Adding(x, x.sock) \/ x.job = "disconnect" => current'[x.sock] = current[x.sock]
    BY <1>3, <1>4, <2>4 DEF Ending
  <2>6. QED
    BY <1>2, <2>3, <2>4, <2>5 DEF Holds
<1>6. Holds(t)'
  BY <1>2, <1>3 DEF Holds, Made, Suspecting, Quitting, Purging
<1>7. Tracked(s)'
  <2>1. Pending(HostOf[s])' = Pending(HostOf[s]) \union {t}
    BY <1>2, Sending DEF Rounds
  <2>2. Added(s)' /\ (Quits(s) => Quits(s)')
    BY <1>2, <2>1, HostFacts DEF Adding
  <2>3. Tracked(s)
    BY HostFacts
  <2>4. QED
    BY <1>2, <1>3, <1>4, <2>2, <2>3 DEF Tracked
<1>8. QED
  BY <1>2, <1>3, <1>5, <1>6, <1>7, SendRounds

LEMMA LeaveRounds ==
  ASSUME Undisturbed, Rounds, TypeOK', NEW s \in Sockets, NEW r \in Rooms, Leave(s, r)
  PROVE  Rounds'
<1>1. PICK t \in Tasks : t = Task("srem", "leave", s, r)
  BY TaskType DEF Commands, Jobs, RoomOrNone
<1>2. /\ t.sock = s /\ t.key = s /\ t.cmd = "srem" /\ t.job = "leave" /\ t.room = r
      /\ Send(s, t) /\ Act(s) /\ current[s] = r /\ UNCHANGED redis
      /\ up' = up /\ current' = [current EXCEPT ![s] = IF @ = r THEN NoRoom ELSE @]
      /\ hash' = hash /\ members' = members
  BY <1>1 DEF Leave, Task, redis, Undisturbed
<1>3. current'[s] = NoRoom /\ \A c \in Sockets : c # s => current'[c] = current[c]
  BY <1>2 DEF Rounds, TypeOK
<1>4. /\ s \in up /\ ~Added(s)
      /\ \A x \in Pending(HostOf[s]) : ~Adding(x, s) /\ ~Ending(x, s) /\ ~Purging(x, s)
  BY <1>2, ActFacts
<1>5. ASSUME NEW x \in Pending(HostOf[s]) PROVE Fits(x, t) /\ Holds(x)'
  <2>1. \A c \in Sockets : /\ Quitting(t, c) => c = s
                           /\ ~Suspecting(t, c) /\ ~Ending(t, c) /\ ~Adding(t, c)
                           /\ ~Purging(t, c)
    BY <1>2 DEF Adding, Suspecting, Ending, Quitting, Purging
  <2>2. Fits(x, t)
    BY <1>4, <2>1 DEF Fits
  <2>3. Holds(x) /\ x.sock \in Sockets
    BY HostFacts
  <2>4. Adding(x, x.sock) \/ x.job = "disconnect" => current'[x.sock] = current[x.sock]
    BY <1>3, <1>4, <2>3 DEF Ending
  <2>5. QED
    BY <1>2, <2>2, <2>3, <2>4 DEF Holds
<1>6. Tracked(s) /\ r # NoRoom
  BY HostFacts, PresenceAssumption
<1>7. hash[s] \in {NoRoom, r}
  BY <1>2, <1>4, <1>6 DEF Tracked
<1>8. Holds(t)'
  BY <1>2, <1>7 DEF Holds, Made, Adding
<1>9. Tracked(s)'
  <2>1. Pending(HostOf[s])' = Pending(HostOf[s]) \union {t}
    BY <1>2, Sending DEF Rounds
  <2>2. Quits(s)' /\ ~Added(s)'
    BY <1>2, <1>4, <2>1, HostFacts DEF Adding, Quitting
  <2>3. QED
    BY <1>2, <1>3, <1>4, <1>6, <2>2 DEF Tracked
<1>10. QED
  BY <1>2, <1>3, <1>5, <1>8, <1>9, SendRounds

LEMMA DisconnectRounds ==
  ASSUME Undisturbed, Rounds, TypeOK', NEW s \in Sockets, Disconnect(s)
  PROVE  Rounds'
<1>1. PICK t \in Tasks :
        /\ t.sock = s /\ t.key = s /\ t.job = "disconnect" /\ Send(s, t)
        /\ \/ t.cmd = "srem" /\ t.room = current[s]
           \/ t.cmd = "lookup" /\ current[s] = NoRoom
  <2>1. CASE current[s] # NoRoom
    <3>1. current[s] \in Rooms
      BY <2>1 DEF Rounds, TypeOK, RoomOrNone
    <3>2. PICK t \in Tasks : t = Task("srem", "disconnect", s, current[s])
      BY <3>1, TaskType DEF Commands, Jobs, RoomOrNone
    <3>3. Send(s, t)
      BY <2>1, <3>2 DEF Disconnect
    <3>4. QED
      BY <3>2, <3>3 DEF Task
  <2>2. CASE current[s] = NoRoom
    <3>1. PICK t \in Tasks : t = Task("lookup", "disconnect", s, NoRoom)
      BY TaskType DEF Commands, Jobs, RoomOrNone
    <3>2. Send(s, t)
      BY <2>2, <3>1 DEF Disconnect
    <3>3. QED
      BY <2>2, <3>1, <3>2 DEF Task
  <2>3. QED
    BY <2>1, <2>2
<1>2. /\ up' = up \ {s} /\ current' = current /\ UNCHANGED redis
      /\ hash' = hash /\ members' = members
  BY DEF Disconnect, redis
<1>3. ASSUME NEW x \in Pending(HostOf[s]) PROVE Fits(x, t) /\ Holds(x)'
  <2>1. \A c \in Sockets : /\ Ending(t, c) => c = s
                           /\ ~Suspecting(t, c) /\ ~Adding(t, c) /\ ~Quitting(t, c)
                           /\ ~Purging(t, c)
    BY <1>1 DEF Adding, Suspecting, Ending, Quitting, Purging
  <2>2. Holds(x) /\ x.sock \in Sockets /\ (x.cmd # "lookup" => x.room \in Rooms)
    BY HostFacts
  <2>3. Adding(x, s) => MostToAdd(x) <= LeastToLook(t)
    <3>1. SUFFICES ASSUME Adding(x, s) PROVE MostToAdd(x) <= LeastToLook(t)
      OBVIOUS
    <3>2. x.sock = s /\ x.cmd # "lookup"
      BY <3>1 DEF Adding
    <3>3. current[s] = x.room
      BY <2>2, <3>1, <3>2 DEF Holds
    <3>4. current[s] # NoRoom
      BY <2>2, <3>2, <3>3, PresenceAssumption
    <3>5. LeastToLook(t) = 4
      BY <1>1, <3>4 DEF LeastToLook
    <3>6. QED
      BY <3>5, Counts
  <2>4. Fits(x, t)
    BY <2>1, <2>3 DEF Fits
  <2>5. Holds(x)'
    BY <1>2, <2>2 DEF Holds
  <2>6. QED
    BY <2>4, <2>5
<1>4. Holds(t)'
  BY <1>1, <1>2 DEF Holds, Made, Adding, Quitting, Purging
<1>5. Tracked(s)'
  <2>1. Pending(HostOf[s])' = Pending(HostOf[s]) \union {t}
    BY <1>1, Sending DEF Rounds
  <2>2. Ended(s)' /\ (Added(s)' <=> Added(s)) /\ (Quits(s)' <=> Quits(s))
    BY <1>1, <2>1, HostFacts DEF Adding, Quitting, Ending
  <2>3. Tracked(s)
    BY HostFacts
  <2>4. QED
    BY <1>2, <2>2, <2>3 DEF Tracked
<1>6. \A c \in Sockets : c # s => (c \in up' <=> c \in up) /\ current'[c] = current[c]
  BY <1>2
<1>7. QED
  BY <1>1, <1>2, <1>3, <1>4, <1>5, <1>6, SendRounds

LEMMA RoundsStep ==
  ASSUME Undisturbed, Rounds, [Next]_vars
  PROVE  Rounds'
<1>1. TypeOK'
  BY TypeStep DEF Rounds
<1>2. ASSUME UNCHANGED <<local, redis, pipe>> PROVE Rounds'
  <2>1. /\ up' = up /\ current' = current /\ hash' = hash /\ members' = members /\ pipe' = pipe
    BY <1>2 DEF local, redis
  <2>2. \A i : Pending(i)' = Pending(i)
    BY <2>1 DEF Pending
  <2>3. InOrder'
    BY <2>1 DEF Rounds, InOrder
  <2>4. Holding'
    <3>1. \A x : Holds(x) => Holds(x)'
      BY <2>1 DEF Holds
    <3>2. QED
      BY <2>2, <3>1 DEF Rounds, Holding
  <2>5. \A s \in Sockets : Tracked(s)'
    BY <2>1, <2>2 DEF Rounds, Tracked, Added, Quits, Ended
  <2>6. QED
    BY <1>1, <2>3, <2>4, <2>5 DEF Rounds
<1>3. ASSUME NEW s \in Sockets, NEW r \in Rooms, ClientEvent(s, r) PROVE Rounds'
  <2>1. CASE JoinAgain(s, r)
    BY <1>1, <2>1, AskRounds DEF JoinAgain
  <2>2. CASE JoinFromOther(s, r)
    BY <2>2 DEF JoinFromOther, Undisturbed
  <2>3. CASE JoinFresh(s, r)
    BY <1>1, <2>3, JoinFreshRounds
  <2>4. CASE Leave(s, r)
    BY <1>1, <2>4, LeaveRounds
  <2>5. CASE ListUsers(s, r)
    BY <1>1, <2>5, AskRounds DEF ListUsers
  <2>6. QED
    BY <1>3, <2>1, <2>2, <2>3, <2>4, <2>5 DEF ClientEvent
<1>4. ASSUME NEW s \in Sockets, Disconnect(s) \/ Expire(s) PROVE Rounds'
  BY <1>1, <1>4, DisconnectRounds DEF Expire, Undisturbed
<1>5. ASSUME NEW i \in Instances, RedisStep(i) PROVE Rounds'
  <2>1. CASE SMembers(i)
    BY <1>1, <2>1, SMembersRounds
  <2>2. CASE HGetAll(i)
    BY <1>1, <2>2, HGetAllRounds
  <2>3. CASE Cleanup(i)
    BY <1>1, <2>3, CleanupRounds
  <2>4. CASE SRem(i)
    BY <1>1, <2>4, SRemRounds
  <2>5. CASE SCard(i) \/ Del(i)
    <3>1. At(i, "scard") \/ At(i, "del")
      BY <2>5 DEF SCard, Del
    <3>2. PICK t \in Tasks : t = Head(pipe[i])
      BY <3>1, AtHead
    <3>3. pipe[i] # <<>> /\ t.cmd \in {"scard", "del"} /\ t.room \in Rooms
      BY <3>1, <3>2, AtHead
    <3>4. /\ UNCHANGED <<local, hash>> /\ \A r \in Rooms : members'[r] \subseteq members[r]
      BY <2>5, <3>2 DEF SCard, Del, redis, Rounds, TypeOK
    <3>5. \/ t.cmd = "scard" /\ Reply(i, <<[t EXCEPT !.cmd = "del"]>>)
          \/ \E ts \in AfterRemoval(t) : Reply(i, ts)
      BY <2>5, <3>2 DEF SCard, Del, At
    <3>6. QED
      BY <1>1, <3>2, <3>3, <3>4, <3>5, SCardRounds
  <2>6. CASE SIsMember(i)
    BY <1>1, <2>6, SIsMemberRounds
  <2>7. CASE HSet(i)
    BY <1>1, <2>7, HSetRounds
  <2>8. CASE Count(i)
    BY <1>1, <2>8, CountRounds
  <2>9. CASE Lookup(i)
    BY <1>1, <2>9, LookupRounds
  <2>10. QED
    BY <1>5, <2>1, <2>2, <2>3, <2>4, <2>5, <2>6, <2>7, <2>8, <2>9 DEF RedisStep
<1>6. ASSUME NEW i \in Instances, Crash(i) PROVE Rounds'
  BY <1>6 DEF Crash, Undisturbed
<1>7. ASSUME NEW i \in Instances, NEW j \in Instances, Deliver(i, j) PROVE Rounds'
  BY <1>2, <1>7 DEF Deliver
<1>8. CASE UNCHANGED vars
  BY <1>2, <1>8 DEF vars
<1>9. QED
  BY <1>3, <1>4, <1>5, <1>6, <1>7, <1>8 DEF Next

LEMMA RoundsInit == Init => Rounds
<1> SUFFICES ASSUME Init PROVE Rounds
  OBVIOUS
<1>1. TypeOK
  BY PresenceAssumption DEF Init, TypeOK, RoomOrNone
<1>2. \A i \in Instances : pipe[i] = <<>> /\ Pending(i) = {}
  BY DEF Init, Pending
<1>3. InOrder /\ Holding
  BY <1>2 DEF InOrder, Holding
<1>4. ASSUME NEW s \in Sockets PROVE Tracked(s)
  <2>1. HostOf[s] \in Instances
    BY PresenceAssumption
  <2>2. ~Added(s) /\ ~Quits(s)
    BY <1>2, <2>1 DEF Added, Quits
  <2>3. s \in up /\ hash[s] = NoRoom /\ current[s] = NoRoom /\ \A r \in Rooms : s \notin members[r]
    BY DEF Init
  <2>4. QED
    BY <2>2, <2>3 DEF Tracked
<1>5. QED
  BY <1>1, <1>3, <1>4 DEF Rounds

LEMMA QuietSockets ==
  ASSUME Rounds, Quiet, NEW s \in Sockets
  PROVE  /\ s \in up => hash[s] = current[s]
         /\ s \notin up => hash[s] = NoRoom /\ \A r \in Rooms : s \notin members[r]
<1>1. HostOf[s] \in Instances
  BY PresenceAssumption
<1>2. Pending(HostOf[s]) = {}
  BY <1>1 DEF Quiet, Pending
<1>3. ~Added(s) /\ ~Quits(s) /\ ~Ended(s)
  BY <1>2 DEF Added, Quits, Ended
<1>4. Tracked(s)
  BY DEF Rounds
<1>5. QED
  BY <1>3, <1>4, PresenceAssumption DEF Tracked

LEMMA AlwaysRounds == Undisturbed => (Spec => []Rounds)
<1> SUFFICES ASSUME Undisturbed PROVE Spec => []Rounds
  OBVIOUS
<1>1. Rounds /\ [Next]_vars => Rounds'
  BY RoundsStep
<1>2. QED
  BY <1>1, RoundsInit, PTL DEF Spec

(* Once all handlers are done, Redis has nothing of a disconnected socket,  *)
(* whatever join handleDisconnect has interrupted, for any number of        *)
(* sockets, rooms and events.                                               *)
THEOREM Ghostless == Undisturbed => (Spec => []NoGhost)
<1> SUFFICES ASSUME Undisturbed PROVE Spec => []NoGhost
  OBVIOUS
<1>1. Rounds => NoGhost
  BY QuietSockets DEF NoGhost
<1>2. QED
  BY <1>1, AlwaysRounds, PTL

(* Once all handlers are done, the hash of a connected client names the room*)
(* it is in: neither the removals of an earlier stay nor a cleanup of its   *)
(* stale entry delete what a later join writes.                             *)
THEOREM HashKept == Undisturbed => (Spec => []HashFollowsRoom)
<1> SUFFICES ASSUME Undisturbed PROVE Spec => []HashFollowsRoom
  OBVIOUS
<1>1. Rounds => HashFollowsRoom
  BY QuietSockets DEF HashFollowsRoom, Rounds, TypeOK
<1>2. QED
  BY <1>1, AlwaysRounds, PTL

-----------------------------------------------------------------------------
(* The lists converge                                                       *)

(* x is the read of the members of r whose answer is broadcast as it is; a  *)
(* handler at x has the list of r read again before it ends; and what the   *)
(* read x answers if it is answered now.                                    *)
Shows(x, r) == x.job = "emit" /\ x.cmd = "hgetall" /\ x.room = r
Refreshes(x, r) ==
  /\ x.room = r
  /\ \/ x.job \in {"join", "leave"}
     \/ x.job = "disconnect" /\ x.cmd # "lookup"
     \/ x.job = "emit" /\ x.cmd = "smembers"
Valid(x) == {k \in x.keys : hash[k] # NoRoom}

(* No join of a disconnected socket is in the queue, so handleDisconnect    *)
(* leaves removeUserFromAllRooms nothing to remove.                         *)
Early(x) ==
  /\ x.job = "join" => x.sock \in up
  /\ x.job # "purge"
  /\ x.job = "disconnect" /\ x.cmd # "srem" => hash[x.sock] = NoRoom \/ Quits(x.sock)

EarlyAll == \A i \in Instances : \A x \in Pending(i) : Early(x)
OneRoom == \A s \in Sockets : \A r \in ioRooms[s] : current[s] = r
NoNews == \A ij \in Instances \X Instances :
            wire[ij] # <<>> => \A s \in Sockets : HostOf[s] # ij[2]

(* A list that is out of date when it is read is followed by another read.  *)
Promised == \A i \in Instances : \A m \in DOMAIN pipe[i] : \A r \in Rooms :
  Shows(pipe[i][m], r) =>
    \/ Valid(pipe[i][m]) = Online(r)
    \/ \E n \in DOMAIN pipe[i] : m < n /\ Refreshes(pipe[i][n], r)

(* A client that shows what is out of date will be sent another list.       *)
Displayed == \A s \in up : \A r \in ioRooms[s] :
  \/ shown[s] = Online(r)
  \/ \E x \in Pending(HostOf[s]) : Shows(x, r) \/ Refreshes(x, r)

(* The inductive invariant of ListConverges.                                *)
Converging == Rounds /\ EarlyAll /\ OneRoom /\ NoNews /\ Promised /\ Displayed

(* A turn of the queue by position.                                         *)
LEMMA Places ==
  ASSUME TypeOK, NEW i \in Instances, pipe[i] # <<>>, NEW ts \in Seq(Tasks), Reply(i, ts)
  PROVE  \E L \in Nat :
           /\ L >= 1 /\ DOMAIN pipe[i] = 1 .. L /\ pipe[i][1] = Head(pipe[i])
           /\ Len(ts) \in Nat /\ DOMAIN ts = 1 .. Len(ts)
           /\ DOMAIN pipe'[i] = 1 .. L - 1 + Len(ts)
           /\ \A n \in 1 .. L - 1 : pipe'[i][n] = pipe[i][n + 1]
           /\ \A k \in 1 .. Len(ts) : pipe'[i][L - 1 + k] = ts[k]
           /\ \A j \in Instances : j # i => pipe'[j] = pipe[j]
<1> DEFINE q == pipe[i]
           L == Len(q)
           p == pipe'[i]
<1>1. /\ q \in Seq(Tasks) /\ q # <<>> /\ L \in Nat /\ L >= 1 /\ DOMAIN q = 1 .. L
      /\ q[1] = Head(q) /\ Len(ts) \in Nat /\ DOMAIN ts = 1 .. Len(ts)
  <2>1. q \in Seq(Tasks)
    BY DEF TypeOK
  <2>2. QED
    BY <2>1
<1>2. p = Tail(q) \o ts /\ \A j \in Instances : j # i => pipe'[j] = pipe[j]
  BY DEF Reply, TypeOK
<1> HIDE DEF q, p
<1>3. /\ p \in Seq(Tasks) /\ Len(p) = L - 1 + Len(ts)
      /\ \A n \in 1 .. L - 1 : p[n] = q[n + 1]
      /\ \A k \in 1 .. Len(ts) : p[L - 1 + k] = ts[k]
  BY <1>1, <1>2, ReplyType
<1>4. DOMAIN p = 1 .. L - 1 + Len(ts)
  BY <1>1, <1>3
<1>5. QED
  BY <1>1, <1>2, <1>3, <1>4 DEF q, p

(* What the step of a handler does to the list of r: it goes on so that it  *)
(* is read again; or it neither changes who is online in r nor loses the    *)
(* promise of another list.                                                 *)
Renewed(ts, r) == /\ \E k \in DOMAIN ts : Refreshes(ts[k], r)
                  /\ \A k \in DOMAIN ts : ~Shows(ts[k], r)
SameShown(r) == \A s \in Sockets : r \in ioRooms[s] => shown'[s] = shown[s]
Kept(i, t, ts, r) ==
  /\ Online(r)' = Online(r)
  /\ \A x \in Pending(i) : Shows(x, r) /\ Valid(x) = Online(r) => Valid(x)' = Online(r)
  /\ \A k \in DOMAIN ts : Shows(ts[k], r) => Valid(ts[k])' = Online(r)
  /\ \/ ~Shows(t, r) /\ ~Refreshes(t, r) /\ SameShown(r)
     \/ SameShown(r) /\ \E k \in DOMAIN ts : Shows(ts[k], r)
     \/ \A s \in Sockets : r \in ioRooms[s] => shown'[s] = Online(r)
     \/ Shows(t, r) /\ \A s \in Sockets : r \in ioRooms[s] => shown'[s] = Valid(t)

(* The head of the queue is answered, and nobody enters or leaves a room.   *)
LEMMA PromisedReply ==
  ASSUME Undisturbed, Rounds, Promised, NEW i \in Instances, pipe[i] # <<>>,
         NEW ts \in Seq(Tasks), Reply(i, ts), NEW t,
         \A r \in Rooms : Renewed(ts, r) \/ Kept(i, t, ts, r)
  PROVE  Promised'
<1>1. TypeOK
  BY DEF Rounds
<1>2. PICK L \in Nat :
           /\ L >= 1 /\ DOMAIN pipe[i] = 1 .. L /\ pipe[i][1] = Head(pipe[i])
           /\ Len(ts) \in Nat /\ DOMAIN ts = 1 .. Len(ts)
           /\ DOMAIN pipe'[i] = 1 .. L - 1 + Len(ts)
           /\ \A n \in 1 .. L - 1 : pipe'[i][n] = pipe[i][n + 1]
           /\ \A k \in 1 .. Len(ts) : pipe'[i][L - 1 + k] = ts[k]
           /\ \A j \in Instances : j # i => pipe'[j] = pipe[j]
  BY <1>1, Places
<1>3. ASSUME NEW m \in DOMAIN pipe'[i], NEW r \in Rooms, NEW x, x = pipe'[i][m],
             Shows(x, r), Valid(x)' # Online(r)'
      PROVE  \E n \in DOMAIN pipe'[i] : m < n /\ Refreshes(pipe'[i][n], r)
  <2>1. CASE Renewed(ts, r)
    <3>1. PICK k \in 1 .. Len(ts) : Refreshes(ts[k], r)
      BY <1>2, <2>1 DEF Renewed
    <3>2. L - 1 + k \in DOMAIN pipe'[i] /\ pipe'[i][L - 1 + k] = ts[k]
      BY <1>2
    <3>3. m < L - 1 + k
      <4>1. CASE m \in 1 .. L - 1
        BY <1>2, <4>1
      <4>2. CASE m \notin 1 .. L - 1
        <5>1. m - (L - 1) \in 1 .. Len(ts) /\ m = L - 1 + (m - (L - 1))
          BY <1>2, <4>2
        <5>2. x = ts[m - (L - 1)]
          BY <1>2, <1>3, <5>1
        <5>3. QED
          BY <1>2, <1>3, <2>1, <5>1, <5>2 DEF Renewed
      <4>3. QED
        BY <4>1, <4>2
    <3>4. QED
      BY <3>1, <3>2, <3>3
  <2>2. CASE Kept(i, t, ts, r)
    <3>1. CASE m \in 1 .. L - 1
      <4>1. m + 1 \in DOMAIN pipe[i] /\ x = pipe[i][m + 1]
        BY <1>2, <1>3, <3>1
      <4>2. x \in Pending(i)
        BY <4>1 DEF Pending
      <4>3. Valid(x) # Online(r)
        BY <1>3, <2>2, <4>2 DEF Kept
      <4>4. PICK n \in DOMAIN pipe[i] : m + 1 < n /\ Refreshes(pipe[i][n], r)
        BY <1>3, <4>1, <4>3 DEF Promised
      <4>5. n - 1 \in 1 .. L - 1 /\ n - 1 + 1 = n /\ m < n - 1 /\ n - 1 \in DOMAIN pipe'[i]
        BY <1>2, <3>1, <4>4
      <4>6. pipe'[i][n - 1] = pipe[i][n]
        BY <1>2, <4>5
      <4>7. QED
        BY <4>4, <4>5, <4>6
    <3>2. CASE m \notin 1 .. L - 1
      <4>1. m - (L - 1) \in 1 .. Len(ts) /\ m = L - 1 + (m - (L - 1))
        BY <1>2, <3>2
      <4>2. x = ts[m - (L - 1)]
        BY <1>2, <1>3, <4>1
      <4>3. QED
        BY <1>2, <1>3, <2>2, <4>1, <4>2 DEF Kept
    <3>3. QED
      BY <3>1, <3>2
  <2>3. QED
    BY <2>1, <2>2
<1>4. \A j \in Instances : j # i => DOMAIN pipe'[j] = {}
  <2>1. Pending(i) # {}
    <3>1. 1 \in DOMAIN pipe[i]
      BY <1>2
    <3>2. QED
      BY <3>1 DEF Pending
  <2>2. \A j \in Instances : j # i => Pending(j) = {}
    BY <2>1, OneQueue
  <2>3. \A j \in Instances : j # i => DOMAIN pipe[j] = {}
    BY <2>2 DEF Pending
  <2>4. QED
    BY <1>2, <2>3
<1>5. SUFFICES ASSUME NEW j \in Instances, NEW m \in DOMAIN pipe'[j], NEW r \in Rooms,
                      Shows(pipe'[j][m], r), Valid(pipe[j][m])' # Online(r)'
               PROVE  \E n \in DOMAIN pipe'[j] : m < n /\ Refreshes(pipe'[j][n], r)
  BY DEF Promised, Shows, Refreshes
<1>6. PICK x : x = pipe'[j][m]
  OBVIOUS
<1>7. Valid(x)' # Online(r)'
  BY <1>5, <1>6 DEF Valid
<1>8. j = i
  BY <1>4
<1>9. QED
  BY <1>3, <1>5, <1>6, <1>7, <1>8

LEMMA DisplayedReply ==
  ASSUME Undisturbed, Rounds, Promised, Displayed, NEW i \in Instances, pipe[i] # <<>>,
         NEW ts \in Seq(Tasks), Reply(i, ts), NEW t, t = Head(pipe[i]), UNCHANGED local,
         \A r \in Rooms : Renewed(ts, r) \/ Kept(i, t, ts, r)
  PROVE  Displayed'
<1>1. TypeOK
  BY DEF Rounds
<1>2. PICK L \in Nat :
           /\ L >= 1 /\ DOMAIN pipe[i] = 1 .. L /\ pipe[i][1] = Head(pipe[i])
           /\ Len(ts) \in Nat /\ DOMAIN ts = 1 .. Len(ts)
           /\ DOMAIN pipe'[i] = 1 .. L - 1 + Len(ts)
           /\ \A n \in 1 .. L - 1 : pipe'[i][n] = pipe[i][n + 1]
           /\ \A k \in 1 .. Len(ts) : pipe'[i][L - 1 + k] = ts[k]
  BY <1>1, Places
<1>3. \A n \in 2 .. L : pipe[i][n] \in Pending(i)'
  <2>1. \A n \in 2 .. L : n - 1 \in 1 .. L - 1 /\ n - 1 + 1 = n /\ n - 1 \in DOMAIN pipe'[i]
    BY <1>2
  <2>2. \A n \in 2 .. L : pipe'[i][n - 1] = pipe[i][n]
    BY <1>2, <2>1
  <2>3. \A n \in 2 .. L : n - 1 \in DOMAIN pipe'[i] /\ pipe[i][n] = pipe'[i][n - 1]
    BY <2>1, <2>2
  <2>4. \A n \in 2 .. L : \E k \in DOMAIN pipe'[i] : pipe[i][n] = pipe'[i][k]
    BY <2>3
  <2>5. QED
    BY <2>4 DEF Pending
<1>4. \A k \in DOMAIN ts : ts[k] \in Pending(i)'
  <2>1. \A k \in 1 .. Len(ts) : L - 1 + k \in DOMAIN pipe'[i]
    BY <1>2
  <2>2. \A k \in 1 .. Len(ts) : \E n \in DOMAIN pipe'[i] : ts[k] = pipe'[i][n]
    BY <1>2, <2>1
  <2>3. QED
    BY <1>2, <2>2 DEF Pending
<1>5. \A x \in Pending(i) : x = t \/ x \in Pending(i)'
  <2>1. \A n \in 1 .. L : n = 1 \/ n \in 2 .. L
    BY <1>2
  <2>2. QED
    BY <1>2, <1>3, <2>1 DEF Pending
<1>6. ASSUME NEW r \in Rooms, Shows(t, r)
      PROVE  Valid(t) = Online(r) \/ \E x \in Pending(i)' : Refreshes(x, r)
  <2>1. 1 \in DOMAIN pipe[i] /\ pipe[i][1] = t
    BY <1>2
  <2>2. Valid(t) = Online(r) \/ \E n \in DOMAIN pipe[i] : 1 < n /\ Refreshes(pipe[i][n], r)
    BY <1>6, <2>1 DEF Promised
  <2>3. \A n \in DOMAIN pipe[i] : 1 < n => n \in 2 .. L
    BY <1>2
  <2>4. QED
    BY <1>3, <2>2, <2>3
<1>7. \A s \in Sockets : HostOf[s] = i
  <2>1. 1 \in DOMAIN pipe[i]
    BY <1>2
  <2>2. Pending(i) # {}
    BY <2>1 DEF Pending
  <2>3. QED
    BY <2>2, OneQueue
<1>8. up' = up /\ ioRooms' = ioRooms /\ up \subseteq Sockets /\ ioRooms \in [Sockets -> SUBSET Rooms]
  BY <1>1 DEF local, TypeOK
<1>9. ASSUME NEW s \in up, NEW r \in ioRooms[s]
      PROVE  \/ shown'[s] = Online(r)'
             \/ \E x \in Pending(i)' : Shows(x, r) \/ Refreshes(x, r)
  <2>1. s \in Sockets /\ r \in Rooms /\ HostOf[s] = i
    BY <1>7, <1>8, <1>9
  <2>2. CASE Renewed(ts, r)
    BY <1>4, <2>2 DEF Renewed
  <2>3. CASE Kept(i, t, ts, r)
    <3>1. Online(r)' = Online(r)
      BY <2>3 DEF Kept
    <3>2. CASE ~Shows(t, r) /\ ~Refreshes(t, r) /\ SameShown(r)
      <4>1. shown'[s] = shown[s]
        BY <2>1, <3>2 DEF SameShown
      <4>2. \/ shown[s] = Online(r)
            \/ \E x \in Pending(i) : Shows(x, r) \/ Refreshes(x, r)
        BY <2>1 DEF Displayed
      <4>3. QED
        BY <1>5, <3>1, <3>2, <4>1, <4>2
    <3>3. CASE \E k \in DOMAIN ts : Shows(ts[k], r)
      BY <1>4, <3>3
    <3>4. CASE \A c \in Sockets : r \in ioRooms[c] => shown'[c] = Online(r)
      BY <2>1, <3>1, <3>4
    <3>5. CASE Shows(t, r) /\ \A c \in Sockets : r \in ioRooms[c] => shown'[c] = Valid(t)
      BY <1>6, <2>1, <3>1, <3>5
    <3>6. QED
      BY <2>3, <3>2, <3>3, <3>4, <3>5 DEF Kept
  <2>4. QED
    BY <2>1, <2>2, <2>3
<1>10. SUFFICES ASSUME NEW s \in up, NEW r \in ioRooms[s]
                PROVE  \/ shown'[s] = Online(r)'
                       \/ \E x \in Pending(HostOf[s])' : Shows(x, r) \/ Refreshes(x, r)
  BY <1>8 DEF Displayed, Shows, Refreshes
<1>11. QED
  BY <1>7, <1>8, <1>9

(* What a handler sends next is as early as what it has come from.          *)
Follows(u, t) ==
  /\ u.job = "join" => t.job = "join" /\ u.sock = t.sock
  /\ u.job # "purge"
  /\ u.job = "disconnect" => hash'[u.sock] = NoRoom

LEMMA EarlyReply ==
  ASSUME Undisturbed, Rounds, EarlyAll, NEW i \in Instances, pipe[i] # <<>>,
         NEW t \in Tasks, t = Head(pipe[i]), NEW ts \in Seq(Tasks), Reply(i, ts),
         UNCHANGED local,
         \A k \in DOMAIN ts : Follows(ts[k], t),
         \A s \in Sockets \ up : hash[s] = NoRoom => hash'[s] = NoRoom,
         Quitting(t, t.sock) => hash'[t.sock] = NoRoom
  PROVE  EarlyAll'
<1>1. TypeOK /\ InOrder /\ up' = up
  BY DEF Rounds, local
<1>2. PICK rest \in SUBSET Tasks :
           /\ Pending(i) = {t} \union rest
           /\ Pending(i)' = rest \union {ts[k] : k \in DOMAIN ts}
           /\ \A j \in Instances : j # i => Pending(j)' = Pending(j)
  <2>1. \E rest \in SUBSET Tasks :
           /\ Pending(i) = {Head(pipe[i])} \union rest
           /\ Pending(i)' = rest \union {ts[k] : k \in DOMAIN ts}
           /\ \A j \in Instances : j # i => Pending(j)' = Pending(j)
    BY <1>1, Turn, Zenon
  <2>2. QED
    BY <2>1
<1>3. /\ \A s \in Sockets : HostOf[s] = i
      /\ \A j \in Instances : j # i => Pending(j) = {}
  BY <1>2, OneQueue
<1>4. \A x \in Pending(i) : Early(x) /\ Holds(x)
  BY DEF EarlyAll, Rounds, Holding
<1>5. ASSUME NEW x \in rest PROVE Early(x)'
  <2>1. Early(x) /\ Holds(x) /\ x.sock \in Sockets
    BY <1>2, <1>4 DEF Tasks
  <2>2. ASSUME x.job = "disconnect", x.cmd # "srem"
        PROVE  hash'[x.sock] = NoRoom \/ Quits(x.sock)'
    <3>1. CASE hash[x.sock] = NoRoom
      BY <2>1, <2>2, <3>1 DEF Holds
    <3>2. CASE Quits(x.sock)
      <4>1. PICK y \in Pending(i) : Quitting(y, x.sock)
        BY <1>3, <2>1, <3>2 DEF Quits
      <4>2. CASE y = t
        BY <4>1, <4>2 DEF Quitting
      <4>3. CASE y \in rest
        BY <1>2, <1>3, <2>1, <4>1, <4>3 DEF Quits
      <4>4. QED
        BY <1>2, <4>2, <4>3
    <3>3. QED
      BY <2>1, <2>2, <3>1, <3>2 DEF Early
  <2>3. QED
    BY <1>1, <2>1, <2>2 DEF Early
<1>6. ASSUME NEW k \in DOMAIN ts PROVE Early(ts[k])'
  <2>1. t.job = "join" => t.sock \in up
    BY <1>2, <1>4 DEF Early
  <2>2. PICK u : u = ts[k]
    OBVIOUS
  <2>3. Follows(u, t)
    BY <2>2
  <2>4. Early(u)'
    BY <1>1, <2>1, <2>3 DEF Early, Follows
  <2>5. QED
    BY <2>2, <2>4
<1>7. \A x \in Pending(i)' : Early(x)'
  BY <1>2, <1>5, <1>6
<1>8. \A j \in Instances : \A x \in Pending(j)' : Early(x)'
  BY <1>2, <1>3, <1>7
<1>9. QED
  BY <1>8 DEF EarlyAll

(* A step of a handler keeps the invariant.                                 *)
LEMMA ConvergingReply ==
  ASSUME Undisturbed, Converging, Rounds', NEW i \in Instances, pipe[i] # <<>>,
         NEW t \in Tasks, t = Head(pipe[i]), NEW ts \in Seq(Tasks), Reply(i, ts),
         UNCHANGED local, NoNews',
         \A k \in DOMAIN ts : Follows(ts[k], t),
         \A s \in Sockets \ up : hash[s] = NoRoom => hash'[s] = NoRoom,
         Quitting(t, t.sock) => hash'[t.sock] = NoRoom,
         \A r \in Rooms : Renewed(ts, r) \/ Kept(i, t, ts, r)
  PROVE  Converging'
<1>1. Rounds /\ EarlyAll /\ OneRoom /\ Promised /\ Displayed
  BY DEF Converging
<1>2. EarlyAll'
  BY <1>1, EarlyReply
<1>3. Promised' /\ Displayed'
  BY <1>1, PromisedReply, DisplayedReply
<1>4. OneRoom'
  BY <1>1 DEF OneRoom, local
<1>5. QED
  BY <1>2, <1>3, <1>4 DEF Converging

(* A client has one more command sent for it.                               *)
LEMMA ConvergingSend ==
  ASSUME Undisturbed, Converging, Rounds', NEW s \in Sockets, NEW t \in Tasks, Send(s, t),
         UNCHANGED <<redis, front>>, OneRoom', Early(t)',
         \A x \in Pending(HostOf[s]) : x.job = "join" => x.sock \in up',
         \A r \in Rooms : ~Shows(t, r),
         \A c \in up' : \A r \in ioRooms'[c] :
           (c \in up /\ r \in ioRooms[c]) \/ Refreshes(t, r)
  PROVE  Converging'
<1> DEFINE i == HostOf[s]
<1>0. i \in Instances /\ (\A c \in Sockets : HostOf[c] = i)
  BY PresenceAssumption DEF Undisturbed
<1>1. /\ Rounds /\ EarlyAll /\ OneRoom /\ NoNews /\ Promised /\ Displayed
      /\ TypeOK /\ InOrder
  BY DEF Converging, Rounds
<1>2. /\ members' = members /\ hash' = hash /\ wire' = wire /\ shown' = shown
      /\ \A r : Online(r)' = Online(r)
      /\ \A x : Valid(x)' = Valid(x)
  BY DEF redis, front, Online, Valid
<1>3. /\ Pending(i)' = Pending(i) \union {t}
      /\ \A j \in Instances : j # i => Pending(j)' = Pending(j)
  BY <1>1, Sending
<1>4. EarlyAll'
  <2>1. ASSUME NEW j \in Instances, NEW x \in Pending(j) PROVE Early(x)'
    <3>1. Early(x) /\ x.sock \in Sockets /\ HostOf[x.sock] = j
      BY <1>1, InPending DEF EarlyAll, Rounds, Holding, Tasks
    <3>2. j = i
      BY <1>0, <3>1
    <3>3. Quits(x.sock) => Quits(x.sock)'
      BY <1>3, <3>1, <3>2 DEF Quits
    <3>4. QED
      BY <1>2, <3>1, <3>2, <3>3 DEF Early
  <2>2. \A j \in Instances : \A x \in Pending(j)' : Early(x)'
    BY <1>3, <2>1
  <2>3. QED
    BY <2>2 DEF EarlyAll
<1>5. NoNews'
  BY <1>1, <1>2 DEF NoNews
<1>6. Promised'
  <2>1. \A j \in Instances : pipe[j] \in Seq(Tasks)
    BY <1>1 DEF TypeOK
  <2>2. /\ pipe'[i] = Append(pipe[i], t)
        /\ \A j \in Instances : j # i => pipe'[j] = pipe[j]
    BY <1>0, <1>1 DEF Send, TypeOK
  <2>3. /\ Len(pipe[i]) \in Nat /\ DOMAIN pipe[i] = 1 .. Len(pipe[i])
        /\ DOMAIN pipe'[i] = 1 .. Len(pipe[i]) + 1
        /\ \A n \in 1 .. Len(pipe[i]) : pipe'[i][n] = pipe[i][n]
        /\ pipe'[i][Len(pipe[i]) + 1] = t
    BY <1>0, <2>1, <2>2, SendType
  <2>4. \A j \in Instances : \A n \in DOMAIN pipe[j] :
          n \in DOMAIN pipe'[j] /\ pipe'[j][n] = pipe[j][n]
    BY <2>2, <2>3
  <2>5. \A j \in Instances : \A n \in DOMAIN pipe'[j] : n \in DOMAIN pipe[j] \/ pipe'[j][n] = t
    BY <2>2, <2>3
  <2>6. ASSUME NEW j \in Instances, NEW m \in DOMAIN pipe'[j], NEW r \in Rooms,
               NEW x, x = pipe'[j][m], Shows(x, r), Valid(x) # Online(r)
        PROVE  \E n \in DOMAIN pipe'[j] : m < n /\ Refreshes(pipe'[j][n], r)
    <3>1. m \in DOMAIN pipe[j] /\ x = pipe[j][m]
      BY <2>4, <2>5, <2>6
    <3>2. PICK n \in DOMAIN pipe[j] : m < n /\ Refreshes(pipe[j][n], r)
      BY <1>1, <2>6, <3>1 DEF Promised
    <3>3. QED
      BY <2>4, <3>2
  <2>7. SUFFICES ASSUME NEW j \in Instances, NEW m \in DOMAIN pipe'[j], NEW r \in Rooms,
                        Shows(pipe'[j][m], r), Valid(pipe[j][m])' # Online(r)'
                 PROVE  \E n \in DOMAIN pipe'[j] : m < n /\ Refreshes(pipe'[j][n], r)
    BY DEF Promised, Shows, Refreshes
  <2>8. PICK x : x = pipe'[j][m]
    OBVIOUS
  <2>9. Valid(x)' # Online(r)'
    BY <2>7, <2>8 DEF Valid
  <2>10. QED
    BY <1>2, <2>6, <2>7, <2>8, <2>9
<1>7. Displayed'
  <2>1. ASSUME NEW c \in up', NEW r \in ioRooms'[c]
        PROVE  \/ shown'[c] = Online(r)'
               \/ \E x \in Pending(HostOf[c])' : Shows(x, r) \/ Refreshes(x, r)
    <3>1. HostOf[c] = i
      BY <1>0 DEF Converging, Rounds, TypeOK
    <3>2. CASE c \in up /\ r \in ioRooms[c]
      <4>1. shown[c] = Online(r) \/ \E x \in Pending(i) : Shows(x, r) \/ Refreshes(x, r)
        BY <1>1, <3>1, <3>2 DEF Displayed
      <4>2. QED
        BY <1>2, <1>3, <3>1, <4>1
    <3>3. CASE Refreshes(t, r)
      BY <1>3, <3>1, <3>3
    <3>4. QED
      BY <2>1, <3>2, <3>3
  <2>2. QED
    BY <2>1 DEF Displayed, Shows, Refreshes
<1>8. QED
  BY <1>4, <1>5, <1>6, <1>7 DEF Converging

-----------------------------------------------------------------------------
(* The clients                                                              *)

(* JoinAgain and ListUsers.                                                 *)
LEMMA AskConverges ==
  ASSUME Undisturbed, Converging, Rounds', NEW s \in Sockets, NEW r \in Rooms,
         NEW job \in {"emit", "read"}, Send(s, Task("smembers", job, s, r)),
         UNCHANGED <<local, redis, front>>
  PROVE  Converging'
<1>1. PICK t \in Tasks : t = Task("smembers", job, s, r)
  BY TaskType DEF Commands, Jobs, RoomOrNone
<1>2. t.cmd = "smembers" /\ t.job = job /\ Send(s, t)
  BY <1>1 DEF Task
<1>3. UNCHANGED <<redis, front>> /\ up' = up /\ ioRooms' = ioRooms
  BY DEF local
<1>4. OneRoom'
  BY DEF Converging, OneRoom, local
<1>5. Early(t)' /\ \A c \in Rooms : ~Shows(t, c)
  BY <1>2 DEF Early, Shows
<1>6. \A x \in Pending(HostOf[s]) : x.job = "join" => x.sock \in up'
  BY <1>3, PresenceAssumption DEF Converging, EarlyAll, Early
<1>7. QED
  BY <1>2, <1>3, <1>4, <1>5, <1>6, ConvergingSend

LEMMA JoinFreshConverges ==
  ASSUME Undisturbed, Converging, Rounds', NEW s \in Sockets, NEW r \in Rooms, JoinFresh(s, r)
  PROVE  Converging'
<1>1. PICK t \in Tasks : t = Task("smembers", "join", s, r)
  BY TaskType DEF Commands, Jobs, RoomOrNone
<1>2. /\ t.cmd = "smembers" /\ t.job = "join" /\ t.sock = s /\ t.room = r /\ Send(s, t)
      /\ UNCHANGED <<redis, front>> /\ up' = up /\ s \in up /\ current[s] = NoRoom
      /\ EnterRoom(s, r)
  BY <1>1 DEF Task, JoinFresh, Act
<1>3. TypeOK /\ OneRoom /\ EarlyAll
  BY DEF Converging, Rounds
<1>4. \A c \in Sockets : /\ c # s => ioRooms'[c] = ioRooms[c] /\ current'[c] = current[c]
                         /\ c = s => ioRooms'[c] = ioRooms[c] \union {r} /\ current'[c] = r
  BY <1>2, <1>3 DEF EnterRoom, TypeOK
<1>5. ioRooms[s] = {}
  <2>1. ioRooms[s] \subseteq Rooms
    BY <1>3 DEF TypeOK
  <2>2. QED
    BY <1>2, <1>3, <2>1, PresenceAssumption DEF OneRoom
<1>6. OneRoom'
  BY <1>3, <1>4, <1>5 DEF OneRoom
<1>7. Early(t)' /\ \A c \in Rooms : ~Shows(t, c)
  BY <1>2 DEF Early, Shows
<1>8. \A x \in Pending(HostOf[s]) : x.job = "join" => x.sock \in up'
  BY <1>2, <1>3, PresenceAssumption DEF EarlyAll, Early
<1>9. Refreshes(t, r)
  BY <1>2 DEF Refreshes
<1>10. \A c \in up' : \A o \in ioRooms'[c] : (c \in up /\ o \in ioRooms[c]) \/ Refreshes(t, o)
  <2>1. up \subseteq Sockets
    BY <1>3 DEF TypeOK
  <2>2. QED
    BY <1>2, <1>4, <1>9, <2>1
<1>11. QED
  BY <1>2, <1>6, <1>7, <1>8, <1>10, ConvergingSend

LEMMA LeaveConverges ==
  ASSUME Undisturbed, Converging, Rounds', NEW s \in Sockets, NEW r \in Rooms, Leave(s, r)
  PROVE  Converging'
<1>1. PICK t \in Tasks : t = Task("srem", "leave", s, r)
  BY TaskType DEF Commands, Jobs, RoomOrNone
<1>2. /\ t.cmd = "srem" /\ t.job = "leave" /\ Send(s, t)
      /\ UNCHANGED <<redis, front>> /\ up' = up
      /\ ioRooms' = [ioRooms EXCEPT ![s] = @ \ {r}]
      /\ current' = [current EXCEPT ![s] = IF @ = r THEN NoRoom ELSE @]
  BY <1>1 DEF Task, Leave
<1>3. TypeOK /\ OneRoom /\ EarlyAll
  BY DEF Converging, Rounds
<1>4. \A c \in Sockets : \A o \in ioRooms'[c] : o \in ioRooms[c] /\ current'[c] = current[c]
  BY <1>2, <1>3 DEF TypeOK, OneRoom
<1>5. OneRoom'
  BY <1>3, <1>4 DEF OneRoom
<1>6. Early(t)' /\ \A c \in Rooms : ~Shows(t, c)
  BY <1>2 DEF Early, Shows
<1>7. \A x \in Pending(HostOf[s]) : x.job = "join" => x.sock \in up'
  BY <1>2, <1>3, PresenceAssumption DEF EarlyAll, Early
<1>8. \A c \in up' : \A o \in ioRooms'[c] : c \in up /\ o \in ioRooms[c]
  BY <1>2, <1>3, <1>4 DEF TypeOK
<1>9. QED
  BY <1>2, <1>5, <1>6, <1>7, <1>8, ConvergingSend

LEMMA DisconnectConverges ==
  ASSUME Undisturbed, ~Abrupt, Converging, Rounds', NEW s \in Sockets, Disconnect(s)
  PROVE  Converging'
<1>1. TypeOK /\ OneRoom /\ EarlyAll /\ Rounds
  BY DEF Converging, Rounds
<1>2. PICK t \in Tasks :
        /\ t.sock = s /\ t.job = "disconnect" /\ Send(s, t)
        /\ t.cmd = "srem" \/ (t.cmd = "lookup" /\ current[s] = NoRoom)
  <2>1. CASE current[s] # NoRoom
    <3>1. current[s] \in Rooms
      BY <1>1, <2>1 DEF TypeOK, RoomOrNone
    <3>2. PICK t \in Tasks : t = Task("srem", "disconnect", s, current[s])
      BY <3>1, TaskType DEF Commands, Jobs, RoomOrNone
    <3>3. Send(s, t)
      BY <2>1, <3>2 DEF Disconnect
    <3>4. QED
      BY <3>2, <3>3 DEF Task
  <2>2. CASE current[s] = NoRoom
    <3>1. PICK t \in Tasks : t = Task("lookup", "disconnect", s, NoRoom)
      BY TaskType DEF Commands, Jobs, RoomOrNone
    <3>2. Send(s, t)
      BY <2>2, <3>1 DEF Disconnect
    <3>3. QED
      BY <2>2, <3>1, <3>2 DEF Task
  <2>3. QED
    BY <2>1, <2>2
<1>3. /\ UNCHANGED <<redis, front>> /\ up' = up \ {s} /\ current' = current /\ hash' = hash
      /\ ioRooms' = [ioRooms EXCEPT ![s] = {}] /\ ~Entering(s)
  BY DEF Disconnect, redis
<1>4. \A c \in Sockets : \A o \in ioRooms'[c] : o \in ioRooms[c]
  BY <1>1, <1>3 DEF TypeOK
<1>5. OneRoom'
  BY <1>1, <1>3, <1>4 DEF OneRoom
<1>6. \A c \in Rooms : ~Shows(t, c)
  BY <1>2 DEF Shows
<1>7. Early(t)'
  <2>1. CASE t.cmd = "srem"
    BY <1>2, <2>1 DEF Early
  <2>2. CASE t.cmd = "lookup" /\ current[s] = NoRoom
    <3>1. hash[s] = NoRoom \/ Quits(s)
      BY <1>1, <2>2 DEF Rounds, Tracked
    <3>2. Pending(HostOf[s])' = Pending(HostOf[s]) \union {t}
      BY <1>1, <1>2, Sending DEF Rounds
    <3>3. Quits(s) => Quits(s)'
      BY <3>2 DEF Quits
    <3>4. QED
      BY <1>2, <1>3, <3>1, <3>3 DEF Early
  <2>3. QED
    BY <1>2, <2>1, <2>2
<1>8. \A x \in Pending(HostOf[s]) : x.job = "join" => x.sock \in up'
  <2>1. \A x \in Pending(HostOf[s]) : x.job = "join" => x.sock \in up
    BY <1>1, PresenceAssumption DEF EarlyAll, Early
  <2>2. \A x \in Pending(HostOf[s]) : x.job = "join" => x.sock # s
    BY <1>3 DEF Entering, EnteringJobs
  <2>3. QED
    BY <1>3, <2>1, <2>2
<1>9. \A c \in up' : \A o \in ioRooms'[c] : c \in up /\ o \in ioRooms[c]
  BY <1>1, <1>3, <1>4 DEF TypeOK
<1>10. QED
  BY <1>2, <1>3, <1>5, <1>6, <1>7, <1>8, <1>9, ConvergingSend

-----------------------------------------------------------------------------
(* The handlers                                                             *)

LEMMA NoNewsStill ==
  ASSUME Converging, UNCHANGED front
  PROVE  NoNews'
  BY DEF Converging, NoNews, front

(* The command at the head, and what it says.                               *)
LEMMA HeadSays ==
  ASSUME Undisturbed, Converging, NEW i \in Instances, NEW cmd, At(i, cmd)
  PROVE  \E t \in Tasks :
           /\ t = Head(pipe[i]) /\ pipe[i] # <<>> /\ t.cmd = cmd /\ t.sock \in Sockets
           /\ t.keys \in SUBSET Sockets /\ (cmd # "lookup" => t.room \in Rooms)
           /\ t \in Pending(i) /\ Holds(t) /\ Early(t)
           /\ t.job = "disconnect" /\ cmd # "srem" => hash[t.sock] = NoRoom
           /\ \A s \in Sockets : HostOf[s] = i /\ Tracked(s)
           /\ \A x \in Pending(i) : x = t \/ Fits(t, x)
<1>1. Rounds /\ TypeOK /\ EarlyAll
  BY DEF Converging, Rounds
<1>2. PICK t \in Tasks : t = Head(pipe[i])
  BY <1>1, AtHead
<1>3. /\ pipe[i] # <<>> /\ t.cmd = cmd /\ t.sock \in Sockets
      /\ t.keys \in SUBSET Sockets /\ (cmd # "lookup" => t.room \in Rooms)
      /\ t \in Pending(i) /\ Holds(t) /\ \A s \in Sockets : HostOf[s] = i /\ Tracked(s)
  BY <1>1, <1>2, AtHead
<1>4. Early(t)
  BY <1>1, <1>3 DEF EarlyAll
<1>5. \A x \in Pending(i) : x = t \/ Fits(t, x)
  <2>1. /\ pipe[i] \in Seq(Tasks) /\ DOMAIN pipe[i] = 1 .. Len(pipe[i])
        /\ pipe[i][1] = t /\ Len(pipe[i]) \in Nat /\ Len(pipe[i]) >= 1
    <3>1. pipe[i] \in Seq(Tasks)
      BY <1>1 DEF TypeOK
    <3>2. QED
      BY <1>2, <1>3, <3>1
  <2>2. \A n \in 1 .. Len(pipe[i]) : n = 1 \/ 1 < n
    BY <2>1
  <2>3. 1 \in 1 .. Len(pipe[i])
    BY <2>1
  <2>4. QED
    BY <1>1, <2>1, <2>2, <2>3 DEF Pending, Rounds, InOrder
<1>6. t.job = "disconnect" => ~Quits(t.sock)
  BY <1>3, <1>5 DEF Quits, Fits, Ending, Quitting
<1>7. t.job = "disconnect" /\ cmd # "srem" => hash[t.sock] = NoRoom
  BY <1>3, <1>4, <1>6 DEF Early
<1>8. QED
  BY <1>2, <1>3, <1>4, <1>5, <1>7

(* A handler that goes on with its next command.                            *)
LEMMA GoesOnConverges ==
  ASSUME Undisturbed, Converging, Rounds', NEW i \in Instances, NEW cmd, At(i, cmd),
         NEW t \in Tasks, t = Head(pipe[i]), cmd # "srem", NEW u \in Tasks, Reply(i, <<u>>),
         u.job = t.job, u.sock = t.sock, u.room = t.room, u.cmd # "lookup", t.job # "emit",
         UNCHANGED <<local, hash, front>>,
         \A r \in Rooms : members'[r] = members[r] \/ Refreshes(t, r)
  PROVE  Converging'
<1> DEFINE ts == <<u>>
<1>1. /\ pipe[i] # <<>> /\ t.cmd = cmd /\ Early(t)
      /\ (t.job = "disconnect" => hash[t.sock] = NoRoom)
  BY HeadSays
<1>2. ts \in Seq(Tasks) /\ Reply(i, ts) /\ 1 \in DOMAIN ts /\ \A k \in DOMAIN ts : ts[k] = u
  OBVIOUS
<1> HIDE DEF ts
<1>3. hash' = hash /\ shown' = shown /\ UNCHANGED local /\ UNCHANGED front
  BY DEF front
<1>4. \A k \in DOMAIN ts : Follows(ts[k], t)
  BY <1>1, <1>2, <1>3 DEF Follows, Early
<1>5. ~Quitting(t, t.sock)
  BY <1>1 DEF Quitting
<1>6. ASSUME NEW r \in Rooms PROVE Renewed(ts, r) \/ Kept(i, t, ts, r)
  <2>1. ~Shows(u, r) /\ ~Shows(t, r)
    BY DEF Shows
  <2>2. CASE Refreshes(t, r)
    <3>1. Refreshes(u, r)
      BY <2>2 DEF Refreshes
    <3>2. QED
      BY <1>2, <2>1, <3>1 DEF Renewed
  <2>3. CASE ~Refreshes(t, r)
    <3>1. members'[r] = members[r]
      BY <2>3
    <3>2. Online(r)' = Online(r) /\ \A x : Valid(x)' = Valid(x)
      BY <1>3, <3>1 DEF Online, Valid
    <3>3. QED
      BY <1>2, <1>3, <2>1, <2>3, <3>2 DEF Kept, SameShown
  <2>4. QED
    BY <2>2, <2>3
<1>7. NoNews'
  BY <1>3, NoNewsStill
<1>8. QED
  BY <1>1, <1>2, <1>3, <1>4, <1>5, <1>6, <1>7, ConvergingReply

LEMMA SIsMemberConverges ==
  ASSUME Undisturbed, Converging, Rounds', NEW i \in Instances, SIsMember(i)
  PROVE  Converging'
<1>1. At(i, "sismember") /\ UNCHANGED <<local, hash, front>> /\ members' = members
  BY DEF SIsMember, redis
<1>2. PICK t \in Tasks : t = Head(pipe[i]) /\ t.cmd = "sismember" /\ Holds(t)
  BY <1>1, HeadSays
<1>3. t.job = "join"
  BY <1>2 DEF Holds, Made
<1>4. PICK u \in Tasks : u = [t EXCEPT !.cmd = IF t.sock \in members[t.room]
                                               THEN "count" ELSE "hset"]
  <2>1. [t EXCEPT !.cmd = IF t.sock \in members[t.room] THEN "count" ELSE "hset"] \in Tasks
    BY <1>2 DEF Tasks, Commands
  <2>2. QED
    BY <2>1
<1>5. /\ u.job = t.job /\ u.sock = t.sock /\ u.room = t.room /\ u.cmd \in {"count", "hset"}
      /\ Reply(i, <<u>>)
  BY <1>2, <1>4 DEF Tasks, SIsMember
<1>6. QED
  BY <1>1, <1>2, <1>3, <1>5, GoesOnConverges

(* SCard and Del.                                                           *)
LEMMA SCardConverges ==
  ASSUME Undisturbed, Converging, Rounds', NEW i \in Instances, SCard(i) \/ Del(i)
  PROVE  Converging'
<1>1. PICK cmd \in {"scard", "del"} : At(i, cmd)
  BY DEF SCard, Del
<1>2. PICK t \in Tasks : /\ t = Head(pipe[i]) /\ t.cmd = cmd /\ Holds(t) /\ Early(t)
                         /\ t.room \in Rooms
  BY <1>1, HeadSays
<1>3. t.job \in {"leave", "disconnect"}
  BY <1>1, <1>2 DEF Holds, Made, Early
<1>4. PICK u \in Tasks : /\ u.job = t.job /\ u.sock = t.sock /\ u.room = t.room
                         /\ u.cmd \in {"del", "count"} /\ Reply(i, <<u>>)
  <2>1. /\ [t EXCEPT !.cmd = "del"] \in Tasks
        /\ [t EXCEPT !.cmd = "count"] \in Tasks
    BY <1>2 DEF Tasks, Commands
  <2>2. \/ Reply(i, <<[t EXCEPT !.cmd = "del"]>>)
        \/ \E ts \in AfterRemoval(t) : Reply(i, ts)
    BY <1>2 DEF SCard, Del
  <2>3. AfterRemoval(t) = {<<[t EXCEPT !.cmd = "count"]>>}
    BY <1>3 DEF AfterRemoval
  <2>4. PICK u \in Tasks : /\ u = [t EXCEPT !.cmd = "del"] \/ u = [t EXCEPT !.cmd = "count"]
                           /\ Reply(i, <<u>>)
    BY <2>1, <2>2, <2>3
  <2>5. QED
    BY <2>4 DEF Tasks
<1>5. UNCHANGED <<local, hash, front>>
  BY DEF SCard, Del, redis
<1>6. \A r \in Rooms : members'[r] = members[r] \/ Refreshes(t, r)
  <2>1. Refreshes(t, t.room)
    BY <1>1, <1>2, <1>3 DEF Refreshes
  <2>2. members' = members \/ members' = [members EXCEPT ![t.room] = {}]
    BY <1>2 DEF SCard, Del, redis
  <2>3. members \in [Rooms -> SUBSET Sockets]
    BY DEF Converging, Rounds, TypeOK
  <2>4. QED
    BY <2>1, <2>2, <2>3
<1>7. QED
  BY <1>1, <1>2, <1>3, <1>4, <1>5, <1>6, GoesOnConverges

(* emitOnlineUsers starts.                                                  *)
LEMMA CountConverges ==
  ASSUME Undisturbed, Converging, Rounds', NEW i \in Instances, Count(i)
  PROVE  Converging'
<1>1. At(i, "count") /\ hash' = hash /\ UNCHANGED front
  BY DEF Count, redis
<1>2. PICK t \in Tasks : /\ t = Head(pipe[i]) /\ t.cmd = "count" /\ Holds(t) /\ Early(t)
                         /\ t.sock \in Sockets /\ t.room \in Rooms /\ pipe[i] # <<>>
                         /\ (t.job = "disconnect" => hash[t.sock] = NoRoom)
  BY <1>1, HeadSays
<1>3. t.job \in {"join", "leave", "disconnect"}
  BY <1>2 DEF Holds, Made, Early
<1>4. PICK e \in Tasks : e = Task("smembers", "emit", t.sock, t.room)
  BY <1>2, EmitIs
<1>5. e.job = "emit" /\ e.cmd = "smembers" /\ e.room = t.room
  BY <1>4 DEF Task
<1>6. PICK l \in Tasks : l = Task("lookup", "disconnect", t.sock, NoRoom)
  BY <1>2, TaskType DEF Commands, Jobs, RoomOrNone
<1>7. l.job = "disconnect" /\ l.cmd = "lookup" /\ l.sock = t.sock
  BY <1>6 DEF Task
<1>8. PICK ts \in Seq(Tasks) : /\ Reply(i, ts) /\ 1 \in DOMAIN ts /\ ts[1] = e
                               /\ \A k \in DOMAIN ts : ts[k] = e
                                                       \/ (t.job = "disconnect" /\ ts[k] = l)
  <2>1. CASE Reply(i, <<e>>)
    <3>1. /\ <<e>> \in Seq(Tasks) /\ 1 \in DOMAIN <<e>> /\ <<e>>[1] = e
          /\ \A k \in DOMAIN <<e>> : <<e>>[k] = e
      OBVIOUS
    <3>2. QED
      BY <2>1, <3>1
  <2>2. CASE Reply(i, <<e, l>>) /\ t.job = "disconnect"
    <3>1. /\ <<e, l>> \in Seq(Tasks) /\ 1 \in DOMAIN <<e, l>> /\ <<e, l>>[1] = e
          /\ \A k \in DOMAIN <<e, l>> : <<e, l>>[k] \in {e, l}
      OBVIOUS
    <3>2. QED
      BY <2>2, <3>1
  <2>3. QED
    BY <1>2, <1>3, <1>4, <1>6, <2>1, <2>2 DEF Count
<1>9. UNCHANGED local
  BY <1>2, <1>3 DEF Count
<1>10. \A k \in DOMAIN ts : Follows(ts[k], t)
  BY <1>1, <1>2, <1>5, <1>7, <1>8 DEF Follows
<1>11. ~Quitting(t, t.sock)
  BY <1>2 DEF Quitting
<1>12. ASSUME NEW r \in Rooms PROVE Renewed(ts, r) \/ Kept(i, t, ts, r)
  <2>1. ~Shows(t, r) /\ \A k \in DOMAIN ts : ~Shows(ts[k], r)
    BY <1>2, <1>5, <1>7, <1>8 DEF Shows
  <2>2. CASE r = t.room
    BY <1>5, <1>8, <2>1, <2>2 DEF Renewed, Refreshes
  <2>3. CASE r # t.room
    <3>1. ~Refreshes(t, r)
      BY <2>3 DEF Refreshes
    <3>2. members' = members /\ shown' = shown
      BY DEF Count, redis, front
    <3>3. Online(r)' = Online(r) /\ \A x : Valid(x)' = Valid(x)
      BY <1>1, <3>2 DEF Online, Valid
    <3>4. QED
      BY <2>1, <3>1, <3>2, <3>3 DEF Kept, SameShown
  <2>4. QED
    BY <2>2, <2>3
<1>13. NoNews'
  BY <1>1, NoNewsStill
<1>14. QED
  BY <1>1, <1>2, <1>8, <1>9, <1>10, <1>11, <1>12, <1>13, ConvergingReply

(* A handler that ends, or is done with a list it does not show: nobody's   *)
(* list changes.                                                            *)
LEMMA EndsConverging ==
  ASSUME Undisturbed, Converging, Rounds', NEW i \in Instances, NEW cmd, At(i, cmd),
         NEW t \in Tasks, t = Head(pipe[i]), cmd # "srem",
         NEW ts \in Seq(Tasks), Reply(i, ts), \A k \in DOMAIN ts : ts[k].job = "clean",
         UNCHANGED <<local, hash, front>>,
         \A r \in Rooms : Online(r)' = Online(r) /\ ~Shows(t, r) /\ ~Refreshes(t, r)
  PROVE  Converging'
<1>1. pipe[i] # <<>> /\ t.cmd = cmd
  BY HeadSays
<1>2. hash' = hash /\ shown' = shown /\ UNCHANGED local /\ UNCHANGED front
  BY DEF front
<1>3. \A k \in DOMAIN ts : Follows(ts[k], t)
  BY DEF Follows
<1>4. ~Quitting(t, t.sock)
  BY <1>1 DEF Quitting
<1>5. \A r \in Rooms : Kept(i, t, ts, r)
  <2>1. \A x : Valid(x)' = Valid(x)
    BY <1>2 DEF Valid
  <2>2. \A r \in Rooms : \A k \in DOMAIN ts : ~Shows(ts[k], r)
    BY DEF Shows
  <2>3. QED
    BY <1>2, <2>1, <2>2 DEF Kept, SameShown
<1>6. NoNews'
  BY <1>2, NoNewsStill
<1>7. QED
  BY <1>1, <1>2, <1>3, <1>4, <1>5, <1>6, ConvergingReply

LEMMA LookupConverges ==
  ASSUME Undisturbed, Converging, Rounds', NEW i \in Instances, Lookup(i)
  PROVE  Converging'
<1>1. At(i, "lookup") /\ members' = members /\ UNCHANGED <<local, hash, front>>
  BY DEF Lookup, redis
<1>2. PICK t \in Tasks : /\ t = Head(pipe[i]) /\ t.cmd = "lookup" /\ Holds(t)
                         /\ (t.job = "disconnect" => hash[t.sock] = NoRoom)
  BY <1>1, HeadSays
<1>3. t.job = "disconnect"
  BY <1>2 DEF Holds, Made
<1>4. Reply(i, <<>>)
  BY <1>2, <1>3 DEF Lookup
<1>5. <<>> \in Seq(Tasks) /\ \A k \in DOMAIN <<>> : FALSE
  OBVIOUS
<1>6. \A r \in Rooms : Online(r)' = Online(r) /\ ~Shows(t, r) /\ ~Refreshes(t, r)
  BY <1>1, <1>2, <1>3 DEF Online, Shows, Refreshes
<1>7. QED
  BY <1>1, <1>2, <1>4, <1>5, <1>6, EndsConverging

LEMMA CleanupConverges ==
  ASSUME Undisturbed, Converging, Rounds', NEW i \in Instances, Cleanup(i)
  PROVE  Converging'
<1>1. At(i, "cleanup") /\ UNCHANGED <<local, front>>
  BY DEF Cleanup
<1>2. PICK t \in Tasks : t = Head(pipe[i]) /\ t.cmd = "cleanup" /\ Holds(t)
  BY <1>1, HeadSays
<1>3. t.job = "clean" /\ \A k \in t.keys : hash[k] = NoRoom
  BY <1>2 DEF Holds, Made
<1>4. /\ members' = [members EXCEPT ![t.room] = @ \ t.keys]
      /\ hash' = [k \in Sockets |-> IF k \in t.keys THEN NoRoom ELSE hash[k]]
      /\ Reply(i, <<>>)
  BY <1>2 DEF Cleanup
<1>5. TypeOK
  BY DEF Converging, Rounds
<1>6. hash' = hash
  <2>1. \A k \in Sockets : hash'[k] = hash[k]
    BY <1>3, <1>4
  <2>2. hash \in [Sockets -> RoomOrNone] /\ hash' = [k \in Sockets |-> hash'[k]]
    BY <1>4, <1>5 DEF TypeOK
  <2>3. QED
    BY <2>1, <2>2
<1>7. \A r \in Rooms : Online(r)' = Online(r) /\ ~Shows(t, r) /\ ~Refreshes(t, r)
  <2>1. ASSUME NEW r \in Rooms PROVE Online(r)' = Online(r)
    <3>1. /\ members'[r] \subseteq members[r]
          /\ \A k \in members[r] : k \in members'[r] \/ k \in t.keys
      BY <1>4, <1>5 DEF TypeOK
    <3>2. QED
      BY <1>3, <1>6, <3>1 DEF Online
  <2>2. QED
    BY <1>2, <1>3, <2>1 DEF Shows, Refreshes
<1>8. <<>> \in Seq(Tasks) /\ \A k \in DOMAIN <<>> : FALSE
  OBVIOUS
<1>9. UNCHANGED <<local, hash, front>>
  BY <1>1, <1>6
<1>10. QED
  BY <1>1, <1>2, <1>4, <1>7, <1>8, <1>9, EndsConverging

(* removeUserFromRoom of handleLeave and handleDisconnect: the socket is    *)
(* online in no other room, so only the list that is read again changes.    *)
LEMMA SRemConverges ==
  ASSUME Undisturbed, Converging, Rounds', NEW i \in Instances, SRem(i)
  PROVE  Converging'
<1>1. At(i, "srem") /\ UNCHANGED local /\ UNCHANGED front
  BY DEF SRem
<1>2. PICK t \in Tasks : /\ t = Head(pipe[i]) /\ t.cmd = "srem" /\ Holds(t) /\ Early(t)
                         /\ t.sock \in Sockets /\ t.room \in Rooms /\ pipe[i] # <<>>
                         /\ \A s \in Sockets : Tracked(s)
  BY <1>1, HeadSays
<1>3. t.key = t.sock /\ t.job \in {"leave", "disconnect"}
  BY <1>2 DEF Holds, Made, Early
<1>4. Rounds /\ TypeOK
  BY DEF Converging, Rounds
<1>5. hash[t.sock] \in {NoRoom, t.room}
  <2>1. CASE t.job = "leave"
    BY <1>2, <2>1 DEF Holds, Quitting
  <2>2. CASE t.job = "disconnect"
    <3>1. t.room = current[t.sock]
      BY <1>2, <2>2 DEF Holds
    <3>2. ~Quits(t.sock)
      BY <1>2, <1>4, <2>2, NotBehind DEF Ending
    <3>3. QED
      BY <1>2, <3>1, <3>2 DEF Tracked
  <2>3. QED
    BY <1>3, <2>1, <2>2
<1>6. PICK u \in Tasks : /\ u.job = t.job /\ u.sock = t.sock /\ u.room = t.room
                         /\ u.cmd = "scard" /\ Reply(i, <<u>>)
  <2>1. PICK u \in Tasks : u = [t EXCEPT !.cmd = "scard"]
    <3>1. [t EXCEPT !.cmd = "scard"] \in Tasks
      BY <1>2 DEF Tasks, Commands
    <3>2. QED
      BY <3>1
  <2>2. Reply(i, <<u>>)
    BY <1>2, <2>1 DEF SRem
  <2>3. QED
    BY <2>1, <2>2 DEF Tasks
<1>7. /\ members' = [members EXCEPT ![t.room] = @ \ {t.sock}]
      /\ hash' = [hash EXCEPT ![t.sock] = NoRoom]
  BY <1>2, <1>3 DEF SRem
<1>8. hash'[t.sock] = NoRoom /\ \A k \in Sockets : k # t.sock => hash'[k] = hash[k]
  BY <1>2, <1>4, <1>7 DEF TypeOK
<1> DEFINE ts == <<u>>
<1>9. ts \in Seq(Tasks) /\ Reply(i, ts) /\ 1 \in DOMAIN ts /\ \A k \in DOMAIN ts : ts[k] = u
  BY <1>6
<1> HIDE DEF ts
<1>10. \A k \in DOMAIN ts : Follows(ts[k], t)
  BY <1>3, <1>6, <1>8, <1>9 DEF Follows
<1>11. \A s \in Sockets \ up : hash[s] = NoRoom => hash'[s] = NoRoom
  BY <1>8
<1>12. ASSUME NEW r \in Rooms PROVE Renewed(ts, r) \/ Kept(i, t, ts, r)
  <2>1. ~Shows(u, r) /\ ~Shows(t, r)
    BY <1>3, <1>6 DEF Shows
  <2>2. CASE r = t.room
    <3>1. Refreshes(u, r)
      BY <1>3, <1>6, <2>2 DEF Refreshes
    <3>2. QED
      BY <1>9, <2>1, <3>1 DEF Renewed
  <2>3. CASE r # t.room
    <3>1. members'[r] = members[r] /\ members[r] \in SUBSET Sockets
      BY <1>4, <1>7, <2>3 DEF TypeOK
    <3>2. t.sock \notin members[r]
      BY <1>2, <1>5, <2>3, PresenceAssumption DEF Tracked
    <3>3. Online(r)' = Online(r)
      BY <1>8, <3>1, <3>2 DEF Online
    <3>4. ASSUME NEW x \in Pending(i), Valid(x) = Online(r) PROVE Valid(x)' = Online(r)
      <4>1. x.keys \in SUBSET Sockets
        BY <1>4, InPending DEF Tasks
      <4>2. t.sock \notin Valid(x)
        BY <3>2, <3>4 DEF Online
      <4>3. Valid(x)' = Valid(x)
        BY <1>8, <4>1, <4>2 DEF Valid
      <4>4. QED
        BY <3>4, <4>3
    <3>5. ~Refreshes(t, r)
      BY <2>3 DEF Refreshes
    <3>6. SameShown(r)
      BY <1>1 DEF SameShown, front
    <3>7. QED
      BY <1>9, <2>1, <3>3, <3>4, <3>5, <3>6 DEF Kept
  <2>4. QED
    BY <2>2, <2>3
<1>13. NoNews'
  BY <1>1, NoNewsStill
<1>14. QED
  BY <1>1, <1>2, <1>8, <1>9, <1>10, <1>11, <1>12, <1>13, ConvergingReply

(* addUserToRoom: no list that is about to be shown has looked for the      *)
(* socket that is added.                                                    *)
LEMMA HSetConverges ==
  ASSUME Undisturbed, Converging, Rounds', NEW i \in Instances, HSet(i)
  PROVE  Converging'
<1>1. At(i, "hset") /\ UNCHANGED local /\ UNCHANGED front
  BY DEF HSet
<1>2. PICK t \in Tasks : /\ t = Head(pipe[i]) /\ t.cmd = "hset" /\ Holds(t) /\ Early(t)
                         /\ t.sock \in Sockets /\ t.room \in Rooms /\ pipe[i] # <<>>
                         /\ t \in Pending(i) /\ HostOf[t.sock] = i
                         /\ \A s \in Sockets : Tracked(s)
                         /\ \A x \in Pending(i) : x = t \/ Fits(t, x)
  BY <1>1, HeadSays
<1>3. t.job = "join" /\ t.sock \in up /\ Adding(t, t.sock)
  BY <1>2 DEF Holds, Made, Early, Adding
<1>4. Rounds /\ TypeOK
  BY DEF Converging, Rounds
<1>5. hash[t.sock] = NoRoom
  <2>1. Added(t.sock)
    BY <1>2, <1>3 DEF Added
  <2>2. ~Quits(t.sock)
    BY <1>2, <1>3, <1>4, NotBehind
  <2>3. QED
    BY <1>2, <2>1, <2>2 DEF Tracked
<1>6. \A r \in Rooms : t.sock \notin members[r]
  BY <1>2, <1>5, PresenceAssumption DEF Tracked
<1>7. PICK u \in Tasks : /\ u.job = t.job /\ u.sock = t.sock /\ u.room = t.room
                         /\ u.cmd = "count" /\ Reply(i, <<u>>)
  <2>1. PICK u \in Tasks : u = [t EXCEPT !.cmd = "count"]
    <3>1. [t EXCEPT !.cmd = "count"] \in Tasks
      BY <1>2 DEF Tasks, Commands
    <3>2. QED
      BY <3>1
  <2>2. Reply(i, <<u>>)
    BY <1>2, <2>1 DEF HSet
  <2>3. QED
    BY <2>1, <2>2 DEF Tasks
<1>8. /\ members' = [members EXCEPT ![t.room] = @ \union {t.sock}]
      /\ hash' = [hash EXCEPT ![t.sock] = t.room]
  BY <1>2 DEF HSet
<1>9. \A k \in Sockets : k # t.sock => hash'[k] = hash[k]
  BY <1>2, <1>4, <1>8 DEF TypeOK
<1> DEFINE ts == <<u>>
<1>10. ts \in Seq(Tasks) /\ Reply(i, ts) /\ 1 \in DOMAIN ts /\ \A k \in DOMAIN ts : ts[k] = u
  BY <1>7
<1> HIDE DEF ts
<1>11. \A k \in DOMAIN ts : Follows(ts[k], t)
  BY <1>3, <1>7, <1>10 DEF Follows
<1>12. \A s \in Sockets \ up : hash[s] = NoRoom => hash'[s] = NoRoom
  BY <1>3, <1>9
<1>13. ~Quitting(t, t.sock)
  BY <1>2 DEF Quitting
<1>14. ASSUME NEW r \in Rooms PROVE Renewed(ts, r) \/ Kept(i, t, ts, r)
  <2>1. ~Shows(u, r) /\ ~Shows(t, r)
    BY <1>2, <1>7 DEF Shows
  <2>2. CASE r = t.room
    <3>1. Refreshes(u, r)
      BY <1>3, <1>7, <2>2 DEF Refreshes
    <3>2. QED
      BY <1>10, <2>1, <3>1 DEF Renewed
  <2>3. CASE r # t.room
    <3>1. members'[r] = members[r] /\ members[r] \in SUBSET Sockets
      BY <1>4, <1>8, <2>3 DEF TypeOK
    <3>2. Online(r)' = Online(r)
      BY <1>6, <1>9, <3>1 DEF Online
    <3>3. ASSUME NEW x \in Pending(i), Shows(x, r) PROVE Valid(x)' = Valid(x)
      <4>1. x.keys \in SUBSET Sockets
        BY <1>4, InPending DEF Tasks
      <4>2. t.sock \notin x.keys
        <5>1. Fits(t, x) /\ x.cmd = "hgetall"
          BY <1>2, <3>3 DEF Shows
        <5>2. MostToClean(x) = 2 /\ LeastToAdd(t) = 1
          BY <1>2, <5>1 DEF MostToClean, LeastToAdd
        <5>3. ~(MostToClean(x) < LeastToAdd(t))
          BY <5>2
        <5>4. QED
          BY <1>2, <1>3, <5>1, <5>3 DEF Fits, Suspecting
      <4>3. QED
        BY <1>9, <4>1, <4>2 DEF Valid
    <3>4. ~Refreshes(t, r)
      BY <2>3 DEF Refreshes
    <3>5. SameShown(r)
      BY <1>1 DEF SameShown, front
    <3>6. QED
      BY <1>10, <2>1, <3>2, <3>3, <3>4, <3>5 DEF Kept
  <2>4. QED
    BY <2>2, <2>3
<1>15. NoNews'
  BY <1>1, NoNewsStill
<1>16. QED
  BY <1>1, <1>2, <1>10, <1>11, <1>12, <1>13, <1>14, <1>15, ConvergingReply

(* emitOnlineUsers ends: the clients in the room show what it has found.    *)
LEMMA BroadcastConverges ==
  ASSUME Undisturbed, Converging, Rounds', NEW i \in Instances, NEW cmd, At(i, cmd),
         NEW t \in Tasks, t = Head(pipe[i]), cmd \in {"smembers", "hgetall"}, t.job = "emit",
         NEW ts \in Seq(Tasks), Reply(i, ts), \A k \in DOMAIN ts : ts[k].job = "clean",
         UNCHANGED <<local, redis>>, NEW users, Broadcast(i, t.room, users),
         users = Online(t.room) \/ (cmd = "hgetall" /\ users = Valid(t))
  PROVE  Converging'
<1>1. /\ pipe[i] # <<>> /\ t.cmd = cmd /\ t.room \in Rooms
      /\ \A s \in Sockets : HostOf[s] = i
  BY HeadSays
<1>2. TypeOK /\ OneRoom /\ NoNews
  BY DEF Converging, Rounds
<1>3. hash' = hash /\ members' = members /\ UNCHANGED local
  BY DEF redis
<1>4. \A k \in DOMAIN ts : Follows(ts[k], t)
  BY DEF Follows
<1>5. ~Quitting(t, t.sock)
  BY DEF Quitting
<1>6. \A s \in Sockets : shown'[s] = IF t.room \in ioRooms[s] THEN users ELSE shown[s]
  BY <1>1 DEF Broadcast, Display
<1>7. ASSUME NEW r \in Rooms PROVE Kept(i, t, ts, r)
  <2>1. Online(r)' = Online(r) /\ \A x : Valid(x)' = Valid(x)
    BY <1>3 DEF Online, Valid
  <2>2. \A k \in DOMAIN ts : ~Shows(ts[k], r)
    BY DEF Shows
  <2>3. CASE r = t.room
    <3>1. \A s \in Sockets : r \in ioRooms[s] => shown'[s] = users
      BY <1>6, <2>3
    <3>2. cmd = "hgetall" => Shows(t, r)
      BY <1>1, <2>3 DEF Shows
    <3>3. QED
      BY <2>1, <2>2, <2>3, <3>1, <3>2 DEF Kept
  <2>4. CASE r # t.room
    <3>1. ~Shows(t, r) /\ ~Refreshes(t, r)
      BY <2>4 DEF Shows, Refreshes
    <3>2. SameShown(r)
      BY <1>2, <1>6, <2>4 DEF SameShown, OneRoom
    <3>3. QED
      BY <2>1, <2>2, <3>1, <3>2 DEF Kept
  <2>5. QED
    BY <2>3, <2>4
<1>8. NoNews'
  <2>1. \A ij \in Instances \X Instances :
          wire'[ij] = wire[ij] \/ (ij[1] = i /\ ij[2] # i)
    BY DEF Broadcast
  <2>2. QED
    BY <1>1, <1>2, <2>1 DEF NoNews
<1>9. QED
  BY <1>1, <1>3, <1>4, <1>5, <1>7, <1>8, ConvergingReply

(* getRoomUsers ends, for whoever asked.                                    *)
LEMMA ListedConverges ==
  ASSUME Undisturbed, Converging, Rounds', NEW i \in Instances, NEW cmd, At(i, cmd),
         cmd \in {"smembers", "hgetall"}, NEW h \in Tasks, h = Head(pipe[i]),
         NEW t \in Tasks, t.sock = h.sock, t.job = h.job, t.room = h.room,
         NEW users \in SUBSET Sockets, NEW cleaning \in Seq(Tasks),
         \A k \in DOMAIN cleaning : cleaning[k].job = "clean",
         UNCHANGED <<local, redis>>, Listed(i, t, users, cleaning),
         users = Online(t.room) \/ (cmd = "hgetall" /\ users = Valid(h))
  PROVE  Converging'
<1> DEFINE n == [t EXCEPT !.cmd = "sismember", !.job = "join", !.key = t.sock, !.keys = {}]
           ts == Append(cleaning, n)
<1>1. OldConnections(t, users) = {}
  BY DEF OldConnections, Undisturbed, Tasks
<1>2. h.cmd = cmd /\ pipe[i] # <<>> /\ t.room \in Rooms
  BY HeadSays
<1>3. n \in Tasks /\ n.sock = t.sock /\ n.cmd = "sismember" /\ n.job = "join" /\ n.room = t.room
  <2>1. n.sock = t.sock /\ n.cmd = "sismember" /\ n.job = "join" /\ n.room = t.room
    BY DEF Tasks
  <2>2. n \in Tasks
    BY <1>2, EvictOrCheckType DEF EvictOrCheck
  <2>3. QED
    BY <2>1, <2>2
<1> HIDE DEF n
<1>4. hash' = hash /\ members' = members /\ UNCHANGED local /\ UNCHANGED hash
  BY DEF redis
<1>5. \A r \in Rooms : Online(r)' = Online(r) /\ \A x : Valid(x)' = Valid(x)
  BY <1>4 DEF Online, Valid
<1>6. CASE t.job = "join" /\ Reply(i, ts) /\ UNCHANGED front
  <2>1. /\ ts \in Seq(Tasks) /\ Len(ts) = Len(cleaning) + 1
        /\ \A k \in 1 .. Len(cleaning) : ts[k] = cleaning[k]
        /\ ts[Len(cleaning) + 1] = n
    BY <1>3, SendType
  <2>2. /\ DOMAIN cleaning = 1 .. Len(cleaning) /\ Len(cleaning) \in Nat
        /\ DOMAIN ts = 1 .. Len(cleaning) + 1
    BY <2>1
  <2> HIDE DEF ts
  <2>3. /\ \A k \in DOMAIN ts : (k \in DOMAIN cleaning /\ ts[k] = cleaning[k]) \/ ts[k] = n
        /\ \E k \in DOMAIN ts : ts[k] = n
    BY <2>1, <2>2
  <2>4. \A k \in DOMAIN ts : Follows(ts[k], h)
    BY <1>3, <1>6, <2>3 DEF Follows
  <2>5. ~Quitting(h, h.sock)
    BY <1>6 DEF Quitting
  <2>6. ASSUME NEW r \in Rooms PROVE Renewed(ts, r) \/ Kept(i, h, ts, r)
    <3>1. /\ \A k \in DOMAIN ts : ~Shows(ts[k], r)
          /\ ~Shows(h, r)
      BY <1>3, <1>6, <2>3 DEF Shows
    <3>2. CASE r = t.room
      <4>1. Refreshes(n, r)
        BY <1>3, <3>2 DEF Refreshes
      <4>2. QED
        BY <2>3, <3>1, <4>1 DEF Renewed
    <3>3. CASE r # t.room
      <4>1. ~Refreshes(h, r) /\ SameShown(r)
        BY <1>6, <3>3 DEF Refreshes, SameShown, front
      <4>2. QED
        BY <1>5, <3>1, <4>1 DEF Kept
    <3>4. QED
      BY <3>2, <3>3
  <2>7. NoNews'
    BY <1>6, NoNewsStill
  <2>8. QED
    BY <1>2, <1>4, <1>6, <2>1, <2>4, <2>5, <2>6, <2>7, ConvergingReply
<1>7. CASE t.job = "emit" /\ Broadcast(i, t.room, users) /\ Reply(i, cleaning)
  <2>1. Broadcast(i, h.room, users) /\ h.job = "emit"
    BY <1>7
  <2>2. users = Online(h.room) \/ (cmd = "hgetall" /\ users = Valid(h))
    OBVIOUS
  <2>3. QED
    BY <1>7, <2>1, <2>2, BroadcastConverges
<1>8. CASE t.job = "read" /\ Reply(i, cleaning) /\ UNCHANGED front
  <2>1. \A r \in Rooms : Online(r)' = Online(r) /\ ~Shows(h, r) /\ ~Refreshes(h, r)
    BY <1>5, <1>8 DEF Shows, Refreshes
  <2>2. UNCHANGED <<local, hash, front>> /\ cmd # "srem"
    BY <1>4, <1>8
  <2>3. QED
    BY <1>8, <2>1, <2>2, EndsConverging
<1>9. QED
  BY <1>1, <1>6, <1>7, <1>8 DEF Listed, EvictOrCheck, n

LEMMA SMembersConverges ==
  ASSUME Undisturbed, Converging, Rounds', NEW i \in Instances, SMembers(i)
  PROVE  Converging'
<1>1. At(i, "smembers") /\ UNCHANGED <<local, redis>>
  BY DEF SMembers
<1>2. PICK t \in Tasks : /\ t = Head(pipe[i]) /\ t.cmd = "smembers" /\ Holds(t)
                         /\ t.room \in Rooms /\ pipe[i] # <<>>
  BY <1>1, HeadSays
<1>3. members[t.room] \in SUBSET Sockets
  BY <1>2 DEF Converging, Rounds, TypeOK
<1>4. hash' = hash /\ members' = members /\ UNCHANGED local /\ UNCHANGED hash
  BY <1>1 DEF redis
<1>5. CASE members[t.room] = {} /\ Listed(i, t, {}, <<>>)
  <2>1. /\ {} \in SUBSET Sockets /\ <<>> \in Seq(Tasks)
        /\ \A k \in DOMAIN <<>> : <<>>[k].job = "clean"
    OBVIOUS
  <2>2. Online(t.room) = {}
    BY <1>5 DEF Online
  <2>3. QED
    BY <1>1, <1>2, <1>5, <2>1, <2>2, ListedConverges
<1>6. CASE /\ Reply(i, <<[t EXCEPT !.cmd = "hgetall", !.keys = members[t.room]]>>)
           /\ UNCHANGED front
  <2>1. PICK u \in Tasks : u = [t EXCEPT !.cmd = "hgetall", !.keys = members[t.room]]
    <3>1. [t EXCEPT !.cmd = "hgetall", !.keys = members[t.room]] \in Tasks
      BY <1>2, <1>3 DEF Tasks, Commands
    <3>2. QED
      BY <3>1
  <2>2. /\ u.job = t.job /\ u.sock = t.sock /\ u.room = t.room /\ u.cmd = "hgetall"
        /\ u.keys = members[t.room] /\ Reply(i, <<u>>)
    BY <1>6, <2>1 DEF Tasks
  <2>3. CASE t.job # "emit"
    <3>1. UNCHANGED <<local, hash, front>> /\ \A r \in Rooms : members'[r] = members[r]
      BY <1>4, <1>6
    <3>2. QED
      BY <1>1, <1>2, <2>2, <2>3, <3>1, GoesOnConverges
  <2>4. CASE t.job = "emit"
    <3> DEFINE ts == <<u>>
    <3>1. /\ ts \in Seq(Tasks) /\ Reply(i, ts) /\ 1 \in DOMAIN ts
          /\ \A k \in DOMAIN ts : ts[k] = u
      BY <2>2
    <3> HIDE DEF ts
    <3>2. \A k \in DOMAIN ts : Follows(ts[k], t)
      BY <2>2, <2>4, <3>1 DEF Follows
    <3>3. ~Quitting(t, t.sock) /\ NoNews'
      BY <1>6, <2>4, NoNewsStill DEF Quitting
    <3>4. ASSUME NEW r \in Rooms PROVE Kept(i, t, ts, r)
      <4>1. Online(r)' = Online(r) /\ \A x : Valid(x)' = Valid(x)
        BY <1>4 DEF Online, Valid
      <4>2. Shows(u, r) => Valid(u) = Online(r)
        BY <2>2 DEF Shows, Valid, Online
      <4>3. SameShown(r) /\ ~Shows(t, r)
        BY <1>2, <1>6 DEF SameShown, front, Shows
      <4>4. Refreshes(t, r) => Shows(u, r)
        BY <2>2, <2>4 DEF Refreshes, Shows
      <4>5. QED
        BY <3>1, <4>1, <4>2, <4>3, <4>4 DEF Kept
    <3>5. QED
      BY <1>2, <1>4, <3>1, <3>2, <3>3, <3>4, ConvergingReply
  <2>5. QED
    BY <2>3, <2>4
<1>7. QED
  BY <1>2, <1>5, <1>6 DEF SMembers

LEMMA HGetAllConverges ==
  ASSUME Undisturbed, Converging, Rounds', NEW i \in Instances, HGetAll(i)
  PROVE  Converging'
<1>1. At(i, "hgetall") /\ UNCHANGED <<local, redis>>
  BY DEF HGetAll
<1>2. PICK h \in Tasks : /\ h = Head(pipe[i]) /\ h.cmd = "hgetall"
                         /\ h.room \in Rooms /\ h.keys \in SUBSET Sockets
  BY <1>1, HeadSays
<1> DEFINE c == [h EXCEPT !.cmd = "cleanup", !.job = "clean", !.keys = h.keys \ Valid(h)]
           t == [h EXCEPT !.keys = {}]
           cleaning == IF Valid(h) = h.keys THEN <<>> ELSE <<c>>
<1>3. Valid(h) \in SUBSET Sockets
  BY <1>2 DEF Valid
<1>4. c \in Tasks /\ c.job = "clean"
  BY <1>2, <1>3 DEF Tasks, Commands, Jobs
<1>5. t \in Tasks /\ t.sock = h.sock /\ t.job = h.job /\ t.room = h.room
  BY <1>2 DEF Tasks
<1>6. Listed(i, t, Valid(h), cleaning)
  BY <1>2 DEF HGetAll, Valid
<1> HIDE DEF c, t
<1>7. cleaning \in Seq(Tasks) /\ \A k \in DOMAIN cleaning : cleaning[k].job = "clean"
  BY <1>4
<1> HIDE DEF cleaning
<1>8. QED
  BY <1>1, <1>2, <1>3, <1>5, <1>6, <1>7, ListedConverges

-----------------------------------------------------------------------------
(* The invariant is kept by every step                                      *)

LEMMA ConvergingStep ==
  ASSUME Undisturbed, ~Abrupt, Converging, [Next]_vars
  PROVE  Converging'
<1>1. Rounds'
  BY RoundsStep DEF Converging
<1>2. ASSUME UNCHANGED <<local, redis, pipe, shown>>, NoNews' PROVE Converging'
  <2>1. /\ up' = up /\ current' = current /\ ioRooms' = ioRooms /\ hash' = hash
        /\ members' = members /\ pipe' = pipe /\ shown' = shown
    BY <1>2 DEF local, redis
  <2>2. EarlyAll' /\ OneRoom' /\ Promised' /\ Displayed'
    BY <2>1 DEF Converging, EarlyAll, OneRoom, Promised, Displayed, Early, Quits, Pending,
                Shows, Refreshes, Valid, Online
  <2>3. QED
    BY <1>1, <1>2, <2>2 DEF Converging
<1>3. ASSUME NEW s \in Sockets, NEW r \in Rooms, ClientEvent(s, r) PROVE Converging'
  <2>1. CASE JoinAgain(s, r)
    BY <1>1, <2>1, AskConverges DEF JoinAgain
  <2>2. CASE JoinFromOther(s, r)
    BY <2>2 DEF JoinFromOther, Undisturbed
  <2>3. CASE JoinFresh(s, r)
    BY <1>1, <2>3, JoinFreshConverges
  <2>4. CASE Leave(s, r)
    BY <1>1, <2>4, LeaveConverges
  <2>5. CASE ListUsers(s, r)
    BY <1>1, <2>5, AskConverges DEF ListUsers
  <2>6. QED
    BY <1>3, <2>1, <2>2, <2>3, <2>4, <2>5 DEF ClientEvent
<1>4. ASSUME NEW s \in Sockets, Disconnect(s) \/ Expire(s) PROVE Converging'
  BY <1>1, <1>4, DisconnectConverges DEF Expire, Undisturbed
<1>5. ASSUME NEW i \in Instances, RedisStep(i) PROVE Converging'
  <2>1. CASE SMembers(i)
    BY <1>1, <2>1, SMembersConverges
  <2>2. CASE HGetAll(i)
    BY <1>1, <2>2, HGetAllConverges
  <2>3. CASE Cleanup(i)
    BY <1>1, <2>3, CleanupConverges
  <2>4. CASE SRem(i)
    BY <1>1, <2>4, SRemConverges
  <2>5. CASE SCard(i) \/ Del(i)
    BY <1>1, <2>5, SCardConverges
  <2>6. CASE SIsMember(i)
    BY <1>1, <2>6, SIsMemberConverges
  <2>7. CASE HSet(i)
    BY <1>1, <2>7, HSetConverges
  <2>8. CASE Count(i)
    BY <1>1, <2>8, CountConverges
  <2>9. CASE Lookup(i)
    BY <1>1, <2>9, LookupConverges
  <2>10. QED
    BY <1>5, <2>1, <2>2, <2>3, <2>4, <2>5, <2>6, <2>7, <2>8, <2>9 DEF RedisStep
<1>6. ASSUME NEW i \in Instances, Crash(i) PROVE Converging'
  BY <1>6 DEF Crash, Undisturbed
<1>7. ASSUME NEW i \in Instances, NEW j \in Instances, Deliver(i, j) PROVE Converging'
  <2>1. UNCHANGED <<local, redis, pipe>> /\ wire[<<i, j>>] # <<>>
        /\ wire' = [wire EXCEPT ![<<i, j>>] = Tail(@)]
    BY <1>7 DEF Deliver
  <2>2. NoNews /\ TypeOK
    BY DEF Converging, Rounds
  <2>3. \A s \in Sockets : HostOf[s] # j
    BY <2>1, <2>2 DEF NoNews
  <2>4. shown' = shown
    <3>1. \A s \in Sockets : shown'[s] = shown[s]
      BY <1>7, <2>3 DEF Deliver, Display
    <3>2. shown' = [s \in Sockets |-> shown'[s]]
      BY <1>7 DEF Deliver, Display
    <3>3. QED
      BY <2>2, <3>1, <3>2 DEF TypeOK
  <2>5. NoNews'
    <3>1. \A ij \in Instances \X Instances : wire'[ij] = wire[ij] \/ ij = <<i, j>>
      BY <2>1, <2>2 DEF TypeOK
    <3>2. QED
      BY <2>2, <2>3, <3>1 DEF NoNews
  <2>6. QED
    BY <1>2, <2>1, <2>4, <2>5
<1>8. CASE UNCHANGED vars
  <2>1. NoNews'
    BY <1>8 DEF vars, front, Converging, NoNews
  <2>2. QED
    BY <1>2, <1>8, <2>1 DEF vars, front
<1>9. QED
  BY <1>3, <1>4, <1>5, <1>6, <1>7, <1>8 DEF Next

LEMMA ConvergingInit == Init => Converging
<1> SUFFICES ASSUME Init PROVE Converging
  OBVIOUS
<1>1. Rounds
  BY RoundsInit
<1>2. \A i \in Instances : pipe[i] = <<>> /\ Pending(i) = {}
  BY DEF Init, Pending
<1>3. EarlyAll /\ Promised
  BY <1>2 DEF EarlyAll, Promised
<1>4. OneRoom /\ Displayed /\ NoNews
  BY DEF Init, OneRoom, Displayed, NoNews
<1>5. QED
  BY <1>1, <1>3, <1>4 DEF Converging

(* Once all handlers are done, what every client in a room shows is who is  *)
(* online in it, when no client disconnects in the middle of a join: the    *)
(* list that handleJoin, handleLeave and handleDisconnect send last has been*)
(* read after every change of the room, for any number of sockets, rooms and*)
(* events.                                                                  *)
THEOREM ListsConverge == Undisturbed /\ ~Abrupt => (Spec => []ListConverges)
<1> SUFFICES ASSUME Undisturbed, ~Abrupt PROVE Spec => []ListConverges
  OBVIOUS
<1>1. Converging /\ [Next]_vars => Converging'
  BY ConvergingStep
<1>2. Converging => ListConverges
  <2> SUFFICES ASSUME Converging, Quiet, NEW s \in up, NEW r \in ioRooms[s]
               PROVE  shown[s] = Online(r)
    BY DEF ListConverges
  <2>1. HostOf[s] \in Instances
    BY PresenceAssumption DEF Converging, Rounds, TypeOK
  <2>2. Pending(HostOf[s]) = {}
    BY <2>1 DEF Quiet, Pending
  <2>3. QED
    BY <2>2 DEF Converging, Displayed
<1>3. QED
  BY <1>1, <1>2, ConvergingInit, PTL DEF Spec
=============================================================================
