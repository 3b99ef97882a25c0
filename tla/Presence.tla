------------------------------ MODULE Presence ------------------------------
(***************************************************************************)
(* Who is online in which room: ChatGateway (back/src/chat/chat.gateway.ts)*)
(* and RedisService (back/src/core/redis/redis.service.ts).                *)
(*                                                                         *)
(* Every `await` of a handler is one Redis command (or pipeline).  An      *)
(* instance of the server has ONE ioredis connection for them, which sends *)
(* commands and receives replies in order, so the handlers in progress on  *)
(* instance i are pipe[i]: the queue of their outstanding commands.  A step*)
(* executes the command at the head and runs its handler up to the next    *)
(* command, which goes to the end of the queue.                            *)
(***************************************************************************)
EXTENDS Naturals, FiniteSets, Sequences

CONSTANTS
  Sockets,    \* socket ids; a reconnection is another socket
  Rooms,
  Users,
  Instances,  \* back-end processes behind HAProxy
  UserOf,     \* the user each socket is authenticated as
  HostOf,     \* the instance each socket is connected to
  NoRoom,
  Polite,     \* clients leave a room before they join another, as the front does
  Patient,    \* clients send nothing while a join of theirs is in progress
  Abrupt,     \* a client may disconnect while a join of its is in progress
  Readers,    \* sockets whose user also asks for the list over HTTP
  Mortal,     \* the instances that may crash
  Expiry,     \* whether the 24 h TTL of a user hash may run out
  MaxEvents   \* bound: joins, leaves, disconnections and list requests

ASSUME PresenceAssumption ==
  /\ UserOf \in [Sockets -> Users]
  /\ HostOf \in [Sockets -> Instances]
  /\ NoRoom \notin Rooms
  /\ {Polite, Patient, Abrupt, Expiry} \subseteq BOOLEAN
  /\ Readers \subseteq Sockets /\ Mortal \subseteq Instances
  /\ MaxEvents \in Nat

VARIABLES
  up,         \* connected sockets
  current,    \* client.data.currentRoomId
  ioRooms,    \* the socket.io rooms each socket is in
  members,    \* Redis set room:<room>:users
  hash,       \* Redis hash user:<user>:<socket>: its roomId, NoRoom if no hash
  pipe,       \* outstanding Redis commands of each instance
  wire,       \* ONLINE_USERS broadcasts published by one instance for another
  shown,      \* the last ONLINE_USERS payload each client received
  events      \* events so far

redis == <<members, hash>>
local == <<up, current, ioRooms>>
front == <<wire, shown>>
vars == <<local, redis, pipe, front, events>>

Commands == {"smembers", "hgetall", "cleanup", "srem", "scard", "del",
             "sismember", "hset", "count", "lookup"}
(* What the command is part of: handleJoin, the leave of the previous room  *)
(* inside it, the removal of old connections inside it, handleLeave, the two*)
(* removals of handleDisconnect, emitOnlineUsers, a list request, and       *)
(* cleanupInvalidKeys.                                                      *)
Jobs == {"join", "switch", "evict", "leave", "disconnect", "purge",
         "emit", "read", "clean"}
EnteringJobs == {"join", "switch", "evict"}

RoomOrNone == Rooms \union {NoRoom}
Tasks == {t \in [cmd : Commands, job : Jobs, sock : Sockets, room : RoomOrNone,
                 key : Sockets,        \* the entry removeUserFromRoom removes
                 next : RoomOrNone,    \* the room a switch goes on to
                 keys : SUBSET Sockets]: \* keys read, to clean or to evict
            /\ t.cmd # "lookup" => t.room \in Rooms
            /\ t.job = "switch" => t.next \in Rooms}

TypeOK ==
  /\ up \subseteq Sockets
  /\ current \in [Sockets -> RoomOrNone]
  /\ ioRooms \in [Sockets -> SUBSET Rooms]
  /\ members \in [Rooms -> SUBSET Sockets]
  /\ hash \in [Sockets -> RoomOrNone]
  /\ pipe \in [Instances -> Seq(Tasks)]
  /\ wire \in [Instances \X Instances -> Seq([room : Rooms, users : SUBSET Sockets])]
  /\ shown \in [Sockets -> SUBSET Sockets]
  /\ events \in 0 .. MaxEvents

Init ==
  /\ up = Sockets
  /\ current = [s \in Sockets |-> NoRoom]
  /\ ioRooms = [s \in Sockets |-> {}]
  /\ members = [r \in Rooms |-> {}]
  /\ hash = [s \in Sockets |-> NoRoom]
  /\ pipe = [i \in Instances |-> <<>>]
  /\ wire = [ij \in Instances \X Instances |-> <<>>]
  /\ shown = [s \in Sockets |-> {}]
  /\ events = 0

-----------------------------------------------------------------------------
(* Tasks                                                                    *)

Task(cmd, job, s, r) ==
  [cmd |-> cmd, job |-> job, sock |-> s, room |-> r, key |-> s,
   next |-> NoRoom, keys |-> {}]

Send(s, t) == pipe' = [pipe EXCEPT ![HostOf[s]] = Append(@, t)]

(* The command at the head of the queue has been answered; its handler and  *)
(* what the handler left running without awaiting it go on with ts.         *)
Reply(i, ts) == pipe' = [pipe EXCEPT ![i] = Tail(@) \o ts]

At(i, cmd) == pipe[i] # <<>> /\ Head(pipe[i]).cmd = cmd

Pending(i) == {pipe[i][n] : n \in DOMAIN pipe[i]}

(* A join of the socket is in progress.                                     *)
Entering(s) == \E t \in Pending(HostOf[s]) : t.sock = s /\ t.job \in EnteringJobs

(* client.join(roomId), a no-op once the socket is disconnected, and        *)
(* client.data.currentRoomId = roomId; the caller sends the first command   *)
(* of removeUserPreviousConnections.                                        *)
EnterRoom(s, r) ==
  /\ ioRooms' = [ioRooms EXCEPT ![s] = IF s \in up THEN @ \union {r} ELSE @]
  /\ current' = [current EXCEPT ![s] = r]

(* server.to(r).emit(ONLINE_USERS, users): at once to the sockets of this   *)
(* instance, over Redis pub/sub to those of the others.                     *)
Display(i, r, users) ==
  shown' = [s \in Sockets |-> IF HostOf[s] = i /\ r \in ioRooms[s] THEN users
                                                                   ELSE shown[s]]
Broadcast(i, r, users) ==
  /\ Display(i, r, users)
  /\ wire' = [ij \in Instances \X Instances |->
                IF ij[1] = i /\ ij[2] # i
                THEN Append(wire[ij], [room |-> r, users |-> users])
                ELSE wire[ij]]

-----------------------------------------------------------------------------
(* Events of the clients                                                    *)

Event == events < MaxEvents /\ events' = events + 1

Act(s) == Event /\ s \in up /\ (Patient => ~Entering(s))

(* handleJoin for the room the socket is already in.                        *)
JoinAgain(s, r) ==
  /\ Act(s) /\ current[s] = r
  /\ Send(s, Task("smembers", "emit", s, r))
  /\ UNCHANGED <<local, redis, front>>

(* Mutant of JoinFromOther: the socket stays in the room it leaves.         *)
JoinFromOtherStaying(s, r) ==
  /\ Act(s) /\ current[s] \notin {r, NoRoom} /\ ~Polite
  /\ current' = [current EXCEPT ![s] = NoRoom]
  /\ Send(s, [Task("srem", "switch", s, current[s]) EXCEPT !.next = r])
  /\ UNCHANGED <<up, ioRooms, redis, front>>

(* handleJoin from another room: it first runs handleLeave for that one.    *)
JoinFromOther(s, r) ==
  /\ Act(s) /\ current[s] \notin {r, NoRoom} /\ ~Polite
  /\ ioRooms' = [ioRooms EXCEPT ![s] = @ \ {current[s]}]
  /\ current' = [current EXCEPT ![s] = NoRoom]
  /\ Send(s, [Task("srem", "switch", s, current[s]) EXCEPT !.next = r])
  /\ UNCHANGED <<up, redis, front>>

(* handleJoin of a socket that is in no room.                               *)
JoinFresh(s, r) ==
  /\ Act(s) /\ current[s] = NoRoom
  /\ EnterRoom(s, r)
  /\ Send(s, Task("smembers", "join", s, r))
  /\ UNCHANGED <<up, redis, front>>

(* handleLeave.                                                             *)
Leave(s, r) ==
  /\ Act(s) /\ (Polite => current[s] = r)
  /\ ioRooms' = [ioRooms EXCEPT ![s] = @ \ {r}]
  /\ current' = [current EXCEPT ![s] = IF @ = r THEN NoRoom ELSE @]
  /\ Send(s, Task("srem", "leave", s, r))
  /\ UNCHANGED <<up, redis, front>>

(* Mutant of Disconnect: it does not ask whether there is a current room.   *)
DisconnectUnchecked(s) ==
  /\ Event /\ s \in up /\ (~Abrupt => ~Entering(s))
  /\ up' = up \ {s}
  /\ ioRooms' = [ioRooms EXCEPT ![s] = {}]
  /\ Send(s, Task("srem", "disconnect", s, current[s]))
  /\ UNCHANGED <<current, redis, front>>

(* handleDisconnect.  The socket has left its socket.io rooms by then, so   *)
(* the loop over client.rooms at its end finds none.                        *)
Disconnect(s) ==
  /\ Event /\ s \in up /\ (~Abrupt => ~Entering(s))
  /\ up' = up \ {s}
  /\ ioRooms' = [ioRooms EXCEPT ![s] = {}]
  /\ \/ /\ current[s] # NoRoom
        /\ Send(s, Task("srem", "disconnect", s, current[s]))
     \/ /\ current[s] = NoRoom
        /\ Send(s, Task("lookup", "disconnect", s, NoRoom))
  /\ UNCHANGED <<current, redis, front>>

(* GET /chat/rooms/:roomId/users, served for the user of socket s.          *)
ListUsers(s, r) ==
  /\ Event /\ s \in Readers
  /\ Send(s, Task("smembers", "read", s, r))
  /\ UNCHANGED <<local, redis, front>>

-----------------------------------------------------------------------------
(* Redis answers the oldest command of instance i                           *)

(* removeUserPreviousConnections goes on with one of the old connections,   *)
(* or handleJoin goes on with isUserInRoom when there is none.              *)
EvictOrCheck(t, old) ==
  IF old = {} THEN {[t EXCEPT !.cmd = "sismember", !.job = "join",
                              !.key = t.sock, !.keys = {}]}
  ELSE {[t EXCEPT !.cmd = "srem", !.job = "evict", !.key = k,
                  !.keys = old \ {k}] : k \in old}

OldConnections(t, users) ==
  {k \in users : UserOf[k] = UserOf[t.sock] /\ k # t.sock}

(* getRoomUsers returned users; cleaning is what it left running.           *)
Listed(i, t, users, cleaning) ==
  \/ /\ t.job = "join"
     /\ \E n \in EvictOrCheck(t, OldConnections(t, users)) :
          Reply(i, Append(cleaning, n))
     /\ UNCHANGED front
  \/ /\ t.job = "emit"
     /\ Broadcast(i, t.room, users)
     /\ Reply(i, cleaning)
  \/ /\ t.job = "read"
     /\ Reply(i, cleaning)
     /\ UNCHANGED front

(* getRoomUsers: smembers of the room.                                      *)
SMembers(i) ==
  /\ At(i, "smembers")
  /\ LET t == Head(pipe[i])
         keys == members[t.room]
     IN \/ keys = {} /\ Listed(i, t, {}, <<>>)
        \/ /\ keys # {}
           /\ Reply(i, <<[t EXCEPT !.cmd = "hgetall", !.keys = keys]>>)
           /\ UNCHANGED front
  /\ UNCHANGED <<local, redis, events>>

(* getRoomUsers: the hashes of those members, in one pipeline.  The keys    *)
(* without a hash are handed to cleanupInvalidKeys, which is not awaited.   *)
HGetAll(i) ==
  /\ At(i, "hgetall")
  /\ LET t == Head(pipe[i])
         valid == {k \in t.keys : hash[k] # NoRoom}
         cleanup == [t EXCEPT !.cmd = "cleanup", !.job = "clean",
                              !.keys = t.keys \ valid]
     IN Listed(i, [t EXCEPT !.keys = {}], valid,
               IF valid = t.keys THEN <<>> ELSE <<cleanup>>)
  /\ UNCHANGED <<local, redis, events>>

(* cleanupInvalidKeys: srem and del of every key, in one pipeline.          *)
Cleanup(i) ==
  /\ At(i, "cleanup")
  /\ LET t == Head(pipe[i])
     IN /\ members' = [members EXCEPT ![t.room] = @ \ t.keys]
        /\ hash' = [k \in Sockets |-> IF k \in t.keys THEN NoRoom ELSE hash[k]]
  /\ Reply(i, <<>>)
  /\ UNCHANGED <<local, front, events>>

(* removeUserFromRoom: srem and del of the hash, in one pipeline.           *)
SRem(i) ==
  /\ At(i, "srem")
  /\ LET t == Head(pipe[i])
     IN /\ members' = [members EXCEPT ![t.room] = @ \ {t.key}]
        /\ hash' = [hash EXCEPT ![t.key] = NoRoom]
        /\ Reply(i, <<[t EXCEPT !.cmd = "scard"]>>)
  /\ UNCHANGED <<local, front, events>>

(* What follows removeUserFromRoom: the next old connection, the end of     *)
(* removeUserFromAllRooms, or emitOnlineCount after the USER_LEFT_ROOM      *)
(* notice of handleLeave and handleDisconnect.                              *)
AfterRemoval(t) ==
  CASE t.job = "evict" -> {<<n>> : n \in EvictOrCheck(t, t.keys)}
    [] t.job = "purge" -> {<<>>}
    [] OTHER -> {<<[t EXCEPT !.cmd = "count"]>>}

(* removeUserFromRoom: the size of the room; an empty room is deleted.      *)
SCard(i) ==
  /\ At(i, "scard")
  /\ LET t == Head(pipe[i])
     IN IF members[t.room] = {} THEN Reply(i, <<[t EXCEPT !.cmd = "del"]>>)
        ELSE \E ts \in AfterRemoval(t) : Reply(i, ts)
  /\ UNCHANGED <<local, redis, front, events>>

Del(i) ==
  /\ At(i, "del")
  /\ LET t == Head(pipe[i])
     IN /\ members' = [members EXCEPT ![t.room] = {}]
        /\ \E ts \in AfterRemoval(t) : Reply(i, ts)
  /\ UNCHANGED <<local, hash, front, events>>

(* isUserInRoom: handleJoin adds the user unless already there.             *)
SIsMember(i) ==
  /\ At(i, "sismember")
  /\ LET t == Head(pipe[i])
     IN Reply(i, <<[t EXCEPT !.cmd = IF t.sock \in members[t.room]
                                     THEN "count" ELSE "hset"]>>)
  /\ UNCHANGED <<local, redis, front, events>>

(* Mutant of HSet: the user joins the set only.                             *)
HSetOnlySAdd(i) ==
  /\ At(i, "hset")
  /\ LET t == Head(pipe[i])
     IN /\ members' = [members EXCEPT ![t.room] = @ \union {t.sock}]
        /\ Reply(i, <<[t EXCEPT !.cmd = "count"]>>)
  /\ UNCHANGED <<local, hash, front, events>>

(* addUserToRoom: hset, sadd and expire, in one pipeline.                   *)
HSet(i) ==
  /\ At(i, "hset")
  /\ LET t == Head(pipe[i])
     IN /\ members' = [members EXCEPT ![t.room] = @ \union {t.sock}]
        /\ hash' = [hash EXCEPT ![t.sock] = t.room]
        /\ Reply(i, <<[t EXCEPT !.cmd = "count"]>>)
  /\ UNCHANGED <<local, front, events>>

(* Mutant of Count: only a join refreshes the list of the others.           *)
CountSilent(i) ==
  /\ At(i, "count")
  /\ LET t == Head(pipe[i])
     IN \/ /\ t.job = "join"
           /\ Reply(i, <<Task("smembers", "emit", t.sock, t.room)>>)
           /\ UNCHANGED local
        \/ /\ t.job = "leave" /\ Reply(i, <<>>) /\ UNCHANGED local
        \/ /\ t.job = "switch"
           /\ EnterRoom(t.sock, t.next)
           /\ Reply(i, <<Task("smembers", "join", t.sock, t.next)>>)
           /\ UNCHANGED up
        \/ /\ t.job = "disconnect"
           /\ Reply(i, <<Task("lookup", "disconnect", t.sock, NoRoom)>>)
           /\ UNCHANGED local
  /\ UNCHANGED <<redis, front, events>>

(* emitOnlineCount, then emitOnlineUsers without awaiting it.  The leave of *)
(* a room switch goes on to enter the next room, and handleDisconnect to    *)
(* removeUserFromAllRooms.                                                  *)
Count(i) ==
  /\ At(i, "count")
  /\ LET t == Head(pipe[i])
         emit == Task("smembers", "emit", t.sock, t.room)
     IN \/ /\ t.job \in {"join", "leave"}
           /\ Reply(i, <<emit>>)
           /\ UNCHANGED local
        \/ /\ t.job = "switch"
           /\ EnterRoom(t.sock, t.next)
           /\ Reply(i, <<emit, Task("smembers", "join", t.sock, t.next)>>)
           /\ UNCHANGED up
        \/ /\ t.job = "disconnect"
           /\ Reply(i, <<emit, Task("lookup", "disconnect", t.sock, NoRoom)>>)
           /\ UNCHANGED local
  /\ UNCHANGED <<redis, front, events>>

(* Mutant of Lookup: removeUserFromAllRooms finds nothing to remove.        *)
LookupNothing(i) ==
  /\ At(i, "lookup")
  /\ Reply(i, <<>>)
  /\ UNCHANGED <<local, redis, front, events>>

(* removeUserFromAllRooms: the room the hash names.                         *)
Lookup(i) ==
  /\ At(i, "lookup")
  /\ LET t == Head(pipe[i])
     IN Reply(i, IF hash[t.sock] = NoRoom THEN <<>>
                 ELSE <<Task("srem", "purge", t.sock, hash[t.sock])>>)
  /\ UNCHANGED <<local, redis, front, events>>

(* A broadcast of instance i reaches the sockets of instance j.             *)
Deliver(i, j) ==
  /\ wire[<<i, j>>] # <<>>
  /\ LET m == Head(wire[<<i, j>>]) IN Display(j, m.room, m.users)
  /\ wire' = [wire EXCEPT ![<<i, j>>] = Tail(@)]
  /\ UNCHANGED <<local, redis, pipe, events>>

-----------------------------------------------------------------------------
(* The environment                                                          *)

(* The TTL of a hash runs out (addUserToRoom sets it and nothing renews it).*)
Expire(s) ==
  /\ Expiry /\ hash[s] # NoRoom
  /\ hash' = [hash EXCEPT ![s] = NoRoom]
  /\ UNCHANGED <<local, members, pipe, front, events>>

(* An instance dies: its sockets and handlers are gone, Redis is not told.  *)
Crash(i) ==
  /\ i \in Mortal /\ \E s \in up : HostOf[s] = i
  /\ up' = {s \in up : HostOf[s] # i}
  /\ ioRooms' = [s \in Sockets |-> IF HostOf[s] = i THEN {} ELSE ioRooms[s]]
  /\ pipe' = [pipe EXCEPT ![i] = <<>>]
  /\ wire' = [ij \in Instances \X Instances |->
                IF ij[2] = i THEN <<>> ELSE wire[ij]]
  /\ UNCHANGED <<current, redis, shown, events>>

ClientEvent(s, r) ==
  JoinAgain(s, r) \/ JoinFromOther(s, r) \/ JoinFresh(s, r) \/ Leave(s, r) \/ ListUsers(s, r)

RedisStep(i) ==
  \/ SMembers(i) \/ HGetAll(i) \/ Cleanup(i) \/ SRem(i) \/ SCard(i) \/ Del(i)
  \/ SIsMember(i) \/ HSet(i) \/ Count(i) \/ Lookup(i)

Next ==
  \/ \E s \in Sockets, r \in Rooms : ClientEvent(s, r)
  \/ \E s \in Sockets : Disconnect(s) \/ Expire(s)
  \/ \E i \in Instances : RedisStep(i) \/ Crash(i)
  \/ \E i, j \in Instances : Deliver(i, j)

Spec == Init /\ [][Next]_vars

(* Redis answers every command, and pub/sub delivers: nothing else is fair. *)
FairSpec ==
  /\ Spec
  /\ \A i \in Instances : WF_vars(RedisStep(i))
  /\ \A i, j \in Instances : WF_vars(Deliver(i, j))

-----------------------------------------------------------------------------
(* Properties                                                               *)

Quiet == /\ \A i \in Instances : pipe[i] = <<>>
         /\ \A ij \in Instances \X Instances : wire[ij] = <<>>

Online(r) == {k \in members[r] : hash[k] # NoRoom}

(* A handler is about to take the entry of s out of room r (handleLeave).   *)
Leaving(s, r) ==
  \E t \in Pending(HostOf[s]) :
    t.cmd = "srem" /\ t.key = s /\ t.room = r /\ t.job \in {"leave", "switch"}

(* A connected client hears one room only, the one handleJoin put it in, and*)
(* Redis lists it in no other room, but for one handleLeave is taking it    *)
(* out of: however the awaits of handlers of many sockets interleave.       *)
SingleRoom ==
  \A s \in up :
    /\ ioRooms[s] = {current[s]} \ {NoRoom}
    /\ \A r \in Rooms : s \in members[r] => current[s] = r \/ Leaving(s, r)

(* Once all handlers are done, no disconnected socket is left in Redis:     *)
(* handleDisconnect outruns every join it may have interrupted.             *)
NoGhost ==
  Quiet => \A s \in Sockets \ up :
             hash[s] = NoRoom /\ \A r \in Rooms : s \notin members[r]

(* Once all handlers are done, what every client in a room shows is who     *)
(* Redis says is in it: the emitOnlineUsers of the last change comes last.  *)
ListConverges ==
  Quiet => \A s \in up : \A r \in ioRooms[s] : shown[s] = Online(r)

(* Once all handlers are done, the hash of a connected client names the room*)
(* it is in: no late removal of handleLeave, handleDisconnect or            *)
(* cleanupInvalidKeys has deleted it.                                       *)
HashFollowsRoom == Quiet => \A s \in up : hash[s] = current[s]

(* Once all handlers are done, a client that is in a room is online in it.  *)
Registered ==
  Quiet => \A s \in up : current[s] # NoRoom => s \in Online(current[s])

(* A socket that has disconnected ends up on nobody's list for good.        *)
Forgotten ==
  \A s, t \in Sockets :
    (s \notin up) ~> [](t \in up /\ ioRooms[t] # {} => s \notin shown[t])
=============================================================================
