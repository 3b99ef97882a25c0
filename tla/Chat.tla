-------------------------------- MODULE Chat --------------------------------
(***************************************************************************)
(* The room that one user has open: ChatRoom with its hooks                *)
(* use-chat-messages, use-chat-socket and use-chat-users in the browser,   *)
(* and on the server the pages, the edits and the deletions of messages    *)
(* (MessageService, MessageRepository) and the events of the room.         *)
(*                                                                         *)
(* A message is a number, in the order of creation; its text is the number *)
(* of the edit that wrote it, 0 as created.  The list of members and the   *)
(* list of online users are represented by the room they are the lists of. *)
(***************************************************************************)
EXTENDS Integers, Sequences, FiniteSets, SequencesExt, Lists

CONSTANTS MaxMessages,   \* messages that may ever exist
          RoomOf,        \* the room of each message
          Mine,          \* the messages the user wrote
          IdOf,          \* rank of the random id of each message
          Take,          \* messages per page (50 in the code)
          MaxActs, MaxFaults

Messages == 1 .. MaxMessages
Rooms == Range(RoomOf)
None == 0

ASSUME ChatAssumption ==
  /\ MaxMessages \in Nat \ {0} /\ Take \in Nat \ {0}
  /\ RoomOf \in [Messages -> Nat \ {0}] /\ Mine \subseteq Messages
  /\ IdOf \in [Messages -> Nat]
  /\ \A m, n \in Messages : IdOf[m] = IdOf[n] => m = n
  /\ MaxActs \in Nat /\ MaxFaults \in Nat

VARIABLES
  text, top,                    \* the table: text of the messages that exist
  tasks,                        \* edits and deletions in progress
  posting,                      \* messages stored and not yet announced
  room, list, hasMore, lastId,  \* use-chat-messages
  load,                         \* loadMessages in progress
  members, online, typing,      \* use-chat-users
  users,                        \* loadUsers in progress: their rooms
  connected, in, out, wire,     \* the socket, its room, events both ways
  announcing,                   \* rooms whose online users are being emitted
  disturbed, lost,              \* history, see Begin and FollowsRoom
  acts, faults

table == <<text, top>>
hook == <<room, list, hasMore, lastId>>
panel == <<members, online, typing>>
socket == <<connected, in, out, wire, announcing>>
history == <<disturbed, lost>>
vars == <<table, tasks, posting, hook, load, panel, users, socket, history,
          acts, faults>>

NoLoad == [step |-> "none", room |-> None, cursor |-> None, found |-> <<>>]

(* History: disturbed says that, since a room was opened with nothing under *)
(* way, something has begun while something else was, or has failed.        *)
Busy == \/ load # NoLoad \/ users # {} \/ tasks # {} \/ posting # {}
        \/ wire # <<>> \/ out # <<>> \/ announcing # {} \/ ~connected
Begin == disturbed' = (disturbed \/ Busy)

Act == acts + faults < MaxActs /\ acts' = acts + 1
Fault == /\ faults < MaxFaults /\ acts + faults < MaxActs
         /\ faults' = faults + 1 /\ disturbed' = TRUE

RowsOf(r) == {m \in DOMAIN text : RoomOf[m] = r}
Ids == {list[k].id : k \in DOMAIN list}
FirstOr(s, x) == IF s = <<>> THEN x ELSE s[1].id

Init ==
  /\ top = MaxMessages - 1 /\ text = [m \in 1 .. top |-> 0]
  /\ tasks = {} /\ posting = {}
  /\ room = None /\ list = <<>> /\ hasMore = TRUE /\ lastId = None
  /\ load = NoLoad
  /\ members = None /\ online = None /\ typing = FALSE /\ users = {}
  /\ connected = TRUE /\ in = None /\ out = <<>> /\ wire = <<>>
  /\ announcing = {}
  /\ disturbed = FALSE /\ lost = FALSE
  /\ acts = 0 /\ faults = 0
-----------------------------------------------------------------------------
(* Opening and closing a room.                                              *)

(* The effect of use-chat-socket, its cleanup first.  Mutant: no cleanup.   *)
GotoOnly(r) ==
  out' = IF r = None THEN out ELSE Append(out, [event |-> "join", room |-> r])
Goto(r) ==
  out' = out \o (IF room = None THEN <<>> ELSE <<[event |-> "leave", room |-> room]>>)
             \o (IF r = None THEN <<>> ELSE <<[event |-> "join", room |-> r]>>)

(* ChatRoom is not remounted when the room changes: loadMessages returns at *)
(* once while it is still loading another room, and nothing but the list is *)
(* cleared.                                                                 *)
Open(r) ==
  /\ Act
  /\ r # room
  /\ Goto(r)
  /\ room' = r /\ list' = <<>>
  /\ load' = IF load = NoLoad THEN [NoLoad EXCEPT !.step = "sent", !.room = r]
             ELSE load
  /\ users' = users \union {r}
  /\ disturbed' = Busy /\ lost' = FALSE
  /\ UNCHANGED <<table, tasks, posting, hasMore, lastId, panel, connected, in,
                 wire, announcing, faults>>

(* No room is selected: the component goes, its answers are ignored.        *)
Close ==
  /\ Act
  /\ room # None
  /\ Goto(None)
  /\ room' = None /\ list' = <<>> /\ hasMore' = TRUE /\ lastId' = None
  /\ load' = NoLoad
  /\ members' = None /\ online' = None /\ typing' = FALSE /\ users' = {}
  /\ tasks' = {[t EXCEPT !.here = FALSE] : t \in tasks}
  /\ Begin /\ lost' = FALSE
  /\ UNCHANGED <<table, posting, connected, in, wire, announcing, faults>>
-----------------------------------------------------------------------------
(* loadMessages.                                                            *)

(* handleScroll.                                                            *)
Scroll ==
  /\ Act
  /\ room # None /\ list # <<>> /\ hasMore /\ load = NoLoad
  /\ load' = [NoLoad EXCEPT !.step = "sent", !.room = room, !.cursor = lastId]
  /\ Begin
  /\ UNCHANGED <<table, tasks, posting, hook, panel, users, socket, lost, faults>>

(* Mutant: the messages after the cursor.                                   *)
OlderReversed(c) == {m \in Messages : c # None => IdOf[m] > IdOf[c]}
Older(c) == {m \in Messages : c # None => IdOf[m] < IdOf[c]}

(* findByRoomId takes the newest, findMessages reverses them.               *)
Find ==
  /\ load.step = "sent"
  /\ LET ids == Only([k \in Messages |-> k], RowsOf(load.room) \intersect Older(load.cursor))
         page == SubSeq(ids, IF Len(ids) > Take THEN Len(ids) - Take + 1 ELSE 1,
                        Len(ids))
     IN load' = [load EXCEPT !.step = "ok",
          !.found = [k \in DOMAIN page |-> [id |-> page[k], text |-> text[page[k]]]]]
  /\ UNCHANGED <<table, tasks, posting, hook, panel, users, socket, history,
                 acts, faults>>

Page == IF load.cursor = None THEN load.found ELSE load.found \o list

(* Mutant: loadingMore stays set.                                           *)
LoadedStillLoading == load.step = "ok" /\ UNCHANGED vars
Loaded ==
  /\ load.step = "ok"
  /\ list' = Page
  /\ hasMore' = (Len(load.found) = Take)
  /\ lastId' = FirstOr(load.found, lastId)
  /\ load' = NoLoad
  /\ UNCHANGED <<table, tasks, posting, room, panel, users, socket, history,
                 acts, faults>>

LoadFailed ==
  /\ load # NoLoad /\ Fault
  /\ load' = NoLoad
  /\ UNCHANGED <<table, tasks, posting, hook, panel, users, socket, lost, acts>>
-----------------------------------------------------------------------------
(* use-chat-users.                                                          *)

(* The answer is not compared with the room that is open now.  Mutant: the  *)
(* list of members is loaded once.                                          *)
UsersLoadedOnce(r) ==
  /\ r \in users
  /\ users' = users \ {r} /\ members' = IF members = None THEN r ELSE members
  /\ UNCHANGED <<table, tasks, posting, hook, load, online, typing, socket,
                 history, acts, faults>>
UsersLoaded(r) ==
  /\ r \in users
  /\ users' = users \ {r} /\ members' = r
  /\ UNCHANGED <<table, tasks, posting, hook, load, online, typing, socket,
                 history, acts, faults>>

UsersFailed(r) ==
  /\ r \in users /\ Fault
  /\ users' = users \ {r}
  /\ UNCHANGED <<table, tasks, posting, hook, load, panel, socket, lost, acts>>

(* The interval forgets who has not typed for two seconds.                  *)
Purge ==
  /\ typing
  /\ typing' = FALSE
  /\ UNCHANGED <<table, tasks, posting, hook, load, members, online, users,
                 socket, history, acts, faults>>
-----------------------------------------------------------------------------
(* Events from the server.                                                  *)

Emit(r, e) == IF connected /\ in = r THEN Append(wire, e) ELSE wire
Event(e, m, x) == [event |-> e, id |-> m, text |-> x]

UserTyping(r) ==
  /\ Act
  /\ wire' = Emit(r, Event("typing", None, 0)) /\ wire' # wire
  /\ Begin
  /\ UNCHANGED <<table, tasks, posting, hook, load, panel, users, connected, in,
                 out, announcing, lost, faults>>

(* MessageProcessor stores a message, and announces it as it was created.   *)
Post ==
  /\ Act
  /\ top < MaxMessages
  /\ top' = top + 1
  /\ text' = [m \in DOMAIN text \union {top'} |-> IF m = top' THEN 0 ELSE text[m]]
  /\ posting' = posting \union {top'}
  /\ Begin
  /\ UNCHANGED <<tasks, hook, load, panel, users, socket, lost, faults>>

NewMessage(m) ==
  /\ m \in posting
  /\ posting' = posting \ {m}
  /\ wire' = Emit(RoomOf[m], Event("new", m, 0))
  /\ UNCHANGED <<table, tasks, hook, load, panel, users, connected, in, out,
                 announcing, history, acts, faults>>

(* handleJoin and handleLeave, whose detail is in module Presence.          *)
Handle ==
  /\ connected /\ out # <<>>
  /\ out' = Tail(out)
  /\ LET e == Head(out) IN
     IF e.event = "join"
     THEN in' = e.room /\ announcing' = announcing \union {e.room}
     ELSE in' = (IF in = e.room THEN None ELSE in) /\ UNCHANGED announcing
  /\ UNCHANGED <<table, tasks, posting, hook, load, panel, users, connected,
                 wire, history, acts, faults>>

OnlineUsers(r) ==
  /\ r \in announcing
  /\ announcing' = announcing \ {r}
  /\ wire' = Emit(r, Event("online", r, 0))
  /\ UNCHANGED <<table, tasks, posting, hook, load, panel, users, connected, in,
                 out, history, acts, faults>>

(* socket.io connects again, with a new socket that is in no room.  What    *)
(* was under way is lost; what is emitted meanwhile is sent afterwards.     *)
Disconnect ==
  /\ connected /\ Fault
  /\ connected' = FALSE /\ in' = None /\ out' = <<>> /\ wire' = <<>>
  /\ lost' = TRUE
  /\ UNCHANGED <<table, tasks, posting, hook, load, panel, users, announcing, acts>>

Reconnect ==
  /\ ~connected
  /\ connected' = TRUE
  /\ UNCHANGED <<table, tasks, posting, hook, load, panel, users, in, out, wire,
                 announcing, history, acts, faults>>

(* Mutant: a message is added without its text.                             *)
AddBare(m) == Append(list, [id |-> m])
UpdateMessage(m, x) ==
  [k \in DOMAIN list |-> IF list[k].id = m THEN [list[k] EXCEPT !.text = x]
                         ELSE list[k]]
AddMessage(m) == Append(list, [id |-> m, text |-> 0])
DeleteMessage(m) == Only(list, {i \in Range(list) : i.id # m})

(* The listeners do not ask which room the event is about.                  *)
Receive ==
  /\ connected /\ wire # <<>>
  /\ wire' = Tail(wire)
  /\ LET e == Head(wire) IN
     /\ list' = IF room = None THEN list
                ELSE CASE e.event = "new" -> AddMessage(e.id)
                       [] e.event = "edited" -> UpdateMessage(e.id, e.text)
                       [] e.event = "deleted" -> DeleteMessage(e.id)
                       [] OTHER -> list
     /\ online' = IF room # None /\ e.event = "online" THEN e.id ELSE online
     /\ typing' = (typing \/ (room # None /\ e.event = "typing"))
  /\ UNCHANGED <<table, tasks, posting, room, hasMore, lastId, load, members,
                 users, connected, in, out, announcing, history, acts, faults>>
-----------------------------------------------------------------------------
(* Edits and deletions, of this page (here) or of another one of the author.*)

Ask(op, m, here) ==
  /\ Act
  /\ m \in DOMAIN text /\ (here => m \in Ids \intersect Mine)
  /\ tasks' = tasks \union {[op |-> op, msg |-> m, text |-> acts', here |-> here,
                             step |-> "sent", seen |-> 0]}
  /\ Begin
  /\ UNCHANGED <<table, posting, hook, load, panel, users, socket, lost, faults>>

Step(t, new) == tasks' = (tasks \ {t}) \union new

(* findById.  A message that is gone is answered with an error.             *)
FindMessage(t) ==
  /\ t \in tasks /\ t.step = "sent"
  /\ Step(t, IF t.msg \in DOMAIN text THEN {[t EXCEPT !.step = "found"]} ELSE {})
  /\ UNCHANGED <<table, posting, hook, load, panel, users, socket, history,
                 acts, faults>>

(* editMessage and delete; both fail when the row is gone meanwhile.        *)
Write(t) ==
  /\ t \in tasks /\ t.step = "found"
  /\ IF t.msg \notin DOMAIN text THEN Step(t, {}) /\ UNCHANGED text
     ELSE IF t.op = "edit"
     THEN Step(t, {[t EXCEPT !.step = "written"]}) /\ text' = [text EXCEPT ![t.msg] = t.text]
     ELSE Step(t, {[t EXCEPT !.step = "read"]}) /\ text' = Restrict(text, DOMAIN text \ {t.msg})
  /\ UNCHANGED <<top, posting, hook, load, panel, users, socket, history, acts, faults>>

(* findWithRelations: what is broadcast is read back, not what was written. *)
ReadBack(t) ==
  /\ t \in tasks /\ t.step = "written"
  /\ Step(t, {IF t.msg \in DOMAIN text
              THEN [t EXCEPT !.step = "read", !.seen = text[t.msg]]
              ELSE [t EXCEPT !.step = "ok"]})
  /\ UNCHANGED <<table, posting, hook, load, panel, users, socket, history,
                 acts, faults>>

EmitChange(t) ==
  /\ t \in tasks /\ t.step = "read"
  /\ Step(t, {[t EXCEPT !.step = "ok"]})
  /\ wire' = Emit(RoomOf[t.msg],
                  Event(IF t.op = "edit" THEN "edited" ELSE "deleted", t.msg, t.seen))
  /\ UNCHANGED <<table, posting, hook, load, panel, users, connected, in, out,
                 announcing, history, acts, faults>>

Answered(t) ==
  /\ t \in tasks /\ t.step = "ok"
  /\ Step(t, {})
  /\ list' = CASE ~t.here -> list
               [] t.here /\ t.op = "edit" -> UpdateMessage(t.msg, t.text)
               [] t.here /\ t.op = "delete" -> DeleteMessage(t.msg)
  /\ UNCHANGED <<table, posting, room, hasMore, lastId, load, panel, users,
                 socket, history, acts, faults>>

TaskFailed(t) ==
  /\ t \in tasks /\ Fault
  /\ Step(t, {})
  /\ UNCHANGED <<table, posting, hook, load, panel, users, socket, lost, acts>>
-----------------------------------------------------------------------------
Task(t) == FindMessage(t) \/ Write(t) \/ ReadBack(t) \/ EmitChange(t) \/ Answered(t)
Progress ==
  \/ Find \/ Loaded \/ Purge \/ Handle \/ Reconnect \/ Receive
  \/ \E r \in Rooms : UsersLoaded(r) \/ OnlineUsers(r)
  \/ \E m \in Messages : NewMessage(m)
  \/ \E t \in tasks : Task(t)

Next ==
  \/ Progress \/ Close \/ Scroll \/ Post \/ LoadFailed \/ Disconnect
  \/ \E r \in Rooms : Open(r) \/ UserTyping(r) \/ UsersFailed(r)
  \/ \E m \in Messages, op \in {"edit", "delete"}, here \in BOOLEAN : Ask(op, m, here)
  \/ \E t \in tasks : TaskFailed(t)

Spec == Init /\ [][Next]_vars
FairSpec == Spec /\ WF_vars(Progress)
-----------------------------------------------------------------------------
TypeOK ==
  /\ top \in 0 .. MaxMessages /\ DOMAIN text \subseteq 1 .. top
  /\ \A m \in DOMAIN text : text[m] \in 0 .. MaxActs
  /\ posting \subseteq 1 .. top /\ users \subseteq Rooms /\ announcing \subseteq Rooms
  /\ tasks \subseteq [op : {"edit", "delete"}, msg : Messages, text : 1 .. MaxActs,
                      here : BOOLEAN, step : {"sent", "found", "written", "read", "ok"},
                      seen : 0 .. MaxActs]
  /\ {room, members, online, in} \subseteq Rooms \union {None}
  /\ Range(list) \subseteq [id : Messages, text : 0 .. MaxActs]
  /\ hasMore \in BOOLEAN /\ lastId \in Messages \union {None}
  /\ typing \in BOOLEAN /\ connected \in BOOLEAN

Quiet == ~disturbed /\ ~Busy /\ room # None
Chronological == \A m, n \in Messages : m < n => IdOf[m] < IdOf[n]

(* A room that is opened while nothing is under way, and then whatever      *)
(* happens one thing at a time: the page shows, in order, once and with the *)
(* text that is stored, the messages of that room from some message on, and *)
(* all of them when there are no more pages.  The last two need ids in the  *)
(* order of creation, which random ones are not.                            *)
ListShows ==
  Quiet =>
    /\ \A k \in DOMAIN list : /\ list[k].id \in RowsOf(room)
                              /\ list[k].text = text[list[k].id]
    /\ Chronological =>
         /\ \A j, k \in DOMAIN list : j < k => list[j].id < list[k].id
         /\ \A m \in RowsOf(room) : m >= FirstOr(list, MaxMessages + 1) => m \in Ids
         /\ ~hasMore => Ids = RowsOf(room)

(* In the same circumstances the panel is that of the room.                 *)
PanelShows == Quiet => members = room /\ online = room

(* However fast the user goes from room to room, the socket ends in the one *)
(* that is open, and in no other, unless the connection was lost meanwhile: *)
(* nothing joins the room again (use-chat-socket.ts:28).                    *)
FollowsRoom == out = <<>> /\ connected /\ ~lost => in = room

(* A room that is opened while nothing is under way ends up loaded, however *)
(* long the rest takes, unless something else comes between.                *)
EndsLoaded == room # None /\ ~disturbed ~> Quiet \/ disturbed \/ room = None
=============================================================================
