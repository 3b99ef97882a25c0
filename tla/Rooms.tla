-------------------------------- MODULE Rooms -------------------------------
(***************************************************************************)
(* The page with the list of rooms of one user: RoomService on the tables  *)
(* of rooms, memberships and read marks, and in the browser the hooks      *)
(* use-rooms-management, use-search-debounce, use-room-socket and Room.tsx.*)
(*                                                                         *)
(* A room is a number, in the order of creation.  The messages of a room   *)
(* are counted and a read mark is the number of messages that are not      *)
(* newer than its date, so posted - lastRead is what findAll counts.       *)
(***************************************************************************)
EXTENDS Integers, Sequences, FiniteSets, SequencesExt, Lists

CONSTANTS MaxRooms,      \* rooms that may ever exist
          Limit,         \* rooms per page (20 in the code)
          IdOf,          \* rank of the random id of each room
          Matching,      \* the rooms whose name contains the searched text
          SameInstance,  \* the page's socket is on the instance at work
          MaxActs, MaxPosts, MaxFaults

Rooms == 1 .. MaxRooms
None == 0
Unmarked == -1

ASSUME RoomsAssumption ==
  /\ MaxRooms \in Nat \ {0} /\ Limit \in Nat \ {0}
  /\ IdOf \in [Rooms -> Nat] /\ \A r, s \in Rooms : IdOf[r] = IdOf[s] => r = s
  /\ Matching \subseteq Rooms /\ SameInstance \in BOOLEAN
  /\ MaxActs \in Nat /\ MaxPosts \in Nat /\ MaxFaults \in Nat

VARIABLES
  top, joined, posted, lastRead,        \* the tables
  working,                              \* rooms of the jobs of the processor
  wire,                                 \* events on their way to the socket
  current, ghosts, asked,               \* the room of the socket, see Follow
  list, unread, hasMore, cursor,        \* use-rooms-management
  typed, timer, selected,               \* use-search-debounce, room-store
  fetch,                                \* fetchRooms in progress
  call,                                 \* join, leave or create in progress
  marking,                              \* mark-as-read requests in flight
  query, disturbed,                     \* history, see Begin
  acts, faults

tables == <<top, joined, posted, lastRead>>
hook == <<list, unread, hasMore, cursor>>
page == <<typed, timer, selected>>
history == <<query, disturbed>>
socket == <<current, ghosts, asked>>
vars == <<tables, working, wire, socket, hook, page, fetch, call, marking,
          history, acts, faults>>

(* Texts: is the search box empty, or does it hold the searched text.       *)
Found(text) == IF text THEN Matching ELSE Rooms

NoFetch == [step |-> "none", new |-> FALSE, text |-> FALSE, cursor |-> None,
            found |-> <<>>, more |-> FALSE, marks |-> <<>>, counts |-> <<>>,
            select |-> None]
NoCall == [op |-> "none", step |-> "none", room |-> None, open |-> None]

(* History: disturbed says that something has begun while something else    *)
(* was going on, since the last new list was asked for, or that the server  *)
(* and the page have disagreed about the room that is open (see Notify).    *)
Others == marking # {} \/ working # {} \/ wire # <<>>
Busy == Others \/ fetch # NoFetch \/ call # NoCall
Begin == disturbed' = (disturbed \/ Busy)

Ids == {list[k].id : k \in DOMAIN list}

Init ==
  /\ top = MaxRooms - 1 /\ joined \in SUBSET (1 .. top)
  /\ posted = [r \in Rooms |-> 0]
  /\ lastRead = [r \in Rooms |-> IF r \in joined THEN 0 ELSE Unmarked]
  /\ working = {} /\ wire = <<>>
  /\ current = None /\ ghosts = {} /\ asked = <<>>
  /\ list = <<>> /\ unread = [r \in Rooms |-> 0]
  /\ hasMore = FALSE /\ cursor = None
  /\ typed = FALSE /\ timer = FALSE /\ selected = None
  /\ fetch = [NoFetch EXCEPT !.step = "sent", !.new = TRUE]
  /\ call = NoCall /\ marking = {}
  /\ query = FALSE /\ disturbed = FALSE
  /\ acts = 0 /\ faults = 0
-----------------------------------------------------------------------------
(* What use-chat-socket emits when another room, or none, is opened: leave  *)
(* for the room before (None) and join for the new one.                     *)
OpenNext(r) ==
  /\ selected' = r
  /\ asked' = IF r = selected THEN asked
              ELSE asked \o (IF selected = None THEN <<>> ELSE <<None>>)
                         \o (IF r = None THEN <<>> ELSE <<r>>)

(* fetchRooms.                                                              *)

(* The start of a new list; select is what handleJoinRoomAndSelect selects  *)
(* after it.  While a fetch is running the call is dropped.                 *)
FetchNew(text, select) ==
  IF fetch # NoFetch
  THEN /\ disturbed' = TRUE
       /\ OpenNext(IF select = None THEN selected ELSE select)
       /\ UNCHANGED <<fetch, cursor, query>>
  ELSE /\ fetch' = [NoFetch EXCEPT !.step = "sent", !.new = TRUE, !.text = text,
                                   !.select = select]
       /\ cursor' = None /\ query' = text
       /\ disturbed' = (Others \/ (select = None /\ call # NoCall))
       /\ UNCHANGED <<selected, asked>>

(* Older rooms: those with a smaller id than the last one of the page       *)
(* before.  Mutant: a larger one.                                           *)
OlderReversed(c) == {r \in Rooms : c # None => IdOf[r] > IdOf[c]}
Older(c) == {r \in Rooms : c # None => IdOf[r] < IdOf[c]}

(* findMany of RoomService.findAll: newest first, one more than a page.     *)
FindRooms ==
  /\ fetch.step = "sent"
  /\ LET rows == joined \intersect Found(fetch.text) \intersect Older(fetch.cursor)
         newest == Only([k \in Rooms |-> MaxRooms + 1 - k], rows)
     IN fetch' = [fetch EXCEPT !.step = "rooms",
                    !.found = SubSeq(newest, 1, IF Len(newest) > Limit THEN Limit
                                                ELSE Len(newest)),
                    !.more = Len(newest) > Limit]
  /\ UNCHANGED <<tables, working, wire, socket, hook, page, call, marking,
                 history, acts, faults>>

FindReads ==
  /\ fetch.step = "rooms"
  /\ fetch' = [fetch EXCEPT !.step = "reads", !.marks = lastRead]
  /\ UNCHANGED <<tables, working, wire, socket, hook, page, call, marking,
                 history, acts, faults>>

CountUnread ==
  /\ fetch.step = "reads"
  /\ fetch' = [fetch EXCEPT !.step = "ok",
       !.counts = [r \in Range(fetch.found) |->
                     IF fetch.marks[r] = Unmarked THEN 0
                     ELSE posted[r] - fetch.marks[r]]]
  /\ UNCHANGED <<tables, working, wire, socket, hook, page, call, marking,
                 history, acts, faults>>

(* Mutant: the page is appended as it is.                                   *)
AppendPageAsItIs(items) == list \o items
AppendPage(items) == list \o Only(items, {i \in Range(items) : i.id \notin Ids})

(* handleJoinRoomAndSelect opens the room and leaves its badge as it is     *)
(* (Room.tsx:88), unlike handleRoomClick.  A badge of the room that is open *)
(* stays when its messages are read, which counts as a disturbance.         *)
Fetched ==
  /\ fetch.step = "ok"
  /\ LET items == [k \in DOMAIN fetch.found |->
                     [id |-> fetch.found[k], joined |-> TRUE]]
         count(r) == IF r \in Range(fetch.found) THEN fetch.counts[r] ELSE 0
     IN /\ list' = IF fetch.new THEN items ELSE AppendPage(items)
        /\ unread' = [r \in Rooms |-> IF fetch.new \/ count(r) > 0
                                      THEN count(r) ELSE unread[r]]
  /\ hasMore' = fetch.more
  /\ cursor' = IF fetch.more THEN Last(fetch.found) ELSE None
  /\ OpenNext(IF fetch.select = None THEN selected ELSE fetch.select)
  /\ marking' = marking \union ({fetch.select} \ {None, selected})
  /\ fetch' = NoFetch
  /\ disturbed' = (disturbed \/ (selected' # None /\ unread'[selected'] > 0))
  /\ UNCHANGED <<tables, working, wire, current, ghosts, typed, timer, call,
                 query, acts, faults>>

(* An error: a toast; the list stays, but its cursor has been cleared.      *)
FetchFailed ==
  /\ fetch # NoFetch /\ faults < MaxFaults
  /\ faults' = faults + 1
  /\ fetch' = NoFetch
  /\ OpenNext(IF fetch.select = None THEN selected ELSE fetch.select)
  /\ marking' = marking \union ({fetch.select} \ {None, selected})
  /\ disturbed' = TRUE
  /\ UNCHANGED <<tables, working, wire, current, ghosts, hook, typed, timer,
                 call, query, acts>>
-----------------------------------------------------------------------------
(* What the user does.                                                      *)

Act == acts < MaxActs /\ acts' = acts + 1

Type ==
  /\ Act
  /\ typed' = ~typed /\ timer' = TRUE
  /\ UNCHANGED <<tables, working, wire, socket, hook, selected, fetch, call,
                 marking, history, faults>>

(* 400 ms after the last key.                                               *)
Debounced ==
  /\ timer
  /\ timer' = FALSE
  /\ FetchNew(typed, None)
  /\ UNCHANGED <<tables, working, wire, current, ghosts, list, unread, hasMore,
                 typed, call, marking, acts, faults>>

(* stableLoadMoreRooms asks for rooms of any name, also during a search.    *)
Scroll ==
  /\ Act
  /\ hasMore /\ fetch = NoFetch
  /\ fetch' = [NoFetch EXCEPT !.step = "sent", !.cursor = cursor]
  /\ disturbed' = (disturbed \/ Busy \/ query)
  /\ UNCHANGED <<tables, working, wire, socket, hook, page, call, marking,
                 query, faults>>

(* handleRoomClick; ChatRoom then marks the room as read (loadUsers).       *)
Click(r) ==
  /\ Act
  /\ r \in Ids
  /\ OpenNext(r)
  /\ unread' = [unread EXCEPT ![r] = 0]
  /\ marking' = marking \union ({r} \ {selected})
  /\ Begin
  /\ UNCHANGED <<tables, working, wire, current, ghosts, list, hasMore, cursor,
                 typed, timer, fetch, call, query, faults>>

Call(op, r) ==
  /\ Act
  /\ call = NoCall
  /\ call' = [op |-> op, step |-> "sent", room |-> r, open |-> selected]
  /\ Begin
  /\ UNCHANGED <<tables, working, wire, socket, hook, page, fetch, marking,
                 query, faults>>

Join(r) == r \in 1 .. top /\ r \notin Ids /\ Call("join", r)
Leave(r) == r \in Ids /\ Call("leave", r)
Create == top < MaxRooms /\ Call("create", top + 1)
-----------------------------------------------------------------------------
(* RoomService.                                                             *)

Step(s) == call' = [call EXCEPT !.step = s]

CreateRoom ==
  /\ call.op = "create" /\ call.step = "sent"
  /\ top' = top + 1
  /\ Step("row")
  /\ UNCHANGED <<joined, posted, lastRead, working, wire, socket, hook, page,
                 fetch, marking, history, acts, faults>>

(* create and joinRoom insert the membership, then the read mark.  joinRoom *)
(* inserts nothing for a member.                                            *)
AddUserToRoom ==
  /\ <<call.op, call.step>> \in {<<"create", "row">>, <<"join", "sent">>}
  /\ joined' = joined \union {call.room}
  /\ Step("member")
  /\ UNCHANGED <<top, posted, lastRead, working, wire, socket, hook, page,
                 fetch, marking, history, acts, faults>>

(* Mutant: only the rooms one creates are marked.                           *)
MarkCreated(r) == IF call.op = "create" THEN [lastRead EXCEPT ![r] = posted[r]]
                  ELSE lastRead
Mark(r) == [lastRead EXCEPT ![r] = posted[r]]

(* emitNewRoom writes to the sockets of this instance only.                 *)
AddRead ==
  /\ call.step = "member"
  /\ lastRead' = Mark(call.room)
  /\ wire' = IF call.op = "create" /\ SameInstance
             THEN Append(wire, [event |-> "new", room |-> call.room]) ELSE wire
  /\ Step("ok")
  /\ UNCHANGED <<top, joined, posted, working, socket, hook, page, fetch,
                 marking, history, acts, faults>>

(* The read mark of a room that is left stays.                              *)
RemoveUser ==
  /\ call.op = "leave" /\ call.step = "sent"
  /\ joined' = joined \ {call.room}
  /\ Step("ok")
  /\ UNCHANGED <<top, posted, lastRead, working, wire, socket, hook, page,
                 fetch, marking, history, acts, faults>>

(* Nothing is undone: there is no transaction.                              *)
CallFailed ==
  /\ call # NoCall /\ faults < MaxFaults
  /\ faults' = faults + 1
  /\ call' = NoCall /\ disturbed' = TRUE
  /\ UNCHANGED <<tables, working, wire, socket, hook, page, fetch, marking,
                 query, acts>>

(* handleJoinRoom asks for a new list of all rooms, whatever is searched.   *)
Joined ==
  /\ call.op = "join" /\ call.step = "ok"
  /\ call' = NoCall
  /\ FetchNew(FALSE, call.room)
  /\ marking' = IF fetch # NoFetch THEN marking \union ({call.room} \ {selected})
                ELSE marking
  /\ UNCHANGED <<tables, working, wire, current, ghosts, list, unread, hasMore,
                 typed, timer, acts, faults>>

(* handleLeaveRoomAndDeselect compares with the room that was selected when *)
(* the button was pressed.                                                  *)
Left ==
  /\ call.op = "leave" /\ call.step = "ok"
  /\ list' = Only(list, {i \in Range(list) : i.id # call.room})
  /\ OpenNext(IF call.open = call.room THEN None ELSE selected)
  /\ call' = NoCall
  /\ UNCHANGED <<tables, working, wire, current, ghosts, unread, hasMore,
                 cursor, typed, timer, fetch, marking, history, acts, faults>>

Created ==
  /\ call.op = "create" /\ call.step = "ok"
  /\ call' = NoCall
  /\ UNCHANGED <<tables, working, wire, socket, hook, page, fetch, marking,
                 history, acts, faults>>

MarkAsRead(r) ==
  /\ r \in marking
  /\ marking' = marking \ {r}
  /\ lastRead' = Mark(r)
  /\ UNCHANGED <<top, joined, posted, working, wire, socket, hook, page, fetch,
                 call, history, acts, faults>>
MarkFailed(r) ==
  /\ r \in marking /\ faults < MaxFaults
  /\ faults' = faults + 1
  /\ marking' = marking \ {r} /\ disturbed' = TRUE
  /\ UNCHANGED <<tables, working, wire, socket, hook, page, fetch, call, query,
                 acts>>
-----------------------------------------------------------------------------
(* Messages of others, and the socket.                                      *)

Posts == LET sum[r \in 0 .. MaxRooms] ==
               IF r = 0 THEN 0 ELSE posted[r] + sum[r - 1]
         IN sum[MaxRooms]

(* MessageProcessor stores the message, ...                                 *)
Post(r) ==
  /\ r \in 1 .. top \ working /\ Posts < MaxPosts
  /\ posted' = [posted EXCEPT ![r] = @ + 1]
  /\ working' = working \union {r}
  /\ Begin
  /\ UNCHANGED <<top, joined, lastRead, wire, socket, hook, page, fetch, call,
                 marking, query, acts, faults>>

(* ... marks it as read for the sockets of its instance that are in the     *)
(* room, and tells everybody.  The page thinks that the messages of the     *)
(* room that is open are read; when the server does not, or thinks so of    *)
(* another room, that is a disturbance.                                     *)
Notify(r) ==
  /\ r \in working
  /\ working' = working \ {r}
  /\ \E marked \in BOOLEAN :
       /\ marked => current = r \/ r \in ghosts
       /\ current = r /\ SameInstance => marked
       /\ lastRead' = IF marked THEN Mark(r) ELSE lastRead
       /\ disturbed' = (disturbed \/ marked # (selected = r))
  /\ wire' = Append(wire, [event |-> "message", room |-> r])
  /\ UNCHANGED <<top, joined, posted, socket, hook, page, fetch, call, marking,
                 query, acts, faults>>

(* handleJoin and handleLeave set data.currentRoomId as soon as they get    *)
(* their turn (Presence has the rest of them).                              *)
Follow ==
  /\ asked # <<>>
  /\ current' = Head(asked) /\ asked' = Tail(asked)
  /\ UNCHANGED <<tables, working, wire, ghosts, hook, page, fetch, call,
                 marking, history, acts, faults>>

(* The connection breaks and comes back.  Events on their way are lost, and *)
(* what was emitted unless the client had noticed by then.  The new socket  *)
(* has no room: the page joins only when another one is opened.  The server *)
(* goes on counting with the old socket until a ping fails.                 *)
Reconnect ==
  /\ faults < MaxFaults
  /\ faults' = faults + 1
  /\ wire' = <<>> /\ current' = None
  /\ ghosts' = ghosts \union ({current} \ {None})
  /\ \E n \in 1 .. Len(asked) + 1 : asked' = SubSeq(asked, n, Len(asked))
  /\ Begin
  /\ UNCHANGED <<tables, working, hook, page, fetch, call, marking, query,
                 acts>>

(* Mutants: the event is put in the list as it is; the room that is open is *)
(* counted too.                                                             *)
AddBare(r) == IF r \in Ids THEN list ELSE <<[id |-> r]>> \o list
CountAlways(r) == [unread EXCEPT ![r] = @ + 1]

(* addNewRoom: the room comes without the flag joined.                      *)
AddNewRoom(r) ==
  IF r \in Ids THEN list ELSE <<[id |-> r, joined |-> FALSE]>> \o list
IncrementUnread(r) == IF r = selected THEN unread ELSE [unread EXCEPT ![r] = @ + 1]

Receive ==
  /\ wire # <<>>
  /\ wire' = Tail(wire)
  /\ LET e == Head(wire) IN
     IF e.event = "new"
     THEN /\ list' = AddNewRoom(e.room)
          /\ disturbed' = (disturbed \/ e.room \notin Found(query))
          /\ UNCHANGED unread
     ELSE unread' = IncrementUnread(e.room) /\ UNCHANGED <<list, disturbed>>
  /\ UNCHANGED <<tables, working, socket, hasMore, cursor, page, fetch, call,
                 marking, query, acts, faults>>
-----------------------------------------------------------------------------
User == Type \/ Scroll \/ Create \/ \E r \in Rooms : Click(r) \/ Join(r) \/ Leave(r)
Fetch == FindRooms \/ FindReads \/ CountUnread \/ Fetched
Calls == CreateRoom \/ AddUserToRoom \/ AddRead \/ RemoveUser
         \/ Joined \/ Left \/ Created
Work == Debounced \/ Receive \/ Follow \/ \E r \in Rooms : MarkAsRead(r) \/ Notify(r)

Next == User \/ Fetch \/ Calls \/ Work \/ FetchFailed \/ CallFailed \/ Reconnect
        \/ \E r \in Rooms : Post(r) \/ MarkFailed(r)

Spec == Init /\ [][Next]_vars
-----------------------------------------------------------------------------
TypeOK ==
  /\ top \in 0 .. MaxRooms /\ joined \subseteq 1 .. top
  /\ posted \in [Rooms -> 0 .. MaxPosts]
  /\ lastRead \in [Rooms -> Unmarked .. MaxPosts]
  /\ working \subseteq Rooms /\ marking \subseteq Rooms
  /\ \A k \in DOMAIN wire : wire[k] \in [event : {"new", "message"}, room : Rooms]
  /\ \A k \in DOMAIN list : list[k] \in [id : Rooms, joined : BOOLEAN]
  /\ unread \in [Rooms -> Nat]
  /\ current \in Rooms \union {None} /\ ghosts \subseteq Rooms
  /\ \A k \in DOMAIN asked : asked[k] \in Rooms \union {None}
  /\ hasMore \in BOOLEAN /\ cursor \in Rooms \union {None}
  /\ typed \in BOOLEAN /\ timer \in BOOLEAN /\ selected \in Rooms \union {None}

(* Whatever overlaps (pages, searches, rooms that are created meanwhile),   *)
(* no room is twice in the list: React would mix up their rows (fetchRooms, *)
(* addNewRoom).                                                             *)
NoDuplicates == \A j, k \in DOMAIN list : list[j].id = list[k].id => j = k

(* After any history, one list that is fetched while nothing else goes on   *)
(* heals the page: from then on, and as long as things happen one at a      *)
(* time, the list holds only rooms of the user that match the search, and   *)
(* all of them when there are no more pages.  The second half needs ids in  *)
(* the order of creation, which random ones are not (room.service.ts:116).  *)
Chronological == \A r, s \in Rooms : r < s => IdOf[r] < IdOf[s]
Quiet == ~disturbed /\ ~Busy
ListHeals ==
  Quiet => /\ Ids \subseteq joined \intersect Found(query)
           /\ (Chronological /\ ~hasMore) => Ids = joined \intersect Found(query)

(* In the same circumstances the badge of a room is the number of its       *)
(* messages after the read mark of the user, even after the connection was  *)
(* lost: only a message of the room that is open on the page and not on the *)
(* server, or the reverse, is lost to the badge until the next list (see    *)
(* Notify).  Not so the room that is open, nor one without a mark (see      *)
(* MemberHasMark); and a room that came as an event shows no badge until a  *)
(* list brings it again (RoomsList.tsx:101).                                *)
BadgeHeals ==
  Quiet => \A k \in DOMAIN list : LET r == list[k].id IN
             list[k].joined /\ r # selected /\ lastRead[r] # Unmarked
               => unread[r] = posted[r] - lastRead[r]

(* Unless a query failed, a member has a read mark as soon as create or     *)
(* joinRoom has answered: without one, nothing ever counts as unread.       *)
MemberHasMark ==
  faults = 0 => \A r \in joined : \/ lastRead[r] # Unmarked
                                  \/ (call.room = r /\ call.step = "member")
=============================================================================
