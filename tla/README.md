# Verification of the chat: TLA+ models and proofs

This directory models the chat (NestJS back end in `back/`, React front end in
`front/`) in TLA+: the presence registry and the delivery of messages, which are
distributed, and the handlers, hooks and dialogs around them, whose requests and
answers overlap. TLC checks it on small instances, and TLAPS proves the safety
properties for instances of any size. Paths below are relative to the repository.

## The system

Several identical **back-end instances** run behind HAProxy. They share Redis
(presence registry, socket.io pub/sub, BullMQ queue) and PostgreSQL. A **client**
keeps one socket.io connection to one instance and makes HTTP requests to any.

| Component | State it keeps | Operations | Interacts with |
|---|---|---|---|
| ChatGateway (`back/src/chat/chat.gateway.ts`) | `client.data.currentRoomId`, socket.io rooms | join, leave, disconnect, typing, send, emit* | RedisService (awaited), queue, adapter |
| RedisService (`back/src/core/redis`) | sets `room:<id>:users`, hashes `user:<user>:<socket>` with a 24 h TTL | add, remove, remove from all, list, clean, evict old connections | one ioredis connection per instance |
| Redis adapter (socket.io) | broadcasts in flight | publish, deliver | every instance |
| QueueService / BullMQ (`back/src/queue`) | jobs, attempts, wait list | enqueue, retry, take back stalled jobs, clear failed | Redis |
| MessageProcessor | handlers of active jobs, two per instance | create, mark as read, broadcast | MessageService, gateway |
| MessageService (`back/src/message`) | tables `messages`, `user_room_reads` | create, list, edit, delete, mark as read | Prisma, gateway |
| RoomService (`back/src/room`) | tables `rooms`, `user_rooms`, `user_room_reads` | create, list, join, leave, mark as read | Prisma, gateway |
| AuthService, JWT (`back/src/auth`) | users, cookies | register, login, refresh, change password, socket handshake | Prisma |
| StorageService (`back/src/storage`) | bucket, table `storage` | upload, sign | S3 or disk, Prisma |
| Front: chat room (`hooks/use-chat-*.ts`, `components/chat`) | list of messages, members, online and typing users, the message box | load, add, edit, delete, join and leave, upload and send | HTTP and socket |
| Front: rooms (`hooks/use-rooms-management.ts`, `pages/Room.tsx`, `components/room`) | list of rooms, unread counts, cursors, dialogs | fetch, search, join, leave, create, notifications | HTTP and socket |
| Front: session (`store/auth-store.ts`, `services/socket.ts`) | the user, the socket | getMe, logout, connect | HTTP and socket |
| Load test (`back/load-test`) | clients, timers, metrics | connect, join, send, clean up | a server under test |

What is hard in it, and what makes each part correct:

- **Presence.** Every handler is a chain of awaited Redis commands. Handlers of
  one socket (join, leave, disconnect) and of several sockets interleave between
  any two of them, the last broadcasts of a handler are not awaited, and instances
  do not share an order of commands. Correct means: a socket is in one room; Redis
  and the gateway agree on it; nobody who left stays on a list, in Redis or on a
  screen; nobody who is there is missing.
- **Delivery.** A message crosses a queue with retries and crashes, two workers
  per instance, broadcasts of several instances, and a screen that also loads the
  history over HTTP. Correct means: a message is on every screen, once, not before
  those it answers, and off all of them when deleted; a job is never lost.
- **Pages.** The front keeps one list and several requests in flight, and applies
  answers and events in the order they come: a request is dropped because another is
  running, an answer is for the room or the search of a moment ago, a cursor is that
  of another list. Correct means: what overlapped is healed by the next list that is
  asked for in peace, nothing shows twice, spinners stop.
- **Tables.** Handlers read and then write in separate queries without transactions.
  Correct means: every member has a read mark, no account is overwritten, every
  message with a file has its file.
- **Sessions.** The cookie, the store and the socket of a tab change at different
  moments. Correct means: a socket speaks for the user the tab shows, and is gone
  with that user.

`PROJECT.json` lists the hazards at their lines, with the properties that cover them.

## Modules

| Module | Models | Runs | Proofs |
|---|---|---|---|
| `Presence` | gateway + RedisService + adapter | `presence_*` | `PresenceProofs` |
| `Delivery` | queue, processor, messages, broadcast, message list | `delivery_*` | `DeliveryProofs` |
| `AtLeastOnce` | what `Delivery` promises (abstract) | `delivery_arrives`, as `KeepsPromise` | `DeliveryProofs!Implements` |
| `Lists` | `filter` on an array, as a function without recursive operators | in all that use it | `ListProofs` |
| `Chat` | one user's open room: pages, edits, deletions, room changes, reconnection, members, online, typing | `chat` | `ChatProofs` |
| `Rooms` | RoomService and the page with the list of rooms: pages, search, badges, events | `rooms` | `RoomsProofs` |
| `JoinDialog` | the dialog with the rooms one may join | `joindialog` | `SideProofs` |
| `Accounts` | AuthController and AuthService, cookies, auth store, socket handshake | `accounts` | `AccountsProofs` |
| `Composer` | MessageInput, uploads | `composer` | `ComposerProofs` |
| `LoadTest` | the load test client | `loadtest` | `SideProofs` |

Each module runs through an MC module of the same name. `SideProofs` is about the two parts that
no other module builds on, which is why the specification of `JoinDialog` has names of its own
(`DialogInit`, `DialogNext`, `DialogSpec`). The pieces meet at their
interfaces: `Chat` takes messages as `Delivery` emits them (stored, then announced)
and sends the join and leave whose handling is `Presence`; `Rooms` sends the same joins and
leaves, of which it follows only `currentRoomId`, and takes the notification and the read
mark of `Delivery`'s processor and the mark-as-read of `Chat`'s room; `Composer` ends where `Delivery`'s `Send` begins; `Presence`,
`Delivery` and `Chat` begin where `Accounts` has opened a socket.

The MC modules only name model values and the functions (who owns a socket, which
instance it is connected to) that a configuration picks for the constants.
Definitions introduced by a comment "Mutant" are not part of the model: each is
a plausible mistake in the code, and shows that a property would notice it.

### Presence

An instance has one ioredis connection for all commands, and ioredis sends
commands and resolves replies in order. So the handlers in progress on instance `i`
are `pipe[i]`, the queue of their outstanding commands: each handler awaits at most
one. A step of the model executes the oldest command and runs its handler up to
its next command, which joins the end of the queue. That order is what the code
relies on, mostly without saying so: a disconnection works because its commands
come after those of the join it interrupted.

| Code | Model |
|---|---|
| `client.data.currentRoomId`, `client.rooms` | `current`, `ioRooms` |
| `room:<id>:users`, `user:<user>:<socket>` | `members`, `hash` |
| awaits of handlers on one instance | `pipe`, records of `Tasks` |
| adapter messages, ONLINE_USERS on screens | `wire`, `shown` |
| `handleJoin` | `JoinAgain`, `JoinFromOther`, `JoinFresh`, then `SMembers`, `HGetAll`, `SRem`/`SCard`/`Del` per evicted connection, `SIsMember`, `HSet`, `Count` |
| `handleLeave`, `handleDisconnect` | `Leave`, `Disconnect`, then `SRem`, `SCard`, `Del`, `Count`, `Lookup` |
| `getRoomUsers`, `cleanupInvalidKeys` | `SMembers`, `HGetAll`, `Cleanup` |
| 24 h TTL, death of an instance | `Expire`, `Crash` |

Four constants say how clients behave: `Polite` (a room is left before another is
joined, which is what `use-chat-socket.ts:28,39` does), `Patient` (nothing is sent
while a join of the client is in progress), `Abrupt` (a connection may break during
a join), `Readers` (who asks for the list over HTTP).

Abstractions: an ioredis pipeline is one step (no other connection is served
between its commands in practice); a command never fails (`maxRetriesPerRequest:
null` retries until Redis is back); a command and the code after its reply are one
step, as replies come in order; the order of microtasks when several replies arrive
in one packet is the order of the replies. ONLINE_COUNT and USER_LEFT_ROOM are
broadcast but no front code listens to them, so only the command they await is
kept. The loop over `client.rooms` at the end of `handleDisconnect` finds nothing,
since socket.io has emptied them. Sockets are connected from the start (`handleConnection`
only logs) and a reconnection is another socket.

### Delivery

One room. A message is a job (`job`, `waiting`, `failures`, `stalls`), a handler in
progress (`work`, at one of the awaits of `process()`), rows of the table
(`created` in order, `alive`, `made` per message), broadcasts (`wire`, `inbox`) and
entries of the clients' lists (`list`). A step is a database query and the code up
to the next one.

| Code | Model |
|---|---|
| `handleSendMessage`, `enqueueMessage` | `Send`; the id with `Date.now()` is `recent` |
| worker takes a job, `process()` | `Start`, `Create`, `Mark`, `MarkSender`, `Finish`; `Fail` for an exception |
| attempts, backoff, stalled jobs (BullMQ) | `Fail`, `Retry`, `Stalled` |
| loop over `server.sockets.sockets` | `MarkAfter`: clients are numbered in connection order |
| `DELETE /messages/:id` | `RequestDelete`, `DeleteRow`, `EmitDeleted`, `DeleteAnswered` |
| room page mounts, loads and joins | `Open`, `Join`, `FindMessages`, `ShowMessages` |
| NEW_MESSAGE, MESSAGE_DELETED | `Receive` |

`Early` says whether every client that stays has the room on screen before the first
message: both runs have it. `seen` is a history variable, what a sender had on its
screen when it sent a message; it guards nothing. Rooms are closed, changed and opened in the middle in `Chat`.

Abstractions: `createdAt` is the order of inserts; a query that throws had no effect
(a duplicate row comes from an error after the insert); a job is taken back only
when its worker is gone (BullMQ could also do it to a worker that blocks for 30 s);
`findById` and `delete` of `deleteMessage` are one step, because a row can only disappear
between them, and then the request fails either way; the history is one page (the front asks for `limit`, the controller reads
`take`, so it gets 50); `lastRead` is kept, and what it is for is in `Rooms`. Rows that have been
broadcast to a process outlive its crash (they are in Redis).

`AtLeastOnce` forgets everything but the fate of each message, how many copies it has
and what the screens show. A job that is waiting, active or delayed is `accepted`, a
duplicate id is `refused`. Its steps are: accept or refuse, store a copy, end, refresh a
screen with stored copies (its `Spec`); and what is accepted ends (its `FairSpec`).
`KeepsPromise` says that `Delivery` implements `FairSpec`; `DeliveryProofs!Implements` proves
the half without fairness for every instance.

### Chat

The page has the state of the three hooks; requests in flight are `load`, `users` and
`tasks`; the socket has `out` (what the page emits), `in` (the room of the server's side)
and `wire` (events to the page).

| Code | Model |
|---|---|
| `useChatSocket` effect and cleanup | `Goto`, with `Handle` on the server |
| `ChatRoom` gets another `roomId`, or goes | `Open`, `Close` |
| `loadMessages`, `findMessages`, `findByRoomId` | `Open`/`Scroll`, `Find`, `Loaded`, `LoadFailed` |
| `addMessage`, `updateMessage`, `deleteMessage` on events | `Receive` |
| `editMessage`, `deleteMessageApi`; `updateMessage`, `deleteMessage` of the service | `Ask`, `FindMessage`, `Write`, `ReadBack`, `EmitChange`, `Answered`, `TaskFailed` |
| `loadUsers`, `updateOnlineUsers`, typing | `UsersLoaded`, `OnlineUsers`, `UserTyping`, `Purge` |
| connection lost and back | `Disconnect`, `Reconnect` |

Requests overlap here in ways the code does not order (see the hazards at
`use-chat-messages.ts:23` and `:54`), so unconditional agreement with the table does not
hold. `ListShows` and `PanelShows` say what does: a room opened with nothing under way
is shown right, and stays right through any sequence of steps that do not overlap. The
history variable `disturbed` is exactly that condition; it never guards an action.

### Rooms and JoinDialog

`Rooms` has the tables, `fetchRooms` as a record that goes through the three queries of
`findAll`, one join, leave or create at a time, mark-as-read requests, and the socket's
events. `disturbed` and `query` are history as above: `ListHeals` and `BadgeHeals` say that
one undisturbed new list repairs whatever came before.

The room that is open has two sides. On the page it is `selected`, by which the badges are
counted (`use-room-socket.ts:27`); on the server it is `data.currentRoomId` of each socket, by
which the processor marks messages as read (`message.processor.ts:31`). `current` is that of
the socket, `ghosts` those of its predecessors that the server has not given up yet, and
`asked` the joins and leaves that the page has emitted and the server has not handled:
`OpenNext` emits them, `Follow` handles one, and `Reconnect` gives the page a socket without
a room. `Notify` marks by `current` and `ghosts`, for the sockets of the instance that
processes the message. A message of a room that only one of the two sides takes for open makes
the badge and the mark disagree until the next list; it is a disturbance. `BadgeHeals` covers
lost connections and lagging joins but for such messages (see "Where the code does less").

`JoinDialog` has a set of
requests, each with the values of the render its closure was made in (`same`, `cursor`),
because nothing stops two of them.

Ids are random UUIDs: `IdOf` ranks them in any order. Pages compare ids and sort by date,
so pages are complete only if ids are chronological; the properties say so
(`Chronological`), and their other halves hold for any ids.

### Accounts

A request is a record that moves through the queries of its handler and comes back to
the tab; two of them interleave at each await, also two of one tab: a button is disabled while
its request runs, but that is state of its component, and who follows a link away from the
page and back (`Login.tsx:147`) finds it enabled. `Requests` bounds those under way at a time,
`TabOf` gives each to a tab, and only `loading` of the auth store keeps a user from acting.
An answer for a page that has been loaded anew meanwhile (`here`) still sets the cookie.

`mixed` is a history variable: a login, logout, refresh or `getMe` of the tab was sent while
another was under way. After that the socket may be one user's and the page another's, for
good: two logins overlap, the first answer opens the socket, the second sets the user, and
`connectSocket` does nothing because there is a socket. `SocketAgrees` and `RefusedForGood` are
therefore about tabs that are not `mixed`. `DisconnectSocket` and `ConnectSocket` are
the two functions of `services/socket.ts`, and an answer that is lost is a `Fail` after the
write. Passwords stand for their hashes.

### Composer and LoadTest

`Composer` follows `sendMessage` with what its closure captured, while the user goes on
typing and changing rooms; `failed` remembers the files whose own upload failed, which the
loop skips (`MessageInput.tsx:82`) and nothing else may leave out. `LoadTest` follows `runLoadTest`, with a server that may answer
anything or nothing. Formatting, previews and the report are left out.

## What is checked

Every run uses small sets because each hazard needs few actors: two sockets that race
for one entry, a third that watches, two rooms to switch between, two instances for
the loss of order. `MaxEvents`, `MaxFaults`, `MaxCrashes` and `MaxDeletes` bound what the
environment does; everything the system does afterwards is explored to the end.
`CHECK_DEADLOCK FALSE` is there because the system rightly stops when clients do
nothing more.

| Run | Shows |
|---|---|
| `presence_one` | `NoGhost`, `HashFollowsRoom`, `TypeOK`: 3 users, 2 rooms, 4 events, disconnections at any moment |
| `presence_forgotten` | `ListConverges` with two tabs of one user when no join is cut short, and `Forgotten` (liveness): who disconnects leaves every list for good |
| `presence_any` | `SingleRoom` on two instances, with crashes, expiry and direct switches of room |
| `delivery_answers` | two instances, 3 clients of which one sends and one is connected elsewhere, 2 messages, an error, a crash, a stalled job: `AnswersFollow`, `Stored`, `NothingMissed`, `NothingTwice`, `TypeOK` |
| `delivery_arrives` | one instance with 2 workers, 2 clients, an error, a crash, a deletion, one text sent twice: `NothingDeleted`; `Arrives` (liveness); `KeepsPromise` (refinement of `AtLeastOnce`) |
| `chat` | `ListShows`, `PanelShows`, `FollowsRoom`, `TypeOK`; `EndsLoaded` (liveness): 5 messages in 2 rooms, pages of 2, 3 acts or faults |
| `rooms` | `NoDuplicates`, `ListHeals`, `BadgeHeals`, `MemberHasMark`, `TypeOK`: 3 rooms, pages of 1, 3 acts, a message, an error or a lost connection |
| `joindialog` | `NoDuplicates`, `ShowsAll`; `SpinnerEnds` (liveness): 4 rooms, pages of 2, 5 acts, an error |
| `accounts` | `NoOrphan`, `SocketAgrees`, `RefusedForGood`, `TypeOK`; `NeverTakenOver` (action property), `Loads` (liveness): one tab with two requests at a time, 2 e-mails, 2 passwords, 5 acts, a fault |
| `composer` | `SentOnce`, `SentIsStored`; `ClearsSent` (action property), `SendEnds` (liveness): 5 acts, 2 failing uploads |
| `loadtest` | `Accounted`, `NothingLeft`; `Ends` (liveness): 3 clients in batches of 2, one dropped connection |

The bounds are enough for the cases that matter: a page of one or two needs a second and
a third page of three to five rows, which the acts allow to be asked for, with an event
or an error in the middle; two e-mails and two requests of a tab are a registration, two
logins that overlap or follow each other, and a refresh or an expiry after them, or two
registrations of an e-mail, each between its two queries (for the table of users, whose
requests they are makes no difference); five acts in the
message box are a text, two files, a change while they are sent, and another room.

Fairness: Redis answers (`WF` of `RedisStep`), pub/sub and connections deliver, the
database answers and workers poll, requests of the page are answered or fail, timers
fire. Nothing is assumed of users, errors or crashes, and in `LoadTest` nothing of the
server. ioredis with `maxRetriesPerRequest: null`, BullMQ's own loop and the timeouts of the
load test justify it.

### Where the code does less than it says

`presence_lastleaver` ends in a counterexample, quoted under `findings` in
`PROJECT.json`: the `scard` and `del` of the last leaver wipe out a user who joins meanwhile.

`Rooms` and `Chat` show another. The page joins a room when it is opened and not when its
connection comes back (`use-chat-socket.ts:28`), and `README.md:204` promises notifications in
real time. After a `Reconnect` with a room open, the server has the socket in no room: a message
of the room is neither shown (`Chat!Reconnect`) nor counted, as its notification is ignored
because the room is open (`Rooms!IncrementUnread`), while the server counts it as unread. In
`Rooms` this is the step `Notify` with `marked` false and `selected` the room, in `Chat` it is
`lost`; the properties except both.

The passing runs fix constants for which their properties hold. Each restriction is
needed, as changing it shows:

| Change | What breaks |
|---|---|
| `Abrupt = TRUE` with `ListConverges` | after a disconnection during a join the others keep the user on their list |
| `Abrupt = TRUE` and two tabs with `NoGhost` | a join with another tab to evict registers a socket already gone, for ever |
| two instances with `ListConverges` | lists of two instances overtake each other |
| two tabs with `HashFollowsRoom` | the second tab takes the live first one out of Redis |
| `Patient = FALSE` with `SingleRoom` | leave during a join: still registered in the room that was left |
| `Early = FALSE` with `NothingMissed` | a message pushed while the history loads is replaced by the history |
| `Early = FALSE` with `NothingTwice` | a message is in the history and pushed as well, and shows twice |
| `Early = FALSE` with `NothingDeleted` | deleted before its broadcast, a message then appears on every screen |
| clients of any instance with `AnswersFollow` | broadcasts of two instances overtake each other: who is connected elsewhere may see an answer first |
| `Early = FALSE` with `AnswersFollow` | the question, in the history and pushed as well, is listed a second time after its answer |
| `SameInstance = FALSE` with `ListHeals` | the creator of a room is not told of it |
| a message of a room that is open on one side only is no disturbance, with `BadgeHeals` | a room is clicked, a message comes before its join is handled, another room is opened: no badge, while the server counts the message |
| a list that brings a badge for the open room is no disturbance, with `BadgeHeals` | its mark as read had failed: the badge stays when the messages are read later, and shows as soon as another room is opened (2 messages) |
| `mixed` tabs too, with `SocketAgrees` or `RefusedForGood` | two logins of a tab overlap: its socket is one user's, its page shows the other |
| one browser with two tabs, with `SocketAgrees` | after a login in the other tab a socket reconnects as the other user |

The load test announces "Total esperado" as clients times messages
(`websocket-load-test.js:685`), but `connectClients` lists each client twice and twice as
many are sent: `Accounted` bounds the measures by what was sent, not by what is announced.

## What is proved

The proofs hold for any number of sockets, rooms, instances, messages, attempts, crashes,
tabs, files and pages, under the assumption each module states about its constants. Each
theorem follows from an invariant that TLC has checked on the run's instance as well. What
a theorem assumes besides is said with it: it is what the run's constants choose, and the
table above says what happens without it.

| Theorem | Property | Needs |
|---|---|---|
| `PresenceProofs!TypeCorrect` | `TypeOK` | |
| `PresenceProofs!PatientSingleRoom` | `SingleRoom` | `Patient` |
| `PresenceProofs!Ghostless` | `NoGhost` | `Undisturbed` |
| `PresenceProofs!HashKept` | `HashFollowsRoom` | `Undisturbed` |
| `PresenceProofs!ListsConverge` | `ListConverges` | `Undisturbed`, not `Abrupt` |
| `DeliveryProofs!TypeCorrect` | `TypeOK` | |
| `DeliveryProofs!AlwaysStored` | `Stored` | |
| `DeliveryProofs!Implements` | `Spec => Promise!Spec`, the safety of `KeepsPromise` | |
| `DeliveryProofs!Once` | `NothingTwice` | `Early` |
| `DeliveryProofs!AnswersNotFirst` | `AnswersFollow` | `Early` |
| `DeliveryProofs!Missed` | `NothingMissed` | `Early` |
| `DeliveryProofs!Forgotten` | `NothingDeleted` | `Early`, one instance |
| `ChatProofs!TypeCorrect` | `TypeOK` | |
| `ChatProofs!JoinsWhatIsOpen` | `FollowsRoom` | |
| `ChatProofs!PanelIsOfRoom` | `PanelShows` | |
| `ChatProofs!ListIsOfRoom` | `ListShows` | |
| `RoomsProofs!TypeCorrect` | `TypeOK` | |
| `RoomsProofs!ListedOnce` | `NoDuplicates` | |
| `RoomsProofs!MembersMarked` | `MemberHasMark` | |
| `RoomsProofs!PeaceHealsList` | `ListHeals` | `SameInstance` |
| `RoomsProofs!PeaceHealsBadges` | `BadgeHeals` | `SameInstance` |
| `AccountsProofs!TypeCorrect` | `TypeOK` | |
| `AccountsProofs!Orphanless` | `NoOrphan` | |
| `AccountsProofs!AccountsKept` | `NeverTakenOver` | |
| `AccountsProofs!Agreement` | `SocketAgrees` (for tabs not `mixed`) | one tab per browser |
| `AccountsProofs!RefusalsLast` | `RefusedForGood` (for tabs not `mixed`) | one tab per browser |
| `ComposerProofs!UploadsFirst` | `SentIsStored` | |
| `ComposerProofs!NeverTwice` | `SentOnce` | |
| `ComposerProofs!ClearsWhatWasSent` | `ClearsSent` | |
| `SideProofs!NoRoomTwice` | `NoDuplicates` of the dialog | |
| `SideProofs!ShowsWhatItSays` | `ShowsAll` | |
| `SideProofs!AddsUp` | `Accounted` | |
| `SideProofs!LeavesNothing` | `NothingLeft` | |

The arguments, and why each property is not inductive by itself:

- `SingleRoom` says nothing of the commands in flight. `RoomInv` adds the shape of each
  command (`Shapes`), that a socket has one join in progress (`OneJoin`), and that a join
  registers the socket in the room it is in (`JoinsHere`).
- `NoGhost` and `HashFollowsRoom` speak of an empty queue. `Undisturbed` is one instance, one
  socket per user, patient and polite clients, no crash and no TTL that runs out (they may
  disconnect in the middle of a join). The queue keeps the order of its commands, so a
  handler that comes first and has no more commands left to make than another finishes
  first: `Fits` says of each two commands, by the least or the most rounds each has left,
  that a join adds its socket after those who clean its stale entry have done so, and
  before `handleDisconnect` looks for it. It relates commands only, not the state, so a step
  has to show it for the new command alone (`Turn`, `NextFits`). `Tracked` says what Redis
  has of a socket given the commands about it that are pending, `Holds` what each command
  knows. There is no round to spare: a list read and its cleanup take as many as the
  shortest join, the longest join as many as the shortest `handleDisconnect`, and the one
  that was first in the queue wins. One more await in either handler undoes it.
- `ListConverges` speaks of an empty queue too. `Converging` follows the lists on top of the
  order of rounds: a list that is about to be shown and is out of date is followed in the
  queue by a command that has another one read (`Promised`), and a client that shows one out
  of date is sent another (`Displayed`). The promise is kept because every change of a room is
  made by a handler that reads the list after it; what breaks it is a change nobody announces.
  That is `removeUserFromAllRooms`, after whose removal no list is sent: `Early` says that it
  finds nothing, since no join of a disconnected socket is in the queue, and the removal before
  it has already taken the socket out. Hence not `Abrupt`. The theorem is for one socket per
  user, as many rooms and readers as one likes; `presence_forgotten` checks two tabs of a user.
- `Stored`: `StoredInv` charges each row to a failed try, a stalled one or the current one
  (`Paid`), keeps attempts left for a job that may start again (`Left`), knows at which
  await a row exists (`Working`), and that a message is in the wait list once and only
  while waiting (`Queued`).
- `TypeOK` of `Delivery` has the messages on the screens in it: `Genuine` follows every row
  from the table through broadcasts, queues of events and answers, and says that each is of
  a copy that has been stored. With it, `Implements` maps each step of queue, worker, table,
  network and page to a step of `AtLeastOnce` or to one that it does not see.
- `NothingTwice` speaks of lists, which change by events in queues. `Steady` keeps
  an order to what is on its way (`Ordered`: no two clients of an instance will
  have two rows in opposite orders), and says that a row on its way to an instance is new
  to its clients (`Apart`), comes from one broadcast (`Single`), and that only rows whose
  handler is past its broadcast are anywhere (`OnAir`).
- `AnswersFollow` speaks of lists and of the past. `Followed` adds to it the way of a row to
  the screens: one that the sender had seen has left every connection between instances that
  leads to the sender's (`Passed`), so that all its clients have it or have it coming, and
  nothing that is sent later gets before it. Clients of other instances have other
  connections, and the argument ends there.
- `NothingMissed`: `Arrived` says that a row whose handler is done is with every client
  or on its way there. It needs `Dead`: an event that deletes a row is about one that is
  dead for good.
- `NothingDeleted`: `Covered` says that a client that has, or will have, a deleted row has
  the news of the deletion coming after it.
- `Chat` has one typing invariant (`Typed`: the table, the request of the page, what the hooks
  hold, the traffic, the history), on which the others rest. `FollowsRoom`: `Heading` says what
  the queue of joins and leaves looks like. Each leave but the first comes straight after the
  join of its room, the first is of the room the socket is in or of none, and the last entry
  is about the room on screen, so that whoever handles them one by one ends up there.
- `PanelShows` and `ListShows` hold when nothing goes on; `Peace` says what holds on the way.
  While nothing has disturbed it, one thing happens at a time (`Alone`), an event is about
  what the table has (`Signals`), the members and the online users are of the room or on
  their way (`Panel`), an edit and a deletion have done to the table what they are about to
  announce (`Doings`), a message that comes is newer than all that are listed (`Arriving`),
  and a page brings the rows next to the cursor (`Paging`). Unless the first page is still
  to come, the list is then the table's but for what is announced and not received
  (`Listing`), and for chronological ids it is in order and has no gap.
- `NoDuplicates` and `ShowsAll` of `JoinDialog`: `Shelves` has, with the types, that an answer is
  a page in descending order, so that it adds a room once, and never one that is there
  already. `Calm` says how far the list has come: with no request under way it has the rooms
  to show down to the cursor, and all of them without one; a request under way was asked for
  with the search on screen and brings the next ones. A search and a dialog that is opened
  again with the cursor of another list are not calm, which is what the code does not exclude.
- `NoDuplicates` of `Rooms` needs the page that comes to be without duplicates: it is sorted,
  being a prefix of the rooms, newest first (`Singled`, lemma `PageIs` and
  `ListProofs!NewestOnly`).
- `MemberHasMark` is inductive with the types: a call that fails is counted in `faults`.
- `ListHeals` and `BadgeHeals` hold when nothing goes on; `Peace` says what holds on the
  way. While nothing has disturbed it: one thing happens at a time (`Alone`); a page in
  progress brings what the tables hold (`Paging`); and, unless a new list is on its way, the
  list and the badges are right up to the room that is announced or dropped and the
  message that is stored and not yet counted (`Listing`, `Counted`). The room of the socket
  (`Socketed`) may be any: `Notify` compares it with the page's, and nothing else reads it.
  The attempt to prove it showed that a badge may be brought for the room that is open, which
  is in the table above.
- `SocketAgrees` and `RefusedForGood`: `Agree` says of a tab that is not `mixed` that it has
  one request in progress that touches its session (`UnderWay`), and relates that request, the
  cookie, the user shown and the socket; the browser is the tab's own.
- `Composer`: `Composed` says that numbers of texts and files are new (`Numbered`), that what
  can still be sent has not been (`Fresh`), and that each file taken from the box has been
  sent, has failed, or is in the list of what `sendMessage` still has to do, the text going
  with the first one that is sent (`Taken`).
- `LoadTest`: `Tested` counts each client once, when it is resolved (`Reported`), ties
  each connection to a client that cleanup closes or that is not resolved (`Held`), and each
  measure to a stamp of a message (`Measured`).

Induction: no prover here can instantiate the library's induction theorems, which take a
predicate. `ListProofs!LeastNumber` (a set of numbers that is not empty has a least one) is
induction for the predicates one can write as a set, and gives `OnlyKeeps`, what `Lists!Only`
does for arrays of any length; the models use `Only` where the code uses `filter`, and the
same lemma gives the sum of posts of `Rooms`.

Only model-checked: liveness and fairness, which are out of the prover's reach, as is
`ENABLED`. These are `Forgotten`, `Arrives`, `EndsLoaded`, `Loads`, `SendEnds`, `Ends`,
`SpinnerEnds`, and the temporal half of `KeepsPromise`. Every invariant and every action
property that a passing run checks is also a theorem.

Where a proof depends on the result, the models sort and filter with `Lists!Only`, a recursive
function, and not with the sorting and selecting operators of the libraries, whose definitions
by recursion the provers cannot use: `findMany` with its order by date is `Only` of all the numbers, the greatest
first, and `filter` is `Only` of a list.

## What is not modelled

- The Redis cleanup job sets a TTL on hashes without one, and there are none: it does
  nothing. `getAllRoomsWithUsers` is a sequence of list requests. `clearFailedJobs` is a
  development endpoint.
- Validation, configuration and performance logging, the health check, deployment files:
  no state, or nothing that changes.
- Link previews: third-party pages, a memo of one function, display only.
- Presentation: layout, themes, toasts, scrolling positions; of `MessageItem` the draft
  that an incoming edit overwrites (`MessageItem.tsx:50`), of `useChatSocket` the typing
  listener its cleanup misses (`use-chat-socket.ts:44`).
- Time: the 300 s of a presigned URL that is stored for ever (`storage.service.ts:147`), the
  order of the dates two jobs write as a read mark (`message.processor.ts:38`). Two
  concurrent password changes both succeed (`auth.service.ts:79`), which no property forbids.

## Plan

All the safety properties are proved. What would come next:

1. `ListsConverge` for users with several tabs, whose joins evict each other: it needs the
   order of rounds (`Fits`) for a handler with as many rounds as the user has sockets.
2. The theorems about `Delivery` without `Early`, for what clients that open the room in the
   middle may rely on.
3. Steps of `Rooms` and `Chat` side by side on one page: the badge of a room that is opened
   while its messages are marked as read.
