----------------------------- MODULE ChatProofs -----------------------------
(* Proofs about Chat, for any number of messages, rooms, acts and errors,   *)
(* any size of page and any ids.                                            *)
EXTENDS Chat, ListProofs

Places == Rooms \union {None}
Texts == 0 .. MaxActs
Items == [id : Messages, text : Texts]
Loads == [step : {"sent", "ok"}, room : Rooms, cursor : Messages \union {None},
          found : Seq(Items)]
Moves == [event : {"join", "leave"}, room : Rooms]
Changes == [event : {"new", "edited", "deleted"}, id : Messages, text : Texts]
Notices == [event : {"online"}, id : Rooms, text : {0}]
Events == Changes \union Notices \union {Event("typing", None, 0)}
Steps == {"sent", "found", "written", "read", "ok"}
Requests == [op : {"edit", "delete"}, msg : Messages, text : 1 .. MaxActs,
             here : BOOLEAN, step : Steps, seen : Texts]

Rows ==
  /\ top \in 0 .. MaxMessages /\ DOMAIN text \subseteq 1 .. top
  /\ text = [m \in DOMAIN text |-> text[m]] /\ \A m \in DOMAIN text : text[m] \in Texts
  /\ posting \subseteq 1 .. top
Work ==
  /\ tasks \subseteq Requests /\ load \in Loads \union {NoLoad} /\ users \subseteq Rooms
  /\ acts \in Nat /\ faults \in Nat /\ acts + faults <= MaxActs
Hooks ==
  /\ room \in Places /\ members \in Places /\ online \in Places
  /\ list \in Seq(Items) /\ lastId \in Messages \union {None}
  /\ hasMore \in BOOLEAN /\ typing \in BOOLEAN
Traffic ==
  /\ in \in Places /\ announcing \subseteq Rooms
  /\ out \in Seq(Moves) /\ wire \in Seq(Events)
  /\ connected \in BOOLEAN /\ disturbed \in BOOLEAN /\ lost \in BOOLEAN

(* A page, and the cursor taken from it, are of messages that once existed. *)
Known == lastId <= top /\ \A k \in 1 .. Len(load.found) : load.found[k].id <= top

Typed == Rows /\ Work /\ Hooks /\ Traffic /\ Known
-----------------------------------------------------------------------------
LEMMA Constants ==
  /\ MaxMessages \in Nat \ {0} /\ Take \in Nat \ {0} /\ MaxActs \in Nat /\ MaxFaults \in Nat
  /\ Messages = 1 .. MaxMessages /\ None = 0
  /\ \A m \in Messages : RoomOf[m] \in Rooms /\ m \in Nat /\ m # None
  /\ \A r \in Rooms : r \in Nat /\ r # None
<1>1. RoomOf \in [Messages -> Nat \ {0}]
  BY ChatAssumption
<1>2. Rooms = {RoomOf[m] : m \in Messages}
  BY <1>1 DEF Rooms, Range
<1>3. QED
  BY <1>1, <1>2, ChatAssumption DEF Messages, None

LEMMA NoLoadIs ==
  /\ NoLoad.step = "none" /\ NoLoad.found = <<>> /\ Len(NoLoad.found) = 0
  /\ \A l \in Loads : l # NoLoad
<1>1. NoLoad.step = "none" /\ NoLoad.found = <<>>
  BY DEF NoLoad
<1>2. \A l \in Loads : l.step # "none"
  BY DEF Loads
<1>3. QED
  BY <1>1, <1>2

LEMMA LoadSent ==
  ASSUME NEW r \in Rooms, NEW c \in Messages \union {None}
  PROVE  LET l == [NoLoad EXCEPT !.step = "sent", !.room = r, !.cursor = c] IN
         /\ l \in Loads /\ l.step = "sent" /\ l.room = r /\ l.cursor = c
         /\ l.found = <<>> /\ Len(l.found) = 0
<1>1. <<>> \in Seq(Items) /\ Len(<<>>) = 0
  OBVIOUS
<1>2. QED
  BY <1>1 DEF NoLoad, Loads

LEMMA OpenSent ==
  ASSUME NEW r \in Rooms
  PROVE  LET l == [NoLoad EXCEPT !.step = "sent", !.room = r] IN
         /\ l \in Loads /\ l.step = "sent" /\ l.room = r /\ l.cursor = None
         /\ l.found = <<>> /\ Len(l.found) = 0
<1>1. <<>> \in Seq(Items) /\ Len(<<>>) = 0
  OBVIOUS
<1>2. QED
  BY <1>1 DEF NoLoad, Loads

LEMMA EventTyped ==
  /\ \A m \in Messages, x \in Texts, e \in {"new", "edited", "deleted"} :
       Event(e, m, x) \in Events
  /\ \A r \in Rooms : Event("online", r, 0) \in Events
  /\ Event("typing", None, 0) \in Events
<1>1. \A m \in Messages, x \in Texts, e \in {"new", "edited", "deleted"} :
        Event(e, m, x) \in Changes
  BY DEF Event, Changes
<1>2. \A r \in Rooms : Event("online", r, 0) \in Notices
  BY DEF Event, Notices
<1>3. QED
  BY <1>1, <1>2 DEF Events

LEMMA EventIs ==
  /\ \A e \in Events : e = Event(e.event, e.id, e.text)
  /\ \A e \in Events :
       \/ e.event \in {"new", "edited", "deleted"} /\ e.id \in Messages /\ e.text \in Texts
       \/ e.event = "online" /\ e.id \in Rooms
       \/ e.event = "typing"
  /\ \A e, m, x : Event(e, m, x).event = e /\ Event(e, m, x).id = m /\ Event(e, m, x).text = x
<1>1. \A e \in Changes :
        /\ e = Event(e.event, e.id, e.text)
        /\ e.event \in {"new", "edited", "deleted"} /\ e.id \in Messages /\ e.text \in Texts
  BY DEF Changes, Event
<1>2. \A e \in Notices :
        e = Event(e.event, e.id, e.text) /\ e.event = "online" /\ e.id \in Rooms
  BY DEF Notices, Event
<1>3. \A e, m, x : Event(e, m, x).event = e /\ Event(e, m, x).id = m /\ Event(e, m, x).text = x
  BY DEF Event
<1>4. QED
  BY <1>1, <1>2, <1>3 DEF Events

LEMMA EmitTyped ==
  ASSUME Traffic, NEW r, NEW e \in Events
  PROVE  Emit(r, e) \in Seq(Events)
  BY AppendProperties DEF Traffic, Emit

LEMMA TypedInit == Init => Typed
<1> SUFFICES ASSUME Init PROVE Typed
  OBVIOUS
<1>1. Rows
  BY Constants DEF Init, Rows, Texts
<1>2. Work
  BY Constants DEF Init, Work
<1>3. Hooks
  <2>1. <<>> \in Seq(Items)
    OBVIOUS
  <2>2. QED
    BY <2>1 DEF Init, Hooks, Places
<1>4. Traffic
  <2>1. <<>> \in Seq(Moves) /\ <<>> \in Seq(Events)
    OBVIOUS
  <2>2. QED
    BY <2>1 DEF Init, Traffic, Places
<1>5. Known
  BY Constants, NoLoadIs DEF Init, Known
<1>6. QED
  BY <1>1, <1>2, <1>3, <1>4, <1>5 DEF Typed
-----------------------------------------------------------------------------
(* The steps keep the types.                                                *)

LEMMA ActIs ==
  ASSUME Work, Act, faults' = faults
  PROVE  acts' \in 1 .. MaxActs /\ acts' \in Nat /\ faults' \in Nat /\ acts' + faults' <= MaxActs
  BY Constants DEF Work, Act

LEMMA FaultIs ==
  ASSUME Work, Fault, acts' = acts
  PROVE  acts' \in Nat /\ faults' \in Nat /\ acts' + faults' <= MaxActs /\ disturbed' = TRUE
  BY Constants DEF Work, Fault

LEMMA BeginIs == ASSUME Begin PROVE disturbed' \in BOOLEAN /\ disturbed' = (disturbed \/ Busy)
  BY DEF Begin, Busy

LEMMA MoveTyped ==
  ASSUME NEW s \in Seq(Moves), NEW e \in {"join", "leave"}, NEW r \in Rooms
  PROVE  /\ s \o <<[event |-> e, room |-> r]>> = Append(s, [event |-> e, room |-> r])
         /\ Append(s, [event |-> e, room |-> r]) \in Seq(Moves)
<1>1. [event |-> e, room |-> r] \in Moves
  BY DEF Moves
<1>2. QED
  BY <1>1

(* Goto leaves the room that is open and joins the next one.                *)
Leaving(r) == IF r = None THEN out ELSE Append(out, [event |-> "leave", room |-> r])

LEMMA GotoIs ==
  ASSUME Hooks, Traffic, NEW r \in Places, Goto(r)
  PROVE  /\ Leaving(room) \in Seq(Moves)
         /\ out' = IF r = None THEN Leaving(room)
                   ELSE Append(Leaving(room), [event |-> "join", room |-> r])
         /\ out' \in Seq(Moves)
<1>1. out \in Seq(Moves) /\ room \in Places
  BY DEF Hooks, Traffic
<1>2. \A s \in Seq(Moves) : s \o <<>> = s
  OBVIOUS
<1>3. Leaving(room) \in Seq(Moves)
      /\ Leaving(room) = out \o (IF room = None THEN <<>>
                                 ELSE <<[event |-> "leave", room |-> room]>>)
  <2>1. CASE room = None
    BY <1>1, <1>2, <2>1 DEF Leaving
  <2>2. CASE room # None
    <3>1. room \in Rooms
      BY <1>1, <2>2 DEF Places
    <3>2. QED
      BY <1>1, <2>2, <3>1, MoveTyped DEF Leaving
  <2>3. QED
    BY <2>1, <2>2
<1>4. out' = Leaving(room) \o (IF r = None THEN <<>> ELSE <<[event |-> "join", room |-> r]>>)
  BY <1>3 DEF Goto
<1> HIDE DEF Leaving
<1>5. CASE r = None
  BY <1>2, <1>3, <1>4, <1>5
<1>6. CASE r # None
  <2>1. r \in Rooms
    BY <1>6 DEF Places
  <2>2. QED
    BY <1>3, <1>4, <1>6, <2>1, MoveTyped
<1>7. QED
  BY <1>5, <1>6

LEMMA OpenTyped == ASSUME Typed, NEW r \in Rooms, Open(r) PROVE Typed'
<1>1. out' \in Seq(Moves) /\ faults' = faults
  BY GotoIs DEF Typed, Open, Places
<1>2. load' = IF load = NoLoad THEN [NoLoad EXCEPT !.step = "sent", !.room = r] ELSE load
  BY DEF Open
<1>3. /\ load' \in Loads \union {NoLoad}
      /\ \A k \in 1 .. Len(load'.found) : load'.found[k].id <= top
  <2>1. CASE load = NoLoad
    <3>1. load' \in Loads /\ Len(load'.found) = 0
      BY <1>2, <2>1, OpenSent
    <3>2. QED
      BY <3>1
  <2>2. CASE load # NoLoad
    BY <1>2, <2>2 DEF Typed, Work, Known
  <2>3. QED
    BY <2>1, <2>2
<1>4. Rows'
  BY DEF Typed, Rows, Open, table
<1>5. Work'
  <2>1. users' \subseteq Rooms /\ tasks' = tasks
    BY DEF Typed, Work, Open
  <2>2. QED
    BY <1>1, <1>3, <2>1, ActIs DEF Typed, Work, Open
<1>6. Hooks'
  <2>1. <<>> \in Seq(Items)
    OBVIOUS
  <2>2. QED
    BY <2>1 DEF Typed, Hooks, Open, panel, Places
<1>7. Traffic'
  BY <1>1 DEF Typed, Traffic, Open, Busy
<1>8. Known'
  BY <1>3 DEF Typed, Known, Open, table
<1>9. QED
  BY <1>4, <1>5, <1>6, <1>7, <1>8 DEF Typed

LEMMA CloseTyped == ASSUME Typed, Close PROVE Typed'
<1>1. out' \in Seq(Moves) /\ faults' = faults
  BY GotoIs DEF Typed, Close, Places
<1>2. tasks' \subseteq Requests
  <2>1. \A t \in Requests : [t EXCEPT !.here = FALSE] \in Requests
    BY DEF Requests
  <2>2. QED
    BY <2>1 DEF Typed, Work, Close
<1>3. Rows'
  BY DEF Typed, Rows, Close, table
<1>4. Work'
  BY <1>1, <1>2, ActIs DEF Typed, Work, Close
<1>5. Hooks'
  <2>1. <<>> \in Seq(Items)
    OBVIOUS
  <2>2. QED
    BY <2>1 DEF Typed, Hooks, Close, Places
<1>6. Traffic'
  BY <1>1, BeginIs DEF Typed, Traffic, Close
<1>7. Known'
  <2>1. lastId' = 0 /\ top' = top /\ load' = NoLoad /\ top \in Nat
    BY DEF Close, None, table, Typed, Rows
  <2>2. QED
    BY <2>1, NoLoadIs DEF Known
<1>8. QED
  BY <1>3, <1>4, <1>5, <1>6, <1>7 DEF Typed

LEMMA ScrollTyped == ASSUME Typed, Scroll PROVE Typed'
<1>1. /\ load' = [NoLoad EXCEPT !.step = "sent", !.room = room, !.cursor = lastId]
      /\ room \in Rooms /\ lastId \in Messages \union {None}
      /\ UNCHANGED <<table, tasks, posting, hook, panel, users, socket, lost, faults>>
  BY DEF Typed, Hooks, Scroll, Places
<1>2. load' \in Loads /\ load'.found = <<>> /\ Len(load'.found) = 0
  BY <1>1, LoadSent
<1>3. Work'
  BY <1>1, <1>2, ActIs DEF Typed, Work, Scroll
<1>4. Traffic'
  BY <1>1, BeginIs DEF Typed, Traffic, Scroll, socket
<1>5. QED
  BY <1>1, <1>2, <1>3, <1>4 DEF Typed, Rows, Hooks, Known, table, hook, panel
-----------------------------------------------------------------------------
(* A page is the last Take of the rows, in the order of creation.           *)

Oldest(rows) == Only([k \in Messages |-> k], rows)
From(q) == IF Len(q) > Take THEN Len(q) - Take + 1 ELSE 1
LastPage(rows) == SubSeq(Oldest(rows), From(Oldest(rows)), Len(Oldest(rows)))
Increasing(q) == \A i, j \in 1 .. Len(q) : i < j => q[i] < q[j]

LEMMA OldestFirst ==
  ASSUME NEW rows \in SUBSET Messages
  PROVE  /\ Oldest(rows) \in Seq(Messages) /\ Len(Oldest(rows)) \in Nat
         /\ \A i \in 1 .. Len(Oldest(rows)) : Oldest(rows)[i] \in rows
         /\ \A m \in rows : \E i \in 1 .. Len(Oldest(rows)) : Oldest(rows)[i] = m
         /\ Increasing(Oldest(rows))
<1> DEFINE all == [k \in Messages |-> k]
           q == Oldest(rows)
<1>1. MaxMessages \in Nat /\ Messages = 1 .. MaxMessages
  BY Constants
<1>2. all \in Seq(Messages) /\ Len(all) = MaxMessages
  <2>1. all \in [1 .. MaxMessages -> Messages]
    BY <1>1
  <2>2. QED
    BY <1>1, <2>1
<1>3. \A n \in 1 .. Len(all) : all[n] = n
  BY <1>1, <1>2
<1>4. q = Only(all, rows)
  BY DEF Oldest
<1> HIDE DEF all, q
<1>5. /\ Only(all, rows) \in Seq(Messages)
      /\ \A i \in 1 .. Len(Only(all, rows)) : Only(all, rows)[i] \in rows
      /\ \A n \in 1 .. Len(all) : all[n] \in rows =>
           \E i \in 1 .. Len(Only(all, rows)) : Only(all, rows)[i] = all[n]
      /\ \A i, j \in 1 .. Len(Only(all, rows)) : i < j =>
           \E n, k \in 1 .. Len(all) :
             n < k /\ all[n] = Only(all, rows)[i] /\ all[k] = Only(all, rows)[j]
  BY <1>2, OnlyKeeps, SMTT(60)
<1>6. ASSUME NEW m \in rows PROVE \E i \in 1 .. Len(q) : q[i] = m
  <2>1. m \in 1 .. Len(all) /\ all[m] = m
    BY <1>1, <1>2, <1>3
  <2>2. QED
    BY <1>4, <1>5, <2>1
<1>7. Increasing(q)
  <2>1. ASSUME NEW i \in 1 .. Len(q), NEW j \in 1 .. Len(q), i < j PROVE q[i] < q[j]
    <3>1. PICK n \in 1 .. Len(all), k \in 1 .. Len(all) : n < k /\ all[n] = q[i] /\ all[k] = q[j]
      BY <1>4, <1>5, <2>1
    <3>2. QED
      BY <1>3, <3>1
  <2>2. QED
    BY <2>1 DEF Increasing
<1>8. QED
  BY <1>4, <1>5, <1>6, <1>7 DEF q

(* The rows that are not on the page are older than all of it, and then     *)
(* the page is full.                                                        *)
LEMMA PageIs ==
  ASSUME NEW rows \in SUBSET Messages
  PROVE  LET p == LastPage(rows) IN
         /\ p \in Seq(Messages) /\ Len(p) \in Nat
         /\ \A i \in 1 .. Len(p) : p[i] \in rows
         /\ Increasing(p)
         /\ \A m \in rows : \/ \E i \in 1 .. Len(p) : p[i] = m
                            \/ Len(p) = Take /\ m < p[1]
<1> DEFINE q == Oldest(rows)
           n == From(q)
           p == LastPage(rows)
<1>1. /\ q \in Seq(Messages) /\ Len(q) \in Nat
      /\ \A i \in 1 .. Len(q) : q[i] \in rows
      /\ \A m \in rows : \E i \in 1 .. Len(q) : q[i] = m
      /\ Increasing(q)
  BY OldestFirst
<1>2. p = SubSeq(q, n, Len(q))
  BY DEF LastPage
<1>3. Take \in Nat \ {0}
  BY Constants
<1> HIDE DEF q
<1>4. /\ n \in Nat /\ n >= 1 /\ n <= Len(q) + 1
      /\ n > 1 => Len(q) - n + 1 = Take
  BY <1>1, <1>3 DEF From
<1> HIDE DEF n, p
<1>5. /\ p \in Seq(Messages) /\ Len(p) = Len(q) - n + 1
      /\ \A i \in 1 .. Len(p) : p[i] = q[n + i - 1] /\ n + i - 1 \in 1 .. Len(q)
  <2>1. \A a \in 1 .. Len(q) + 1 :
          /\ SubSeq(q, a, Len(q)) \in Seq(Messages)
          /\ Len(SubSeq(q, a, Len(q))) = Len(q) - a + 1
          /\ \A i \in 1 .. Len(q) - a + 1 : SubSeq(q, a, Len(q))[i] = q[a + i - 1]
    BY <1>1, SubSeqProperties
  <2>2. n \in 1 .. Len(q) + 1
    BY <1>1, <1>4
  <2>3. QED
    BY <1>1, <1>2, <1>4, <2>1, <2>2
<1>6. Increasing(p)
  <2>1. ASSUME NEW i \in 1 .. Len(p), NEW j \in 1 .. Len(p), i < j PROVE p[i] < p[j]
    <3>1. n + i - 1 < n + j - 1
      BY <1>4, <2>1
    <3>2. QED
      BY <1>1, <1>5, <3>1 DEF Increasing
  <2>2. QED
    BY <2>1 DEF Increasing
<1>7. ASSUME NEW m \in rows
      PROVE  \/ \E i \in 1 .. Len(p) : p[i] = m
             \/ Len(p) = Take /\ m < p[1]
  <2>1. PICK k \in 1 .. Len(q) : q[k] = m
    BY <1>1
  <2>2. CASE k >= n
    <3>1. PICK i \in 1 .. Len(p) : n + i - 1 = k
      <4>1. k - n + 1 \in 1 .. Len(p) /\ n + (k - n + 1) - 1 = k
        BY <1>1, <1>4, <1>5, <2>2
      <4>2. QED
        BY <4>1
    <3>2. QED
      BY <1>5, <2>1, <3>1
  <2>3. CASE k < n
    <3>1. Len(p) = Take /\ 1 \in 1 .. Len(p)
      BY <1>1, <1>3, <1>4, <1>5, <2>3
    <3>2. p[1] = q[n] /\ n \in 1 .. Len(q)
      BY <1>4, <1>5, <3>1
    <3>3. q[k] < q[n]
      BY <1>1, <2>3, <3>2 DEF Increasing
    <3>4. QED
      BY <2>1, <3>1, <3>2, <3>3
  <2>4. QED
    BY <1>1, <1>4, <2>2, <2>3
<1>8. \A i \in 1 .. Len(p) : p[i] \in rows
  BY <1>1, <1>5
<1>9. Len(p) \in Nat
  BY <1>1, <1>4, <1>5
<1>10. QED
  BY <1>5, <1>6, <1>7, <1>8, <1>9 DEF p

(* What Find answers.                                                       *)
Rest == RowsOf(load.room) \intersect Older(load.cursor)
FoundIn(p) == [k \in DOMAIN p |-> [id |-> p[k], text |-> text[p[k]]]]

LEMMA FindIs ==
  ASSUME Typed, Find
  PROVE  LET p == LastPage(Rest) IN
         /\ Rest \in SUBSET Messages /\ load \in Loads /\ load.step = "sent"
         /\ load' = [load EXCEPT !.step = "ok", !.found = FoundIn(p)]
         /\ load' \in Loads /\ load'.step = "ok" /\ load'.found = FoundIn(p)
         /\ load'.room = load.room /\ load'.cursor = load.cursor
         /\ FoundIn(p) \in Seq(Items) /\ Len(FoundIn(p)) = Len(p)
         /\ \A k \in 1 .. Len(p) : FoundIn(p)[k] = [id |-> p[k], text |-> text[p[k]]]
                                    /\ p[k] \in RowsOf(load.room)
<1> DEFINE p == LastPage(Rest)
<1>1. Rest \in SUBSET Messages
  BY Constants DEF Typed, Rows, Rest, Older
<1>2. load' = [load EXCEPT !.step = "ok", !.found = FoundIn(p)]
  BY DEF Find, LastPage, Oldest, From, FoundIn, Rest
<1>3. load \in Loads /\ load.step = "sent"
  BY NoLoadIs DEF Find, Typed, Work
<1>4. p \in Seq(Messages) /\ Len(p) \in Nat /\ \A i \in 1 .. Len(p) : p[i] \in Rest
  BY <1>1, PageIs
<1> HIDE DEF p
<1>5. \A k \in 1 .. Len(p) : p[k] \in DOMAIN text /\ p[k] \in Messages /\ text[p[k]] \in Texts
                              /\ p[k] \in RowsOf(load.room)
  BY <1>4 DEF Rest, RowsOf, Typed, Rows
<1>6. /\ FoundIn(p) = [k \in 1 .. Len(p) |-> [id |-> p[k], text |-> text[p[k]]]]
      /\ \A k \in 1 .. Len(p) : [id |-> p[k], text |-> text[p[k]]] \in Items
  BY <1>4, <1>5 DEF FoundIn, Items
<1>7. FoundIn(p) \in Seq(Items) /\ Len(FoundIn(p)) = Len(p)
  BY <1>4, <1>6
<1>8. \A f \in Seq(Items) :
        LET l == [load EXCEPT !.step = "ok", !.found = f] IN
        /\ l \in Loads /\ l.step = "ok" /\ l.found = f
        /\ l.room = load.room /\ l.cursor = load.cursor
  BY <1>3 DEF Loads
<1>9. QED
  BY <1>1, <1>2, <1>3, <1>5, <1>6, <1>7, <1>8 DEF p
-----------------------------------------------------------------------------
(* What the handlers do to the list.                                        *)

LEMMA UpdateIs ==
  ASSUME list \in Seq(Items), NEW m \in Messages, NEW x \in Texts
  PROVE  LET o == UpdateMessage(m, x) IN
         /\ o \in Seq(Items) /\ Len(o) = Len(list) /\ Len(list) \in Nat
         /\ \A k \in 1 .. Len(list) :
              o[k].id = list[k].id /\ o[k].text = IF list[k].id = m THEN x ELSE list[k].text
<1>1. Len(list) \in Nat /\ DOMAIN list = 1 .. Len(list)
      /\ \A k \in 1 .. Len(list) : list[k] \in Items
  OBVIOUS
<1>2. \A i \in Items :
        /\ [i EXCEPT !.text = x] \in Items
        /\ [i EXCEPT !.text = x].id = i.id /\ [i EXCEPT !.text = x].text = x
  BY DEF Items
<1>3. UpdateMessage(m, x) = [k \in 1 .. Len(list) |->
        IF list[k].id = m THEN [list[k] EXCEPT !.text = x] ELSE list[k]]
  BY <1>1 DEF UpdateMessage
<1>4. UpdateMessage(m, x) \in [1 .. Len(list) -> Items]
  BY <1>1, <1>2, <1>3
<1>5. UpdateMessage(m, x) \in Seq(Items) /\ Len(UpdateMessage(m, x)) = Len(list)
  BY <1>1, <1>3, <1>4
<1>6. \A k \in 1 .. Len(list) :
        UpdateMessage(m, x)[k] = IF list[k].id = m THEN [list[k] EXCEPT !.text = x] ELSE list[k]
  BY <1>3
<1> DEFINE o == UpdateMessage(m, x)
<1>7. ASSUME NEW k \in 1 .. Len(list)
      PROVE  o[k].id = list[k].id /\ o[k].text = IF list[k].id = m THEN x ELSE list[k].text
  <2>1. list[k] \in Items /\ o[k] = IF list[k].id = m THEN [list[k] EXCEPT !.text = x] ELSE list[k]
    BY <1>1, <1>6
  <2> HIDE DEF o
  <2>2. QED
    BY <1>2, <2>1
<1>8. QED
  BY <1>1, <1>5, <1>7

LEMMA AddIs ==
  ASSUME list \in Seq(Items), NEW m \in Messages
  PROVE  LET o == AddMessage(m) IN
         /\ o \in Seq(Items) /\ Len(o) = Len(list) + 1 /\ Len(list) \in Nat
         /\ o[Len(list) + 1] = [id |-> m, text |-> 0]
         /\ \A k \in 1 .. Len(list) : o[k] = list[k]
<1>1. [id |-> m, text |-> 0] \in Items
  BY Constants DEF Items, Texts
<1>2. QED
  BY <1>1, AppendProperties DEF AddMessage

LEMMA DeleteIs ==
  ASSUME list \in Seq(Items), NEW m
  PROVE  LET o == DeleteMessage(m) IN
         /\ o \in Seq(Items) /\ Len(o) \in Nat
         /\ \A i \in 1 .. Len(o) : o[i].id # m /\ \E n \in 1 .. Len(list) : list[n] = o[i]
         /\ \A n \in 1 .. Len(list) : list[n].id # m => \E i \in 1 .. Len(o) : o[i] = list[n]
         /\ \A i, j \in 1 .. Len(o) : i < j =>
              \E n, k \in 1 .. Len(list) : n < k /\ list[n] = o[i] /\ list[k] = o[j]
<1> DEFINE S == {i \in Range(list) : i.id # m}
<1>1. DeleteMessage(m) = Only(list, S)
  BY DEF DeleteMessage
<1>2. \A n \in 1 .. Len(list) : list[n].id # m => list[n] \in S
  BY DEF Range
<1>3. \A i \in S : i.id # m
  OBVIOUS
<1> HIDE DEF S
<1> DEFINE o == Only(list, S)
<1>4. /\ o \in Seq(Items)
      /\ \A i \in 1 .. Len(o) : o[i] \in S /\ \E n \in 1 .. Len(list) : list[n] = o[i]
      /\ \A n \in 1 .. Len(list) : list[n] \in S => \E i \in 1 .. Len(o) : o[i] = list[n]
      /\ \A i, j \in 1 .. Len(o) : i < j =>
           \E n, k \in 1 .. Len(list) : n < k /\ list[n] = o[i] /\ list[k] = o[j]
  BY OnlyKeeps, SMTT(60)
<1>5. Len(o) \in Nat
  BY <1>4
<1> HIDE DEF o
<1>6. QED
  BY <1>1, <1>2, <1>3, <1>4, <1>5 DEF o

LEMMA ConcatIs ==
  ASSUME NEW f \in Seq(Items), NEW l \in Seq(Items)
  PROVE  /\ f \o l \in Seq(Items) /\ Len(f \o l) = Len(f) + Len(l)
         /\ Len(f) \in Nat /\ Len(l) \in Nat
         /\ \A k \in 1 .. Len(f) : k \in 1 .. Len(f \o l) /\ (f \o l)[k] = f[k]
         /\ \A k \in 1 .. Len(l) : Len(f) + k \in 1 .. Len(f \o l) /\ (f \o l)[Len(f) + k] = l[k]
         /\ \A k \in 1 .. Len(f \o l) :
              \/ k \in 1 .. Len(f)
              \/ \E j \in 1 .. Len(l) : k = Len(f) + j
<1>1. /\ f \o l \in Seq(Items) /\ Len(f \o l) = Len(f) + Len(l)
      /\ \A k \in 1 .. Len(f) + Len(l) :
           (f \o l)[k] = IF k <= Len(f) THEN f[k] ELSE l[k - Len(f)]
  BY ConcatProperties
<1>2. Len(f) \in Nat /\ Len(l) \in Nat
  OBVIOUS
<1>3. ASSUME NEW k \in 1 .. Len(l)
      PROVE  Len(f) + k \in 1 .. Len(f \o l) /\ (f \o l)[Len(f) + k] = l[k]
  <2>1. Len(f) + k \in 1 .. Len(f) + Len(l) /\ ~(Len(f) + k <= Len(f)) /\ (Len(f) + k) - Len(f) = k
    BY <1>2
  <2>2. QED
    BY <1>1, <2>1
<1>4. ASSUME NEW k \in 1 .. Len(f \o l), k \notin 1 .. Len(f)
      PROVE  \E j \in 1 .. Len(l) : k = Len(f) + j
  <2>1. k - Len(f) \in 1 .. Len(l) /\ k = Len(f) + (k - Len(f))
    BY <1>1, <1>2, <1>4
  <2>2. QED
    BY <2>1
<1>5. QED
  BY <1>1, <1>2, <1>3, <1>4

LEMMA FirstIs ==
  ASSUME NEW f \in Seq(Items), NEW x
  PROVE  /\ f = <<>> => FirstOr(f, x) = x
         /\ f # <<>> => 1 \in 1 .. Len(f) /\ FirstOr(f, x) = f[1].id /\ f[1].id \in Messages
<1>1. f # <<>> => Len(f) \in Nat \ {0} /\ f[1] \in Items
  BY EmptySeq
<1>2. QED
  BY <1>1 DEF FirstOr, Items

LEMMA FindTyped == ASSUME Typed, Find PROVE Typed'
<1> DEFINE p == LastPage(Rest)
<1>1. /\ load' \in Loads /\ load'.found = FoundIn(p) /\ Len(FoundIn(p)) = Len(p)
      /\ \A k \in 1 .. Len(p) : FoundIn(p)[k] = [id |-> p[k], text |-> text[p[k]]]
                                    /\ p[k] \in RowsOf(load.room)
  BY FindIs
<1> HIDE DEF p
<1>2. UNCHANGED <<table, tasks, posting, hook, panel, users, socket, history, acts, faults>>
  BY DEF Find
<1>3. \A k \in 1 .. Len(load'.found) : load'.found[k].id <= top
  <2>1. \A m \in RowsOf(load.room) : m <= top
    BY DEF RowsOf, Typed, Rows
  <2>2. ASSUME NEW k \in 1 .. Len(p) PROVE FoundIn(p)[k].id <= top
    <3>1. FoundIn(p)[k] = [id |-> p[k], text |-> text[p[k]]] /\ p[k] <= top
      BY <1>1, <2>1
    <3>2. QED
      BY <3>1
  <2>3. QED
    BY <1>1, <2>2
<1>4. Rows' /\ Hooks'
  BY <1>2 DEF Typed, Rows, Hooks, table, hook, panel
<1>5. Work' /\ Traffic'
  BY <1>1, <1>2 DEF Typed, Work, Traffic, socket, history
<1>6. Known'
  BY <1>2, <1>3 DEF Typed, Known, table, hook
<1>7. QED
  BY <1>4, <1>5, <1>6 DEF Typed

LEMMA LoadedTyped == ASSUME Typed, Loaded PROVE Typed'
<1>1. load \in Loads /\ load.found \in Seq(Items) /\ list \in Seq(Items)
  <2>1. load \in Loads
    BY NoLoadIs DEF Loaded, Typed, Work
  <2>2. QED
    BY <2>1 DEF Loads, Typed, Hooks
<1>2. /\ list' = Page /\ hasMore' = (Len(load.found) = Take)
      /\ lastId' = FirstOr(load.found, lastId) /\ load' = NoLoad
      /\ UNCHANGED <<table, tasks, posting, room, panel, users, socket, history, acts, faults>>
  BY DEF Loaded
<1>3. list' \in Seq(Items)
  BY <1>1, <1>2, ConcatIs DEF Page
<1>4. lastId' \in Messages \union {None} /\ lastId' <= top
  BY <1>1, <1>2, FirstIs DEF Typed, Known, Hooks
<1>5. Rows' /\ Hooks'
  BY <1>2, <1>3, <1>4 DEF Typed, Rows, Hooks, table, panel
<1>6. Work' /\ Traffic'
  BY <1>2 DEF Typed, Work, Traffic, socket, history
<1>7. Known'
  BY <1>2, <1>4, NoLoadIs DEF Known, table
<1>8. QED
  BY <1>5, <1>6, <1>7 DEF Typed

(* Errors.                                                                  *)
LEMMA FailedTyped ==
  ASSUME Typed, LoadFailed \/ Disconnect \/ (\E r \in Rooms : UsersFailed(r))
                  \/ (\E t \in tasks : TaskFailed(t))
  PROVE  Typed'
<1>1. /\ UNCHANGED <<table, posting, hook, panel, acts>>
      /\ users' \subseteq users /\ tasks' \subseteq tasks /\ Fault
      /\ load' = load \/ load' = NoLoad
      /\ \/ UNCHANGED <<socket, lost>>
         \/ connected' = FALSE /\ in' = None /\ out' = <<>> /\ wire' = <<>>
            /\ announcing' = announcing /\ lost' = TRUE
  BY DEF LoadFailed, Disconnect, UsersFailed, TaskFailed, Step
<1>2. Work'
  BY <1>1, FaultIs DEF Typed, Work
<1>3. Traffic'
  <2>1. <<>> \in Seq(Moves) /\ <<>> \in Seq(Events)
    OBVIOUS
  <2>2. disturbed' = TRUE
    BY <1>1, FaultIs DEF Typed
  <2>3. QED
    BY <1>1, <2>1, <2>2 DEF Typed, Traffic, socket, Places
<1>4. Rows' /\ Hooks'
  BY <1>1 DEF Typed, Rows, Hooks, table, hook, panel
<1>5. Known'
  BY <1>1, NoLoadIs DEF Typed, Known, table, hook
<1>6. QED
  BY <1>2, <1>3, <1>4, <1>5 DEF Typed

(* The panel, and what the server says of the room.                         *)
LEMMA PanelTyped ==
  ASSUME Typed, Purge \/ \E r \in Rooms : UsersLoaded(r)
  PROVE  Typed'
<1>1. /\ UNCHANGED <<table, tasks, posting, hook, load, online, socket, history, acts, faults>>
      /\ users' \subseteq Rooms /\ members' \in Places /\ typing' \in BOOLEAN
  BY DEF Typed, Work, Hooks, Purge, UsersLoaded, Places
<1>2. Rows' /\ Hooks'
  BY <1>1 DEF Typed, Rows, Hooks, table, hook
<1>3. Work' /\ Traffic'
  BY <1>1 DEF Typed, Work, Traffic, socket, history
<1>4. QED
  BY <1>1, <1>2, <1>3 DEF Typed, Known, table, hook

LEMMA SocketTyped ==
  ASSUME Typed, UNCHANGED <<table, tasks, hook, load, panel, users>>,
         posting' \subseteq posting, connected' \in BOOLEAN, in' \in Places,
         announcing' \subseteq Rooms, out' \in Seq(Moves), wire' \in Seq(Events),
         \/ UNCHANGED <<history, acts, faults>>
         \/ Act /\ faults' = faults /\ Begin /\ lost' = lost
  PROVE  Typed'
<1>1. Rows' /\ Hooks'
  BY DEF Typed, Rows, Hooks, table, hook, panel
<1>2. Work'
  BY ActIs DEF Typed, Work
<1>3. Traffic'
  BY BeginIs DEF Typed, Traffic, history
<1>4. QED
  BY <1>1, <1>2, <1>3 DEF Typed, Known, table, hook

LEMMA ServerTyped ==
  ASSUME Typed, \/ Reconnect \/ Handle
                \/ \E r \in Rooms : OnlineUsers(r) \/ UserTyping(r)
                \/ \E m \in Messages : NewMessage(m)
  PROVE  Typed'
<1>1. Traffic /\ \A r \in Rooms : r \in Places
  BY DEF Typed, Places
<1>2. CASE Reconnect
  <2>1. /\ connected' = TRUE /\ UNCHANGED <<table, tasks, hook, load, panel, users, posting, in,
                             announcing, out, wire, history, acts, faults>>
    BY <1>2 DEF Reconnect
  <2>2. connected' \in BOOLEAN /\ in' \in Places /\ announcing' \subseteq Rooms
        /\ out' \in Seq(Moves) /\ wire' \in Seq(Events) /\ posting' \subseteq posting
    BY <1>1, <2>1 DEF Traffic
  <2>3. QED
    BY <2>1, <2>2, SocketTyped
<1>3. CASE Handle
  <2>1. out \in Seq(Moves) /\ out # <<>> /\ out' = Tail(out)
    BY <1>1, <1>3 DEF Handle, Traffic
  <2>2. out' \in Seq(Moves) /\ Head(out) \in Moves
    BY <2>1, HeadTailProperties
  <2>3. Head(out).room \in Rooms
    BY <2>2 DEF Moves
  <2>4. in' \in Places /\ announcing' \subseteq Rooms
    BY <1>1, <1>3, <2>3 DEF Handle, Traffic, Places
  <2>5. UNCHANGED <<table, tasks, hook, load, panel, users, posting, connected, wire,
                    history, acts, faults>>
    BY <1>3 DEF Handle
  <2>6. connected' \in BOOLEAN /\ wire' \in Seq(Events) /\ posting' \subseteq posting
    BY <1>1, <2>5 DEF Traffic
  <2>7. QED
    BY <2>2, <2>4, <2>5, <2>6, SocketTyped
<1>4. ASSUME NEW r \in Rooms, OnlineUsers(r) PROVE Typed'
  <2>1. /\ wire' = Emit(r, Event("online", r, 0)) /\ announcing' = announcing \ {r}
        /\ UNCHANGED <<table, tasks, hook, load, panel, users, posting, connected, in, out,
                       history, acts, faults>>
    BY <1>4 DEF OnlineUsers
  <2>2. wire' \in Seq(Events)
    BY <1>1, <2>1, EventTyped, EmitTyped
  <2>3. connected' \in BOOLEAN /\ in' \in Places /\ announcing' \subseteq Rooms
        /\ out' \in Seq(Moves) /\ posting' \subseteq posting
    BY <1>1, <2>1 DEF Traffic
  <2>4. QED
    BY <2>1, <2>2, <2>3, SocketTyped
<1>5. ASSUME NEW r \in Rooms, UserTyping(r) PROVE Typed'
  <2>1. /\ wire' = Emit(r, Event("typing", None, 0)) /\ Act /\ Begin
        /\ UNCHANGED <<table, tasks, hook, load, panel, users, posting, connected, in, out,
                       announcing, lost, faults>>
    BY <1>5 DEF UserTyping
  <2>2. wire' \in Seq(Events)
    BY <1>1, <2>1, EventTyped, EmitTyped
  <2>3. connected' \in BOOLEAN /\ in' \in Places /\ announcing' \subseteq Rooms
        /\ out' \in Seq(Moves) /\ posting' \subseteq posting
    BY <1>1, <2>1 DEF Traffic
  <2>4. QED
    BY <2>1, <2>2, <2>3, SocketTyped
<1>6. ASSUME NEW m \in Messages, NewMessage(m) PROVE Typed'
  <2>1. /\ wire' = Emit(RoomOf[m], Event("new", m, 0)) /\ posting' \subseteq posting
        /\ UNCHANGED <<table, tasks, hook, load, panel, users, connected, in, out,
                       announcing, history, acts, faults>>
    BY <1>6 DEF NewMessage
  <2>2. wire' \in Seq(Events)
    BY <1>1, <2>1, EventTyped, EmitTyped, Constants DEF Texts
  <2>3. connected' \in BOOLEAN /\ in' \in Places /\ announcing' \subseteq Rooms
        /\ out' \in Seq(Moves)
    BY <1>1, <2>1 DEF Traffic
  <2>4. QED
    BY <2>1, <2>2, <2>3, SocketTyped
<1>7. QED
  BY <1>2, <1>3, <1>4, <1>5, <1>6

LEMMA PostTyped == ASSUME Typed, Post PROVE Typed'
<1>1. /\ top' = top + 1 /\ top < MaxMessages
      /\ text' = [m \in DOMAIN text \union {top'} |-> IF m = top' THEN 0 ELSE text[m]]
      /\ posting' = posting \union {top'} /\ Act /\ Begin
      /\ UNCHANGED <<tasks, hook, load, panel, users, socket, lost, faults>>
  BY DEF Post
<1>2. Rows'
  <2>1. top' \in 0 .. MaxMessages /\ posting' \subseteq 1 .. top'
    BY <1>1, Constants DEF Typed, Rows
  <2>2. DOMAIN text' = DOMAIN text \union {top'} /\ DOMAIN text' \subseteq 1 .. top'
    BY <1>1, <2>1 DEF Typed, Rows
  <2>3. \A m \in DOMAIN text' : text'[m] = IF m = top' THEN 0 ELSE text[m]
    BY <1>1
  <2>4. text' = [m \in DOMAIN text' |-> text'[m]]
    BY <1>1
  <2>5. \A m \in DOMAIN text' : text'[m] \in Texts
    BY <2>2, <2>3, Constants DEF Typed, Rows, Texts
  <2>6. QED
    BY <2>1, <2>2, <2>4, <2>5 DEF Rows
<1>3. Hooks'
  BY <1>1 DEF Typed, Hooks, hook, panel
<1>4. Work' /\ Traffic'
  BY <1>1, ActIs, BeginIs DEF Typed, Work, Traffic, socket
<1>5. Known'
  <2>1. lastId' = lastId /\ load' = load
    BY <1>1 DEF hook
  <2>2. top \in Nat /\ lastId \in Nat
    BY Constants DEF Typed, Rows, Hooks
  <2>3. \A k \in 1 .. Len(load.found) : load.found[k].id \in Int
    <3>1. CASE load = NoLoad
      BY <3>1, NoLoadIs
    <3>2. CASE load \in Loads
      <4>1. \A k \in 1 .. Len(load.found) : load.found[k] \in Items
        BY <3>2 DEF Loads
      <4>2. QED
        BY <4>1, Constants DEF Items
    <3>3. QED
      BY <3>1, <3>2 DEF Typed, Work
  <2>4. QED
    BY <1>1, <2>1, <2>2, <2>3 DEF Typed, Known
<1>6. QED
  BY <1>2, <1>3, <1>4, <1>5 DEF Typed

(* The events that reach the page.                                          *)
LEMMA ReceiveIs ==
  ASSUME Typed, Receive
  PROVE  LET e == Head(wire) IN
         /\ connected /\ wire \in Seq(Events) /\ wire # <<>> /\ wire' = Tail(wire)
         /\ e \in Events /\ wire' \in Seq(Events)
         /\ list' = IF room = None \/ e.event \in {"online", "typing"} THEN list
                    ELSE IF e.event = "new" THEN AddMessage(e.id)
                    ELSE IF e.event = "edited" THEN UpdateMessage(e.id, e.text)
                    ELSE DeleteMessage(e.id)
         /\ online' = IF room # None /\ e.event = "online" THEN e.id ELSE online
         /\ UNCHANGED <<table, tasks, posting, room, hasMore, lastId, load, members,
                        users, connected, in, out, announcing, history, acts, faults>>
<1> DEFINE e == Head(wire)
<1>1. wire \in Seq(Events) /\ wire # <<>> /\ wire' = Tail(wire)
  BY DEF Typed, Traffic, Receive
<1>2. e \in Events /\ wire' \in Seq(Events)
  BY <1>1, HeadTailProperties
<1>3. list' = IF room = None THEN list
              ELSE CASE e.event = "new" -> AddMessage(e.id)
                     [] e.event = "edited" -> UpdateMessage(e.id, e.text)
                     [] e.event = "deleted" -> DeleteMessage(e.id)
                     [] OTHER -> list
  BY DEF Receive
<1>4. /\ connected /\ online' = IF room # None /\ e.event = "online" THEN e.id ELSE online
      /\ UNCHANGED <<table, tasks, posting, room, hasMore, lastId, load, members,
                     users, connected, in, out, announcing, history, acts, faults>>
  BY DEF Receive
<1> HIDE DEF e
<1>5. e.event \in {"new", "edited", "deleted", "online", "typing"}
  BY <1>2, EventIs
<1>6. QED
  BY <1>1, <1>2, <1>3, <1>4, <1>5 DEF e

LEMMA ReceiveTyped == ASSUME Typed, Receive PROVE Typed'
<1> DEFINE e == Head(wire)
<1>1. /\ e \in Events /\ wire' \in Seq(Events)
      /\ list' = IF room = None \/ e.event \in {"online", "typing"} THEN list
                 ELSE IF e.event = "new" THEN AddMessage(e.id)
                 ELSE IF e.event = "edited" THEN UpdateMessage(e.id, e.text)
                 ELSE DeleteMessage(e.id)
      /\ online' = IF room # None /\ e.event = "online" THEN e.id ELSE online
      /\ UNCHANGED <<table, tasks, posting, room, hasMore, lastId, load, members,
                     users, connected, in, out, announcing, history, acts, faults>>
  BY ReceiveIs
<1>2. typing' \in BOOLEAN
  BY DEF Receive, Typed, Hooks
<1> HIDE DEF e
<1>3. list \in Seq(Items)
  BY DEF Typed, Hooks
<1>4. list' \in Seq(Items)
  <2>1. CASE room = None \/ e.event \in {"online", "typing"}
    BY <1>1, <1>3, <2>1
  <2>2. CASE room # None /\ e.event \in {"new", "edited", "deleted"}
    <3>1. e.id \in Messages /\ e.text \in Texts
      BY <1>1, <2>2, EventIs
    <3>2. QED
      BY <1>1, <1>3, <2>2, <3>1, AddIs, UpdateIs, DeleteIs
  <2>3. QED
    BY <1>1, <2>1, <2>2, EventIs
<1>5. online' \in Places
  BY <1>1, EventIs DEF Places, Typed, Hooks
<1>6. Rows' /\ Hooks'
  BY <1>1, <1>2, <1>4, <1>5 DEF Typed, Rows, Hooks, table
<1>7. Work' /\ Traffic'
  BY <1>1 DEF Typed, Work, Traffic, history
<1>8. QED
  BY <1>1, <1>6, <1>7 DEF Typed, Known, table
-----------------------------------------------------------------------------
(* Edits and deletions.                                                     *)

LEMMA AskTyped ==
  ASSUME Typed, NEW m \in Messages, NEW op \in {"edit", "delete"}, NEW here \in BOOLEAN,
         Ask(op, m, here)
  PROVE  Typed'
<1>1. /\ tasks' = tasks \union {[op |-> op, msg |-> m, text |-> acts', here |-> here,
                                 step |-> "sent", seen |-> 0]}
      /\ Act /\ Begin
      /\ UNCHANGED <<table, posting, hook, load, panel, users, socket, lost, faults>>
  BY DEF Ask
<1>2. acts' \in 1 .. MaxActs /\ acts' \in Nat /\ faults' \in Nat /\ acts' + faults' <= MaxActs
  BY <1>1, ActIs DEF Typed
<1>3. tasks' \subseteq Requests
  BY <1>1, <1>2, Constants DEF Requests, Steps, Texts, Typed, Work
<1>4. Rows' /\ Hooks'
  BY <1>1 DEF Typed, Rows, Hooks, table, hook, panel
<1>5. Work' /\ Traffic'
  BY <1>1, <1>2, <1>3, BeginIs DEF Typed, Work, Traffic, socket
<1>6. QED
  BY <1>1, <1>4, <1>5 DEF Typed, Known, table, hook

LEMMA StepTyped ==
  ASSUME Typed, NEW t \in tasks
  PROVE  /\ t \in Requests /\ t.msg \in Messages /\ t.text \in Texts /\ t.seen \in Texts
         /\ t.text \in 1 .. MaxActs
         /\ \A s \in Steps : [t EXCEPT !.step = s] \in Requests
         /\ \A s \in Steps, x \in Texts : [t EXCEPT !.step = s, !.seen = x] \in Requests
         /\ \A n \in SUBSET Requests : Step(t, n) => tasks' \subseteq Requests
<1>1. t \in Requests /\ tasks \subseteq Requests
  BY DEF Typed, Work
<1>2. t.msg \in Messages /\ t.text \in Texts /\ t.seen \in Texts /\ t.text \in 1 .. MaxActs
  BY <1>1, Constants DEF Requests, Texts
<1>3. \A s \in Steps : [t EXCEPT !.step = s] \in Requests
  BY <1>1 DEF Requests
<1>4. \A s \in Steps, x \in Texts : [t EXCEPT !.step = s, !.seen = x] \in Requests
  BY <1>1 DEF Requests
<1>5. \A n \in SUBSET Requests : Step(t, n) => tasks' \subseteq Requests
  BY <1>1 DEF Step
<1>6. QED
  BY <1>1, <1>2, <1>3, <1>4, <1>5

LEMMA TaskTyped == ASSUME Typed, NEW t \in tasks, Task(t) PROVE Typed'
<1>1. /\ t \in Requests /\ t.msg \in Messages /\ t.text \in Texts /\ t.seen \in Texts
      /\ \A s \in Steps : [t EXCEPT !.step = s] \in Requests
      /\ \A s \in Steps, x \in Texts : [t EXCEPT !.step = s, !.seen = x] \in Requests
      /\ \A n \in SUBSET Requests : Step(t, n) => tasks' \subseteq Requests
  BY StepTyped
<1>2. \A s \in Steps : {[t EXCEPT !.step = s]} \in SUBSET Requests
  BY <1>1
<1>3. /\ "found" \in Steps /\ "written" \in Steps /\ "read" \in Steps /\ "ok" \in Steps
  BY DEF Steps
<1>4. {} \in SUBSET Requests /\ list \in Seq(Items)
  BY DEF Typed, Hooks
<1>5. ASSUME tasks' \subseteq Requests, list' \in Seq(Items), Rows', wire' \in Seq(Events),
             UNCHANGED <<top, posting, room, hasMore, lastId, load, panel, users, connected,
                         in, out, announcing, history, acts, faults>>
      PROVE  Typed'
  <2>1. Hooks' /\ Work' /\ Traffic'
    BY <1>5 DEF Typed, Hooks, Work, Traffic, panel, history
  <2>2. QED
    BY <1>5, <2>1 DEF Typed, Known
<1>6. CASE FindMessage(t)
  <2>1. tasks' \subseteq Requests
    <3>1. CASE t.msg \in DOMAIN text
      BY <1>1, <1>2, <1>3, <1>6, <3>1 DEF FindMessage
    <3>2. CASE t.msg \notin DOMAIN text
      BY <1>1, <1>4, <1>6, <3>2 DEF FindMessage
    <3>3. QED
      BY <3>1, <3>2
  <2>2. UNCHANGED <<table, posting, hook, load, panel, users, socket, history, acts, faults>>
    BY <1>6 DEF FindMessage
  <2>3. Rows' /\ wire' \in Seq(Events)
    BY <2>2 DEF Typed, Rows, Traffic, table, socket
  <2>4. QED
    BY <1>4, <1>5, <2>1, <2>2, <2>3 DEF table, hook, socket
<1>7. CASE Write(t)
  <2>1. UNCHANGED <<top, posting, hook, load, panel, users, socket, history, acts, faults>>
    BY <1>7 DEF Write
  <2>2. wire' \in Seq(Events) /\ list' \in Seq(Items)
    BY <1>4, <2>1 DEF Typed, Traffic, socket, hook
  <2>3. tasks' \subseteq Requests
    <3>1. CASE t.msg \notin DOMAIN text
      BY <1>1, <1>4, <1>7, <3>1 DEF Write
    <3>2. CASE t.msg \in DOMAIN text
      <4>1. Step(t, {[t EXCEPT !.step = "written"]}) \/ Step(t, {[t EXCEPT !.step = "read"]})
        BY <1>7, <3>2 DEF Write
      <4>2. QED
        BY <1>1, <1>2, <1>3, <4>1
    <3>3. QED
      BY <3>1, <3>2
  <2>4. \/ text' = text
        \/ t.msg \in DOMAIN text /\ text' = [text EXCEPT ![t.msg] = t.text]
        \/ text' = [m \in DOMAIN text \ {t.msg} |-> text[m]]
    BY <1>7 DEF Write, Restrict
  <2>5. Rows'
    <3>1. Rows
      BY DEF Typed
    <3>2. text' = [m \in DOMAIN text' |-> text'[m]] /\ DOMAIN text' \subseteq 1 .. top
          /\ \A m \in DOMAIN text' : text'[m] \in Texts
      BY <1>1, <2>4, <3>1 DEF Rows
    <3>3. QED
      BY <2>1, <3>1, <3>2 DEF Rows
  <2>6. QED
    BY <1>5, <2>1, <2>2, <2>3, <2>5 DEF hook, socket
<1>8. CASE ReadBack(t)
  <2>1. tasks' \subseteq Requests
    <3>1. CASE t.msg \in DOMAIN text
      <4>1. text[t.msg] \in Texts
        BY <3>1 DEF Typed, Rows
      <4>2. {[t EXCEPT !.step = "read", !.seen = text[t.msg]]} \in SUBSET Requests
        BY <1>1, <1>3, <4>1
      <4>3. QED
        BY <1>1, <1>8, <3>1, <4>2 DEF ReadBack
    <3>2. CASE t.msg \notin DOMAIN text
      BY <1>1, <1>2, <1>3, <1>8, <3>2 DEF ReadBack
    <3>3. QED
      BY <3>1, <3>2
  <2>2. UNCHANGED <<table, posting, hook, load, panel, users, socket, history, acts, faults>>
    BY <1>8 DEF ReadBack
  <2>3. Rows' /\ wire' \in Seq(Events)
    BY <2>2 DEF Typed, Rows, Traffic, table, socket
  <2>4. QED
    BY <1>4, <1>5, <2>1, <2>2, <2>3 DEF table, hook, socket
<1>9. CASE EmitChange(t)
  <2>1. tasks' \subseteq Requests
    BY <1>1, <1>2, <1>3, <1>9 DEF EmitChange
  <2>2. UNCHANGED <<table, posting, hook, load, panel, users, connected, in, out,
                    announcing, history, acts, faults>>
    BY <1>9 DEF EmitChange
  <2>3. wire' \in Seq(Events)
    <3>1. Event("edited", t.msg, t.seen) \in Events /\ Event("deleted", t.msg, t.seen) \in Events
      BY <1>1, EventTyped
    <3>2. QED
      BY <1>9, <3>1, EmitTyped DEF EmitChange, Typed
  <2>4. Rows'
    BY <2>2 DEF Typed, Rows, table
  <2>5. QED
    BY <1>4, <1>5, <2>1, <2>2, <2>3, <2>4 DEF table, hook
<1>10. CASE Answered(t)
  <2>1. tasks' \subseteq Requests
    BY <1>1, <1>4, <1>10 DEF Answered
  <2>2. UNCHANGED <<table, posting, room, hasMore, lastId, load, panel, users, socket,
                    history, acts, faults>>
    BY <1>10 DEF Answered
  <2>3. list' \in Seq(Items)
    <3>1. /\ UpdateMessage(t.msg, t.text) \in Seq(Items) /\ DeleteMessage(t.msg) \in Seq(Items)
      BY <1>1, <1>4, UpdateIs, DeleteIs
    <3>2. t.op \in {"edit", "delete"} /\ t.here \in BOOLEAN
      BY <1>1 DEF Requests
    <3>3. QED
      BY <1>4, <1>10, <3>1, <3>2 DEF Answered
  <2>4. Rows' /\ wire' \in Seq(Events)
    BY <2>2 DEF Typed, Rows, Traffic, table, socket
  <2>5. QED
    BY <1>5, <2>1, <2>2, <2>3, <2>4 DEF table, socket
<1>11. QED
  BY <1>6, <1>7, <1>8, <1>9, <1>10 DEF Task

LEMMA TypedNext == Typed /\ [Next]_vars => Typed'
<1> SUFFICES ASSUME Typed, [Next]_vars PROVE Typed'
  OBVIOUS
<1>1. CASE UNCHANGED vars
  <2>1. UNCHANGED <<table, tasks, posting, hook, load, panel, users, socket, history,
                    acts, faults>>
    BY <1>1 DEF vars
  <2>2. Rows' /\ Hooks'
    BY <2>1 DEF Typed, Rows, Hooks, table, hook, panel
  <2>3. Work' /\ Traffic'
    BY <2>1 DEF Typed, Work, Traffic, socket, history
  <2>4. QED
    BY <2>1, <2>2, <2>3 DEF Typed, Known, table, hook
<1>2. CASE Progress
  BY <1>2, FindTyped, LoadedTyped, PanelTyped, ServerTyped, ReceiveTyped, TaskTyped DEF Progress
<1>3. QED
  BY <1>1, <1>2, OpenTyped, CloseTyped, ScrollTyped, PostTyped, FailedTyped, ServerTyped,
     AskTyped DEF Next

LEMMA TypedAlways == Spec => []Typed
  BY TypedInit, TypedNext, PTL DEF Spec

(* Every variable keeps its type, for any number of messages, rooms, acts   *)
(* and errors and pages of any size: whatever the answers and the events    *)
(* meet, the list holds messages with a text, and the cursor of the next    *)
(* page is a message that once existed.                                     *)
THEOREM TypeCorrect == Spec => []TypeOK
<1>1. ASSUME Typed PROVE TypeOK
  <2>1. Range(list) \subseteq Items
    BY <1>1 DEF Typed, Hooks, Range
  <2>2. QED
    BY <1>1, <2>1 DEF Typed, Rows, Work, Hooks, Traffic, TypeOK, Items, Places, Texts,
                      Requests, Steps
<1>2. QED
  BY <1>1, TypedAlways, PTL
-----------------------------------------------------------------------------
(* Where the socket goes.  The moves on their way to the server end in the  *)
(* room that is open, and each of them leaves the room joined before it.    *)

MoveOf(e, r) == [event |-> e, room |-> r]

Heading ==
  /\ \A k \in 1 .. Len(out) : out[k].event = "leave" =>
       IF k = 1 THEN in \in {out[k].room, None}
       ELSE out[k - 1] = MoveOf("join", out[k].room)
  /\ out = <<>> => in \in {room, None} /\ (~lost => in = room)
  /\ out # <<>> => IF room = None THEN out[Len(out)].event = "leave"
                   ELSE out[Len(out)] = MoveOf("join", room)

LEMMA HeadingInit == Init => Heading
  BY DEF Init, Heading

LEMMA HeadingSame ==
  ASSUME Heading, UNCHANGED <<in, out, room, lost>>
  PROVE  Heading'
  BY DEF Heading

LEMMA GotoHeading ==
  ASSUME Typed, Heading, NEW r \in Places, Goto(r), r # room,
         room' = r, in' = in, lost' = FALSE
  PROVE  Heading'
<1>1. /\ Leaving(room) \in Seq(Moves)
      /\ out' = IF r = None THEN Leaving(room)
                ELSE Append(Leaving(room), MoveOf("join", r))
  BY GotoIs DEF Typed, MoveOf
<1>2. out \in Seq(Moves) /\ Len(out) \in Nat /\ room \in Places
  BY DEF Typed, Hooks, Traffic
<1> DEFINE l == Leaving(room)
           Chain(q) == \A k \in 1 .. Len(q) : q[k].event = "leave" =>
                         IF k = 1 THEN in \in {q[k].room, None}
                         ELSE q[k - 1] = MoveOf("join", q[k].room)
<1>3. Chain(out)
  BY DEF Heading
<1>4. Chain(l) /\ (room # None => l # <<>> /\ l[Len(l)].event = "leave")
  <2>1. CASE room = None
    BY <1>3, <2>1 DEF Leaving
  <2>2. CASE room # None
    <3> DEFINE e == MoveOf("leave", room)
    <3>1. l = Append(out, e) /\ e.event = "leave" /\ e.room = room
      BY <2>2 DEF Leaving, MoveOf
    <3>2. e \in Moves
      BY <1>2, <2>2 DEF MoveOf, Moves, Places
    <3> HIDE DEF e, l
    <3>3. /\ Len(l) = Len(out) + 1 /\ l[Len(out) + 1] = e
          /\ \A k \in 1 .. Len(out) : l[k] = out[k]
      BY <1>2, <3>1, <3>2, AppendProperties
    <3>4. ASSUME NEW k \in 1 .. Len(l), l[k].event = "leave"
          PROVE  IF k = 1 THEN in \in {l[k].room, None}
                 ELSE l[k - 1] = MoveOf("join", l[k].room)
      <4>1. CASE k \in 1 .. Len(out)
        <5>1. l[k] = out[k] /\ (k # 1 => k - 1 \in 1 .. Len(out) /\ l[k - 1] = out[k - 1])
          BY <1>2, <3>3, <4>1
        <5>2. QED
          BY <1>3, <3>4, <4>1, <5>1
      <4>2. CASE k = Len(out) + 1
        <5>1. CASE out = <<>>
          BY <2>2, <3>1, <3>3, <4>2, <5>1 DEF Heading
        <5>2. CASE out # <<>>
          <6>1. Len(out) \in 1 .. Len(out) /\ k # 1 /\ k - 1 = Len(out)
            BY <1>2, <4>2, <5>2, EmptySeq
          <6>2. out[Len(out)] = MoveOf("join", room)
            BY <2>2, <5>2 DEF Heading
          <6>3. QED
            BY <3>1, <3>3, <4>2, <6>1, <6>2
        <5>3. QED
          BY <5>1, <5>2
      <4>3. QED
        BY <1>2, <3>3, <4>1, <4>2
    <3>5. l # <<>> /\ l[Len(l)].event = "leave"
      BY <1>2, <3>1, <3>3
    <3>6. QED
      BY <3>4, <3>5
  <2>3. QED
    BY <2>1, <2>2
<1>5. l \in Seq(Moves) /\ Len(l) \in Nat
  BY <1>1
<1>6. CASE r = None
  <2>1. out' = l /\ room # None
    BY <1>1, <1>6
  <2> HIDE DEF l
  <2>2. QED
    BY <1>4, <1>6, <2>1 DEF Heading
<1>7. CASE r # None
  <2> DEFINE e == MoveOf("join", r)
  <2>1. out' = Append(l, e) /\ e.event = "join"
    BY <1>1, <1>7 DEF MoveOf
  <2>2. e \in Moves
    BY <1>7 DEF MoveOf, Moves, Places
  <2> HIDE DEF e, l
  <2>3. /\ Len(out') = Len(l) + 1 /\ out'[Len(l) + 1] = e
        /\ \A k \in 1 .. Len(l) : out'[k] = l[k]
    BY <1>5, <2>1, <2>2, AppendProperties
  <2>4. ASSUME NEW k \in 1 .. Len(out'), out'[k].event = "leave"
        PROVE  IF k = 1 THEN in \in {out'[k].room, None}
               ELSE out'[k - 1] = MoveOf("join", out'[k].room)
    <3>1. k # Len(l) + 1
      BY <2>1, <2>3, <2>4
    <3>2. k \in 1 .. Len(l) /\ out'[k] = l[k]
          /\ (k # 1 => k - 1 \in 1 .. Len(l) /\ out'[k - 1] = l[k - 1])
      BY <1>5, <2>3, <3>1
    <3>3. QED
      BY <1>4, <2>4, <3>2
  <2>5. out' # <<>> /\ out'[Len(out')] = e
    BY <1>5, <2>1, <2>3
  <2>6. QED
    BY <1>7, <2>4, <2>5 DEF Heading, e
<1>8. QED
  BY <1>6, <1>7

LEMMA HandleHeading == ASSUME Typed, Heading, Handle PROVE Heading'
<1> DEFINE e == Head(out)
<1>1. /\ out \in Seq(Moves) /\ out # <<>> /\ out' = Tail(out) /\ UNCHANGED <<room, lost>>
      /\ IF e.event = "join" THEN in' = e.room
         ELSE in' = (IF in = e.room THEN None ELSE in)
  BY DEF Typed, Traffic, Handle, hook, history
<1>2. /\ out' \in Seq(Moves) /\ e = out[1] /\ 1 \in 1 .. Len(out) /\ out[1] \in Moves
      /\ Len(out) \in Nat
      /\ \A n \in 1 .. Len(out') : n + 1 \in 1 .. Len(out) /\ out'[n] = out[n + 1]
      /\ \A n \in 1 .. Len(out) : n # 1 =>
           n - 1 \in 1 .. Len(out') /\ out'[n - 1] = out[n]
  BY <1>1, TailAt
<1>3. e.event \in {"join", "leave"} /\ Len(out') \in Nat
  BY <1>2 DEF Moves
<1> HIDE DEF e
<1>4. ASSUME NEW k \in 1 .. Len(out'), out'[k].event = "leave"
      PROVE  IF k = 1 THEN in' \in {out'[k].room, None}
             ELSE out'[k - 1] = MoveOf("join", out'[k].room)
  <2>1. k + 1 \in 1 .. Len(out) /\ out'[k] = out[k + 1] /\ k + 1 # 1 /\ (k + 1) - 1 = k
    BY <1>2
  <2>2. out[k] = MoveOf("join", out[k + 1].room)
    BY <1>4, <2>1 DEF Heading
  <2>3. CASE k = 1
    <3>1. e.event = "join" /\ e.room = out'[k].room
      BY <1>2, <2>1, <2>2, <2>3 DEF MoveOf
    <3>2. QED
      BY <1>1, <2>3, <3>1
  <2>4. CASE k # 1
    <3>1. k \in 1 .. Len(out) /\ out'[k - 1] = out[k]
      BY <1>2, <1>3, <2>1, <2>4
    <3>2. QED
      BY <2>1, <2>2, <2>4, <3>1
  <2>5. QED
    BY <2>3, <2>4
<1>5. CASE out' = <<>>
  <2>1. Len(out) = 1
    <3>1. Len(out') = 0 /\ Len(out) \in 1 .. Len(out)
      BY <1>2, <1>5
    <3>2. Len(out) # 1 => Len(out) - 1 \in 1 .. Len(out')
      BY <1>2, <3>1
    <3>3. QED
      BY <1>2, <3>1, <3>2
  <2>2. in' = room
    <3>1. CASE room = None
      <4>1. e.event = "leave" /\ in \in {e.room, None}
        BY <1>1, <1>2, <2>1, <3>1 DEF Heading
      <4>2. QED
        BY <1>1, <3>1, <4>1
    <3>2. CASE room # None
      <4>1. e.event = "join" /\ e.room = room
        BY <1>1, <1>2, <2>1, <3>2 DEF Heading, MoveOf
      <4>2. QED
        BY <1>1, <4>1
    <3>3. QED
      BY <3>1, <3>2
  <2>3. QED
    BY <1>1, <1>4, <1>5, <2>2 DEF Heading
<1>6. CASE out' # <<>>
  <2>1. Len(out') \in 1 .. Len(out')
    BY <1>2, <1>6, EmptySeq
  <2>2. Len(out') + 1 \in 1 .. Len(out) /\ out'[Len(out')] = out[Len(out') + 1]
    BY <1>2, <2>1
  <2>3. Len(out) = Len(out') + 1
    <3>1. Len(out) # 1 /\ Len(out) \in 1 .. Len(out)
      BY <1>2, <1>3, <2>1, <2>2
    <3>2. Len(out) - 1 \in 1 .. Len(out')
      BY <1>2, <3>1
    <3>3. QED
      BY <1>2, <1>3, <2>2, <3>2
  <2>4. QED
    BY <1>1, <1>4, <1>6, <2>2, <2>3 DEF Heading
<1>7. QED
  BY <1>5, <1>6

LEMMA HeadingNext == Typed /\ Heading /\ [Next]_vars => Heading'
<1> SUFFICES ASSUME Typed, Heading, [Next]_vars PROVE Heading'
  OBVIOUS
<1>1. ASSUME NEW r \in Rooms, Open(r) PROVE Heading'
  BY <1>1, GotoHeading DEF Open, Places
<1>2. CASE Close
  BY <1>2, GotoHeading DEF Close, Places
<1>3. CASE Handle
  BY <1>3, HandleHeading
<1>4. CASE Disconnect
  <2>1. out' = <<>> /\ in' = None /\ lost' = TRUE /\ Len(<<>>) = 0
    BY <1>4 DEF Disconnect
  <2>2. QED
    BY <2>1 DEF Heading
<1>5. CASE UNCHANGED vars
  BY <1>5, HeadingSame DEF vars, socket, hook, history
<1>6. CASE Find \/ Loaded \/ Purge \/ Reconnect \/ Receive \/ Scroll \/ Post \/ LoadFailed
  BY <1>6, HeadingSame DEF Find, Loaded, Purge, Reconnect, Receive, Scroll, Post, LoadFailed,
                           socket, hook, history
<1>7. ASSUME NEW r \in Rooms,
             UsersLoaded(r) \/ OnlineUsers(r) \/ UserTyping(r) \/ UsersFailed(r)
      PROVE  Heading'
  BY <1>7, HeadingSame DEF UsersLoaded, OnlineUsers, UserTyping, UsersFailed,
                           socket, hook, history
<1>8. ASSUME NEW m \in Messages, NEW op, NEW here, NewMessage(m) \/ Ask(op, m, here)
      PROVE  Heading'
  BY <1>8, HeadingSame DEF NewMessage, Ask, socket, hook, history
<1>9. ASSUME NEW t \in tasks, Task(t) \/ TaskFailed(t)
      PROVE  Heading'
  BY <1>9, HeadingSame DEF Task, FindMessage, Write, ReadBack, EmitChange, Answered, TaskFailed,
                           socket, hook, history
<1>10. QED
  BY <1>1, <1>2, <1>3, <1>4, <1>5, <1>6, <1>7, <1>8, <1>9 DEF Next, Progress

LEMMA HeadingAlways == Spec => []Heading
  BY HeadingInit, HeadingNext, TypedAlways, PTL DEF Spec

(* However fast the user goes from room to room, and however late the       *)
(* server handles it: when it has handled everything, the socket is in the  *)
(* room that is open and in no other, unless the connection was lost since. *)
THEOREM JoinsWhatIsOpen == Spec => []FollowsRoom
<1>1. Heading => FollowsRoom
  BY DEF Heading, FollowsRoom
<1>2. QED
  BY <1>1, HeadingAlways, PTL
-----------------------------------------------------------------------------
(* While nothing disturbs the room that is open.  Either it is being opened *)
(* (its messages, members and online users are on their way), or a page is, *)
(* or one message is being added, changed or removed; and the list is that  *)
(* of the table, up to what is under way.                                   *)

Calm == ~disturbed /\ room # None
Told(e, m) == \E k \in 1 .. Len(wire) : wire[k].event = e /\ wire[k].id = m
Asked(op, m, steps) == \E t \in tasks : t.op = op /\ t.msg = m /\ t.step \in steps

(* A message that is still to be added to the list, to be removed from it,  *)
(* or whose text in the list is still to change.                            *)
Coming(m) == m \in posting \/ Told("new", m)
Going(m) == Told("deleted", m) \/ Asked("delete", m, {"read"})
Changing(m) == Told("edited", m) \/ Asked("edit", m, {"written", "read"})

Resting == load = NoLoad /\ users = {} /\ out = <<>> /\ announcing = {}
Alone ==
  /\ connected /\ ~lost
  /\ Len(wire) <= 1 /\ users \subseteq {room} /\ announcing \subseteq {room}
  /\ \A s, t \in tasks : s = t
  /\ \A m, n \in posting : m = n
  /\ tasks # {} => Resting /\ posting = {}
  /\ posting # {} => Resting /\ wire = <<>>
  /\ out # <<>> => announcing = {} /\ wire = <<>>
  /\ \A k \in 1 .. Len(out) - 1 : out[k].event = "leave"
  /\ announcing # {} => wire = <<>>

(* What an event on its way says is so.                                     *)
Signal(e) ==
  /\ e.event = "online" => e.id = room
  /\ e.event # "online" => Resting
  /\ \A t \in tasks : e.event \in {"edited", "deleted"} /\ t.step = "ok" /\ t.msg = e.id
  /\ e.event \in {"new", "edited", "deleted"} => RoomOf[e.id] = room
  /\ e.event \in {"new", "edited"} => e.id \in DOMAIN text /\ e.text = text[e.id]
  /\ e.event = "new" => e.text = 0
  /\ e.event = "deleted" => e.id \notin DOMAIN text
Signals == \A k \in 1 .. Len(wire) : Signal(wire[k])

Panel ==
  /\ users = {} => members = room
  /\ out = <<>> /\ announcing = {} => online = room \/ Told("online", room)

(* What an edit or a deletion has done.                                     *)
Doing(t) ==
  /\ t.op = "edit" /\ t.step \in {"written", "read", "ok"} =>
       t.msg \in DOMAIN text /\ text[t.msg] = t.text
  /\ t.op = "edit" /\ t.step = "read" => t.seen = t.text
  /\ t.op = "delete" => t.step # "written"
  /\ t.op = "delete" /\ t.step \in {"read", "ok"} => t.msg \notin DOMAIN text
  /\ t.here => RoomOf[t.msg] = room
Doings == \A t \in tasks : Doing(t)

(* A message that is to come is newer than all that the list has.           *)
Arriving ==
  /\ \A m \in posting : m \in DOMAIN text /\ text[m] = 0
  /\ \A m \in Messages : Coming(m) => lastId < m /\ \A i \in Ids : i < m

Ascending(s) == \A j, k \in 1 .. Len(s) : j < k => s[j].id < s[k].id
IdsOf(s) == {s[k].id : k \in 1 .. Len(s)}

(* The page f that was asked for with the cursor c.                         *)
Brings(f, c) ==
  /\ \A k \in 1 .. Len(f) : f[k].id \in RowsOf(room) /\ f[k].text = text[f[k].id]
  /\ Chronological =>
       /\ Ascending(f)
       /\ c # None => \A i \in IdsOf(f) : i < c
       /\ \A m \in RowsOf(room) : \/ c # None /\ c <= m
                                  \/ Len(f) = Take /\ m < f[1].id
                                  \/ m \in IdsOf(f)
Paging ==
  load # NoLoad =>
    /\ load.room = room
    /\ load.cursor = None => list = <<>>
    /\ load.cursor # None => hasMore /\ load.cursor = lastId
    /\ load.step = "ok" => Brings(load.found, load.cursor)

Entry(i) ==
  /\ RoomOf[i.id] = room
  /\ Going(i.id) \/ (i.id \in DOMAIN text /\ (Changing(i.id) \/ i.text = text[i.id]))
Listing ==
  /\ \A k \in 1 .. Len(list) : Entry(list[k])
  /\ hasMore => lastId # None
  /\ Chronological =>
       /\ Ascending(list)
       /\ hasMore => \A i \in Ids : lastId <= i
       /\ \A m \in RowsOf(room) : Coming(m) \/ (hasMore /\ m < lastId) \/ m \in Ids

Opening == load # NoLoad /\ load.cursor = None
Peace ==
  Calm => Alone /\ Signals /\ Panel /\ Doings /\ Arriving /\ Paging /\ (~Opening => Listing)

LEMMA PeaceInit == Init => Peace
  BY DEF Init, Peace, Calm

LEMMA NoWire ==
  /\ wire = <<>> => Signals /\ \A e, m : ~Told(e, m)
  /\ wire' = <<>> => Signals' /\ \A e, m : ~Told(e, m)'
<1>1. Len(<<>>) = 0 /\ 1 .. 0 = {}
  OBVIOUS
<1>2. QED
  BY <1>1 DEF Signals, Told

LEMMA NoTasks ==
  /\ tasks = {} => Doings /\ \A op, m, s : ~Asked(op, m, s)
  /\ tasks' = {} => Doings' /\ \A op, m, s : ~Asked(op, m, s)'
  BY DEF Doings, Asked

LEMMA IdsAre ==
  /\ list \in Seq(Items) => Ids = {list[k].id : k \in 1 .. Len(list)} /\ Ids \subseteq Messages
  /\ list' \in Seq(Items) => Ids' = {list'[k].id : k \in 1 .. Len(list')}
<1>1. \A l \in Seq(Items) : DOMAIN l = 1 .. Len(l) /\ \A k \in 1 .. Len(l) : l[k].id \in Messages
  <2>1. \A i \in Items : i.id \in Messages
    BY DEF Items
  <2>2. QED
    BY <2>1
<1>2. QED
  BY <1>1 DEF Ids

(* What does not change of the parts, when that on which they depend does   *)
(* not, or only goes on.                                                    *)
LEMMA DoingsSame ==
  ASSUME Doings, tasks' \subseteq tasks, UNCHANGED <<text, room>>
  PROVE  Doings'
<1>1. ASSUME NEW t \in tasks PROVE Doing(t) /\ Doing(t)'
  BY DEF Doings, Doing
<1>2. QED
  BY <1>1 DEF Doings

LEMMA SignalsSame ==
  ASSUME Signals, tasks' \subseteq tasks, UNCHANGED <<wire, text, room>>, Resting => Resting'
  PROVE  Signals'
<1>1. ASSUME NEW e, Signal(e) PROVE Signal(e)'
  BY <1>1 DEF Signal
<1>2. QED
  BY <1>1 DEF Signals

LEMMA ArrivingSame ==
  ASSUME Arriving, UNCHANGED <<text, list, lastId>>, posting' \subseteq posting,
         \A m \in Messages : Coming(m)' => Coming(m)
  PROVE  Arriving'
<1>1. Ids' = Ids
  BY DEF Ids
<1>2. QED
  BY <1>1 DEF Arriving

LEMMA PagingSame ==
  ASSUME Paging, UNCHANGED <<load, room, list, hasMore, lastId, text>>
  PROVE  Paging'
<1>1. RowsOf(room)' = RowsOf(room)
  BY DEF RowsOf
<1>2. ASSUME NEW f, NEW c, Brings(f, c) PROVE Brings(f, c)'
  BY <1>1, <1>2 DEF Brings
<1>3. QED
  BY <1>2 DEF Paging

LEMMA ListingSame ==
  ASSUME Typed, Listing, UNCHANGED <<list, room, hasMore, lastId, text>>,
         \A m \in Messages : /\ Going(m) => Going(m)'
                             /\ Changing(m) => Changing(m)'
                             /\ Coming(m) => Coming(m)'
  PROVE  Listing'
<1>1. RowsOf(room)' = RowsOf(room) /\ Ids' = Ids /\ RowsOf(room) \subseteq Messages
  BY Constants DEF RowsOf, Ids, Typed, Rows
<1>2. ASSUME NEW i, i.id \in Messages, Entry(i) PROVE Entry(i)'
  BY <1>2 DEF Entry
<1>3. list \in Seq(Items) /\ \A i \in Items : i.id \in Messages
  BY DEF Typed, Hooks, Items
<1>4. ASSUME NEW k \in 1 .. Len(list) PROVE Entry(list[k])'
  <2>1. PICK i : i = list[k]
    OBVIOUS
  <2>2. i.id \in Messages /\ Entry(i)
    BY <1>3, <2>1 DEF Listing
  <2>3. Entry(i)'
    BY <1>2, <2>2
  <2>4. QED
    BY <2>1, <2>3 DEF Entry
<1>5. QED
  BY <1>1, <1>4 DEF Listing

LEMMA TidingsSame ==
  ASSUME UNCHANGED <<wire, tasks, posting>>
  PROVE  \A m : Going(m)' = Going(m) /\ Changing(m)' = Changing(m) /\ Coming(m)' = Coming(m)
  BY DEF Going, Changing, Coming, Told, Asked

(* Steps that touch nothing of all this.                                    *)
LEMMA PeaceSame ==
  ASSUME Typed, Peace, UNCHANGED <<table, tasks, posting, hook, load, members, online, users, socket,
                            history>>
  PROVE  Peace'
<1> SUFFICES ASSUME Calm'
             PROVE  /\ Alone' /\ Signals' /\ Panel' /\ Doings' /\ Arriving' /\ Paging'
                    /\ (~Opening)' => Listing'
  BY DEF Peace
<1>1. UNCHANGED <<text, top, tasks, posting, room, list, hasMore, lastId, load, members, online,
                  users, connected, in, out, wire, announcing, disturbed, lost>>
  BY DEF table, hook, socket, history
<1>2. /\ Alone /\ Signals /\ Panel /\ Doings /\ Arriving /\ Paging /\ (~Opening => Listing)
  BY <1>1 DEF Peace, Calm
<1>3. Resting' = Resting /\ Opening' = Opening /\ \A e, m : Told(e, m)' = Told(e, m)
  BY <1>1 DEF Resting, Opening, Told
<1>4. Alone' /\ Panel'
  BY <1>1, <1>2, <1>3 DEF Alone, Panel
<1>5. \A m : Going(m)' = Going(m) /\ Changing(m)' = Changing(m) /\ Coming(m)' = Coming(m)
  BY <1>1, TidingsSame
<1>6. Signals' /\ Doings' /\ Arriving' /\ Paging'
  BY <1>1, <1>2, <1>3, <1>5, SignalsSame, DoingsSame, ArrivingSame, PagingSame
<1>7. (~Opening)' => Listing'
  BY <1>1, <1>2, <1>3, <1>5, ListingSame
<1>8. QED
  BY <1>4, <1>6, <1>7

(* A room is opened while nothing is under way: all of it is to come.       *)
LEMMA OpenPeace == ASSUME Typed, Heading', NEW r \in Rooms, Open(r) PROVE Peace'
<1> SUFFICES ASSUME Calm'
             PROVE  /\ Alone' /\ Signals' /\ Panel' /\ Doings' /\ Arriving' /\ Paging'
                    /\ (~Opening)' => Listing'
  BY DEF Peace
<1>1. /\ disturbed' = Busy /\ lost' = FALSE /\ room' = r /\ list' = <<>> /\ Goto(r)
      /\ load' = IF load = NoLoad THEN [NoLoad EXCEPT !.step = "sent", !.room = r] ELSE load
      /\ users' = users \union {r}
      /\ UNCHANGED <<table, tasks, posting, hasMore, lastId, panel, connected, in,
                     wire, announcing, faults>>
  BY DEF Open
<1>2. /\ load = NoLoad /\ users = {} /\ tasks = {} /\ posting = {}
      /\ wire = <<>> /\ out = <<>> /\ announcing = {} /\ connected
  BY <1>1 DEF Calm, Busy
<1>3. load' \in Loads /\ load'.step = "sent" /\ load'.room = r /\ load'.cursor = None
      /\ load' # NoLoad
  <2>1. load' = [NoLoad EXCEPT !.step = "sent", !.room = r]
    BY <1>1, <1>2
  <2>2. QED
    BY <2>1, OpenSent, NoLoadIs
<1>4. /\ out' # <<>> /\ \A k \in 1 .. Len(out') - 1 : out'[k].event = "leave"
  <2>1. /\ Leaving(room) \in Seq(Moves) /\ r # None
        /\ out' = Append(Leaving(room), [event |-> "join", room |-> r])
    BY <1>1, GotoIs, Constants DEF Typed, Places
  <2> DEFINE l == Leaving(room)
  <2>2. Len(l) \in Nat /\ \A k \in 1 .. Len(l) : l[k].event = "leave"
    <3>1. CASE room = None
      BY <1>2, <3>1 DEF Leaving
    <3>2. CASE room # None
      <4>1. l = <<[event |-> "leave", room |-> room]>>
        BY <1>2, <3>2 DEF Leaving
      <4>2. QED
        BY <4>1
    <3>3. QED
      BY <3>1, <3>2
  <2> HIDE DEF l
  <2>3. Len(out') = Len(l) + 1 /\ \A k \in 1 .. Len(l) : out'[k] = l[k]
    <3>1. [event |-> "join", room |-> r] \in Moves
      BY DEF Moves
    <3>2. QED
      BY <2>1, <3>1, AppendProperties DEF l
  <2>4. QED
    BY <2>2, <2>3
<1>5. Alone'
  BY <1>1, <1>2, <1>4 DEF Alone
<1>6. Signals' /\ Doings' /\ \A m : ~Coming(m)'
  BY <1>1, <1>2, NoWire, NoTasks DEF Coming
<1>7. Panel'
  BY <1>1, <1>4 DEF Panel
<1>8. Arriving'
  BY <1>1, <1>2, <1>6 DEF Arriving
<1>9. Paging' /\ Opening'
  BY <1>1, <1>3 DEF Paging, Opening
<1>10. QED
  BY <1>5, <1>6, <1>7, <1>8, <1>9

(* A page is asked for.                                                     *)
LEMMA ScrollPeace == ASSUME Typed, Peace, Scroll PROVE Peace'
<1> SUFFICES ASSUME Calm'
             PROVE  /\ Alone' /\ Signals' /\ Panel' /\ Doings' /\ Arriving' /\ Paging'
                    /\ (~Opening)' => Listing'
  BY DEF Peace
<1>1. /\ list # <<>> /\ hasMore /\ load = NoLoad /\ room # None
      /\ load' = [NoLoad EXCEPT !.step = "sent", !.room = room, !.cursor = lastId]
      /\ Begin
      /\ UNCHANGED <<text, top, tasks, posting, room, list, hasMore, lastId, members, online,
                     typing, users, connected, in, out, wire, announcing, lost>>
  BY DEF Scroll, table, hook, panel, socket
<1>2. ~disturbed /\ ~Busy
  BY <1>1, BeginIs DEF Calm
<1>3. /\ Alone /\ Panel /\ Arriving /\ Listing
      /\ tasks = {} /\ posting = {} /\ wire = <<>> /\ users = {} /\ out = <<>> /\ announcing = {}
  BY <1>1, <1>2 DEF Peace, Calm, Opening, Busy
<1>4. load'.step = "sent" /\ load'.room = room /\ load'.cursor = lastId /\ load' # NoLoad
  <2>1. room \in Rooms /\ lastId \in Messages \union {None}
    BY <1>1 DEF Typed, Hooks, Places
  <2>2. load' \in Loads /\ load'.step = "sent" /\ load'.room = room /\ load'.cursor = lastId
    BY <1>1, <2>1, LoadSent
  <2>3. QED
    BY <2>2, NoLoadIs
<1>5. \A m : Going(m)' = Going(m) /\ Changing(m)' = Changing(m) /\ Coming(m)' = Coming(m)
  BY <1>1, TidingsSame
<1>6. Signals' /\ Doings' /\ \A e, m : ~Told(e, m) /\ ~Told(e, m)'
  BY <1>1, <1>3, NoWire, NoTasks
<1>7. Alone' /\ Panel'
  BY <1>1, <1>3, <1>6 DEF Alone, Panel
<1>8. Arriving' /\ Listing'
  BY <1>1, <1>3, <1>5, ArrivingSame, ListingSame
<1>9. Paging'
  BY <1>1, <1>3, <1>4 DEF Paging, Listing
<1>10. QED
  BY <1>6, <1>7, <1>8, <1>9

(* With ids in the order of creation, the older messages are those before.  *)
LEMMA OlderIsBefore ==
  ASSUME Chronological, NEW m \in Messages, NEW c \in Messages
  PROVE  m \in Older(c) <=> m < c
<1>1. IdOf[m] \in Nat /\ IdOf[c] \in Nat /\ m \in Nat /\ c \in Nat /\ c # None
  BY ChatAssumption, Constants
<1>2. m < c => IdOf[m] < IdOf[c]
  BY DEF Chronological
<1>3. c < m => IdOf[c] < IdOf[m]
  BY DEF Chronological
<1>4. m < c \/ c < m \/ m = c
  BY <1>1
<1>5. QED
  BY <1>1, <1>2, <1>3, <1>4 DEF Older

LEMMA FindPeace == ASSUME Typed, Peace, Find PROVE Peace'
<1> SUFFICES ASSUME Calm'
             PROVE  /\ Alone' /\ Signals' /\ Panel' /\ Doings' /\ Arriving' /\ Paging'
                    /\ (~Opening)' => Listing'
  BY DEF Peace
<1> DEFINE p == LastPage(Rest)
           f == FoundIn(p)
           c == load.cursor
<1>1. UNCHANGED <<text, top, tasks, posting, room, list, hasMore, lastId, members, online,
                  typing, users, connected, in, out, wire, announcing, lost, disturbed>>
  BY DEF Find, table, hook, panel, socket, history
<1>2. /\ Alone /\ Signals /\ Panel /\ Doings /\ Arriving /\ Paging /\ (~Opening => Listing)
  BY <1>1 DEF Peace, Calm
<1>3. /\ Rest \in SUBSET Messages /\ load \in Loads /\ load.step = "sent"
      /\ load' \in Loads /\ load'.step = "ok" /\ load'.found = f
      /\ load'.room = load.room /\ load'.cursor = c
      /\ f \in Seq(Items) /\ Len(f) = Len(p)
      /\ \A k \in 1 .. Len(p) : f[k] = [id |-> p[k], text |-> text[p[k]]]
                                /\ p[k] \in RowsOf(load.room)
  BY FindIs
<1>4. /\ p \in Seq(Messages) /\ Len(p) \in Nat /\ Increasing(p)
      /\ \A i \in 1 .. Len(p) : p[i] \in Rest
      /\ \A m \in Rest : \/ \E i \in 1 .. Len(p) : p[i] = m
                         \/ Len(p) = Take /\ m < p[1]
  BY <1>3, PageIs
<1>5. load # NoLoad /\ load' # NoLoad /\ load.room = room
  <2>1. load # NoLoad /\ load' # NoLoad
    BY <1>3, NoLoadIs
  <2>2. QED
    BY <1>2, <2>1 DEF Paging
<1>6. c \in Messages \union {None} /\ RowsOf(room) \subseteq Messages
  BY <1>3, Constants DEF Loads, RowsOf, Typed, Rows
<1> HIDE DEF p, f, c
<1>7. \A k \in 1 .. Len(f) : f[k].id = p[k] /\ f[k].text = text[p[k]] /\ p[k] \in RowsOf(room)
                              /\ p[k] \in Rest
  <2>1. ASSUME NEW k \in 1 .. Len(f)
        PROVE  f[k].id = p[k] /\ f[k].text = text[p[k]] /\ p[k] \in RowsOf(room) /\ p[k] \in Rest
    <3>1. f[k] = [id |-> p[k], text |-> text[p[k]]] /\ p[k] \in RowsOf(room) /\ p[k] \in Rest
      BY <1>3, <1>4, <1>5, <2>1
    <3>2. QED
      BY <3>1
  <2>2. QED
    BY <2>1
<1>8. Brings(f, c)
  <2>1. ASSUME Chronological PROVE Ascending(f)
    BY <1>3, <1>4, <1>7 DEF Ascending, Increasing
  <2>2. ASSUME Chronological, c # None PROVE \A i \in IdsOf(f) : i < c
    <3>1. ASSUME NEW k \in 1 .. Len(f) PROVE f[k].id < c
      <4>1. p[k] \in Older(c) /\ p[k] \in Messages /\ c \in Messages
        BY <1>3, <1>6, <1>7, <2>2 DEF Rest, c
      <4>2. QED
        BY <1>7, <2>2, <4>1, OlderIsBefore
    <3>2. QED
      BY <3>1 DEF IdsOf
  <2>3. ASSUME Chronological, NEW m \in RowsOf(room)
        PROVE  \/ c # None /\ c <= m
               \/ Len(f) = Take /\ m < f[1].id
               \/ m \in IdsOf(f)
    <3>1. CASE m \in Rest
      <4>1. CASE \E i \in 1 .. Len(p) : p[i] = m
        <5>1. PICK i \in 1 .. Len(f) : f[i].id = m
          BY <1>3, <1>7, <4>1
        <5>2. QED
          BY <5>1 DEF IdsOf
      <4>2. CASE Len(p) = Take /\ m < p[1]
        <5>1. 1 \in 1 .. Len(f)
          BY <1>3, <4>2, Constants
        <5>2. QED
          BY <1>3, <1>7, <4>2, <5>1
      <4>3. QED
        BY <1>4, <3>1, <4>1, <4>2
    <3>2. CASE m \notin Rest
      <4>1. m \in Messages /\ m \notin Older(c)
        BY <1>5, <1>6, <2>3, <3>2 DEF Rest, c
      <4>2. c # None
        BY <4>1 DEF Older
      <4>3. c \in Messages
        BY <1>6, <4>2
      <4>4. ~(m < c)
        BY <2>3, <4>1, <4>3, OlderIsBefore
      <4>5. QED
        BY <4>1, <4>2, <4>3, <4>4, Constants
    <3>3. QED
      BY <3>1, <3>2
  <2>4. QED
    BY <1>7, <2>1, <2>2, <2>3 DEF Brings
<1>9. Brings(load.found, load.cursor)'
  <2>1. RowsOf(room)' = RowsOf(room)
    BY <1>1 DEF RowsOf
  <2>2. PICK g, d : g = f /\ d = c
    OBVIOUS
  <2>3. Brings(g, d)'
    <3>1. Brings(g, d)
      BY <1>8, <2>2
    <3>2. QED
      BY <1>1, <2>1, <3>1 DEF Brings
  <2>4. load'.found = g /\ load'.cursor = d
    BY <1>3, <2>2
  <2>5. QED
    BY <2>3, <2>4 DEF Brings
<1>10. Paging'
  BY <1>1, <1>2, <1>3, <1>5, <1>9 DEF Paging, c
<1>11. tasks = {} /\ posting = {} /\ \A k \in 1 .. Len(wire) : wire[k].event = "online"
  <2>1. ~Resting
    BY <1>5 DEF Resting
  <2>2. QED
    BY <1>2, <2>1 DEF Alone, Signals, Signal
<1>12. Alone' /\ Panel'
  <2>1. \A e, m : Told(e, m)' = Told(e, m)
    BY <1>1 DEF Told
  <2>2. Panel'
    BY <1>1, <1>2, <2>1 DEF Panel
  <2>3. QED
    BY <1>1, <1>2, <1>11, <2>2 DEF Alone
<1>13. \A m : Going(m)' = Going(m) /\ Changing(m)' = Changing(m) /\ Coming(m)' = Coming(m)
  BY <1>1, TidingsSame
<1>14. Signals' /\ Doings' /\ Arriving'
  <2>1. Resting => Resting'
    BY <1>5 DEF Resting
  <2>2. QED
    BY <1>1, <1>2, <1>13, <2>1, SignalsSame, DoingsSame, ArrivingSame
<1>15. (~Opening)' => Listing'
  <2>1. Opening' = Opening
    BY <1>3, <1>5 DEF Opening, c
  <2>2. QED
    BY <1>1, <1>2, <1>13, <2>1, ListingSame
<1>16. QED
  BY <1>10, <1>12, <1>14, <1>15

(* While anything is being loaded or joined, nothing else is under way.     *)
LEMMA NotResting ==
  ASSUME Alone, Signals, ~Resting
  PROVE  /\ tasks = {} /\ posting = {}
         /\ \A k \in 1 .. Len(wire) : wire[k].event = "online" /\ wire[k].id = room
         /\ \A m : ~Coming(m) /\ ~Going(m) /\ ~Changing(m)
<1>1. tasks = {} /\ posting = {}
  BY DEF Alone
<1>2. \A k \in 1 .. Len(wire) : wire[k].event = "online" /\ wire[k].id = room
  BY DEF Signals, Signal
<1>3. \A m : ~Told("new", m) /\ ~Told("deleted", m) /\ ~Told("edited", m)
  BY <1>2 DEF Told
<1>4. \A op, m, s : ~Asked(op, m, s)
  BY <1>1, NoTasks
<1>5. QED
  BY <1>1, <1>2, <1>3, <1>4 DEF Coming, Going, Changing

LEMMA OnlineSignals ==
  ASSUME \A k \in 1 .. Len(wire) : wire[k].event = "online" /\ wire[k].id = room,
         UNCHANGED <<wire, room>>, tasks' = {}
  PROVE  Signals'
<1>1. ASSUME NEW e, e.event = "online", e.id = room PROVE Signal(e)'
  BY <1>1 DEF Signal
<1>2. QED
  BY <1>1 DEF Signals

(* What one event on its way tells.                                         *)
LEMMA OneSignal ==
  ASSUME NEW e, wire' = <<e>>, Signal(e)'
  PROVE  /\ Signals' /\ Len(wire') <= 1
         /\ \A x, m : Told(x, m)' <=> (e.event = x /\ e.id = m)
<1>1. Len(wire') = 1 /\ wire'[1] = e
  OBVIOUS
<1>2. \A k \in 1 .. Len(wire') : wire'[k] = e
  BY <1>1
<1>3. Signals'
  BY <1>2 DEF Signals
<1>4. 1 \in 1 .. Len(wire')
  BY <1>1
<1>5. ASSUME NEW x, NEW m PROVE Told(x, m)' <=> (e.event = x /\ e.id = m)
  BY <1>1, <1>2, <1>4 DEF Told
<1>6. QED
  BY <1>1, <1>3, <1>5

LEMMA InRoom == ASSUME Heading, Alone, out = <<>> PROVE in = room
  BY DEF Heading, Alone

LEMMA EmitIs ==
  ASSUME Heading, Alone, out = <<>>, wire = <<>>, NEW r, NEW e
  PROVE  Emit(r, e) = IF r = room THEN <<e>> ELSE <<>>
<1>1. in = room /\ connected
  BY InRoom DEF Alone
<1>2. Append(<<>>, e) = <<e>>
  OBVIOUS
<1>3. QED
  BY <1>1, <1>2 DEF Emit

LEMMA LoadedPeace == ASSUME Typed, Typed', Peace, Loaded PROVE Peace'
<1> SUFFICES ASSUME Calm'
             PROVE  /\ Alone' /\ Signals' /\ Panel' /\ Doings' /\ Arriving' /\ Paging'
                    /\ (~Opening)' => Listing'
  BY DEF Peace
<1> DEFINE f == load.found
           c == load.cursor
<1>1. /\ load.step = "ok" /\ list' = Page /\ hasMore' = (Len(f) = Take)
      /\ lastId' = FirstOr(f, lastId) /\ load' = NoLoad
      /\ UNCHANGED <<text, top, tasks, posting, room, members, online,
                     typing, users, connected, in, out, wire, announcing, lost, disturbed>>
  BY DEF Loaded, table, panel, socket, history
<1>2. /\ Alone /\ Signals /\ Panel /\ Paging /\ (~Opening => Listing)
  BY <1>1 DEF Peace, Calm
<1>3. load \in Loads /\ load # NoLoad /\ f \in Seq(Items) /\ list \in Seq(Items)
      /\ c \in Messages \union {None}
  <2>1. load \in Loads /\ load # NoLoad
    BY <1>1, NoLoadIs DEF Typed, Work
  <2>2. QED
    BY <2>1 DEF Loads, Typed, Hooks
<1>4. /\ tasks = {} /\ posting = {}
      /\ \A k \in 1 .. Len(wire) : wire[k].event = "online" /\ wire[k].id = room
      /\ \A m : ~Coming(m) /\ ~Going(m) /\ ~Changing(m)
  <2>1. ~Resting
    BY <1>3 DEF Resting
  <2>2. QED
    BY <1>2, <2>1, NotResting
<1>5. \A m : ~Coming(m)' /\ ~Going(m)' /\ ~Changing(m)'
  BY <1>1, <1>4, TidingsSame
<1>6. Signals' /\ Doings'
  BY <1>1, <1>4, OnlineSignals, NoTasks
<1>7. Alone' /\ Panel'
  <2>1. \A e, m : Told(e, m)' = Told(e, m)
    BY <1>1 DEF Told
  <2>2. QED
    BY <1>1, <1>2, <1>4, <2>1 DEF Alone, Panel
<1>8. Arriving' /\ Paging'
  BY <1>1, <1>4, <1>5 DEF Arriving, Paging
<1>9. /\ Brings(f, c) /\ (c = None => list = <<>>)
      /\ c # None => Listing /\ hasMore /\ c = lastId
  BY <1>1, <1>2, <1>3 DEF Paging, Opening
<1>10. list' = IF c = None THEN f ELSE f \o list
  BY <1>1 DEF Page
<1>11. /\ Len(f) \in Nat /\ Len(list) \in Nat /\ list' \in Seq(Items) /\ Len(list') \in Nat
       /\ \A k \in 1 .. Len(f) : k \in 1 .. Len(list') /\ list'[k] = f[k]
       /\ c # None => \A k \in 1 .. Len(list) :
            Len(f) + k \in 1 .. Len(list') /\ list'[Len(f) + k] = list[k]
       /\ \A k \in 1 .. Len(list') : \/ k \in 1 .. Len(f)
                                     \/ c # None /\ \E j \in 1 .. Len(list) : k = Len(f) + j
  <2>1. CASE c = None
    BY <1>3, <1>10, <2>1
  <2>2. CASE c # None
    <3> HIDE DEF f, c
    <3>1. list' = f \o list
      BY <1>10, <2>2
    <3>2. QED
      BY <1>3, <2>2, <3>1, ConcatIs
  <2>3. QED
    BY <2>1, <2>2
<1>12. Len(f) = Take => 1 \in 1 .. Len(f) /\ lastId' = f[1].id /\ f[1].id # None /\ f # <<>>
  <2>1. ASSUME Len(f) = Take PROVE f # <<>>
    BY <2>1, Constants
  <2>2. QED
    BY <1>1, <1>3, <2>1, FirstIs, Constants
<1>13. RowsOf(room)' = RowsOf(room) /\ RowsOf(room) \subseteq Messages
  BY <1>1, Constants DEF RowsOf, Typed, Rows
<1>14. /\ Ids' = {list'[k].id : k \in 1 .. Len(list')}
       /\ Ids = {list[k].id : k \in 1 .. Len(list)} /\ Ids \subseteq Messages
  BY <1>3, <1>11, IdsAre
<1>15. \A k \in 1 .. Len(list') : list'[k].id \in Nat
  <2>1. \A i \in Items : i.id \in Nat
    BY Constants DEF Items
  <2>2. QED
    BY <1>11, <2>1
<1> HIDE DEF f, c
<1>16. ASSUME NEW k \in 1 .. Len(list') PROVE Entry(list[k])'
  <2>1. PICK i : i = list'[k]
    OBVIOUS
  <2>2. CASE k \in 1 .. Len(f)
    <3>1. i = f[k] /\ i.id \in RowsOf(room) /\ i.text = text[i.id]
      BY <1>9, <1>11, <2>1, <2>2 DEF Brings
    <3>2. i.id \in DOMAIN text /\ RoomOf[i.id] = room
      BY <3>1 DEF RowsOf
    <3>3. QED
      BY <1>1, <2>1, <3>1, <3>2 DEF Entry
  <2>3. CASE c # None /\ \E j \in 1 .. Len(list) : k = Len(f) + j
    <3>1. PICK j \in 1 .. Len(list) : i = list[j]
      BY <1>11, <2>1, <2>3
    <3>2. Entry(i)
      BY <1>9, <2>3, <3>1 DEF Listing
    <3>3. RoomOf[i.id] = room /\ i.id \in DOMAIN text /\ i.text = text[i.id]
      BY <1>4, <3>2 DEF Entry
    <3>4. QED
      BY <1>1, <2>1, <3>3 DEF Entry
  <2>4. QED
    BY <1>11, <2>2, <2>3
<1>17. hasMore' => lastId' # None
  BY <1>1, <1>12 DEF f
<1>18. ASSUME Chronological PROVE Ascending(list)'
  <2>1. ASSUME NEW j \in 1 .. Len(list'), NEW k \in 1 .. Len(list'), j < k
        PROVE  list'[j].id < list'[k].id
    <3>1. CASE k \in 1 .. Len(f)
      <4>1. j \in 1 .. Len(f) /\ list'[j] = f[j] /\ list'[k] = f[k]
        BY <1>11, <2>1, <3>1
      <4>2. QED
        BY <1>9, <1>18, <2>1, <3>1, <4>1 DEF Brings, Ascending
    <3>2. CASE c # None /\ \E n \in 1 .. Len(list) : k = Len(f) + n
      <4>1. PICK n \in 1 .. Len(list) : k = Len(f) + n
        BY <3>2
      <4>2. list'[k] = list[n] /\ c <= list[n].id
        BY <1>9, <1>11, <1>14, <1>18, <3>2, <4>1 DEF Listing
      <4>3. CASE j \in 1 .. Len(f)
        <5>1. list'[j].id \in IdsOf(f)
          BY <1>11, <4>3 DEF IdsOf
        <5>2. list'[j].id < c
          BY <1>9, <1>18, <3>2, <5>1 DEF Brings
        <5>3. c \in Nat /\ list'[j].id \in Nat /\ list'[k].id \in Nat
          BY <1>3, <1>15, Constants DEF c
        <5>4. QED
          BY <4>2, <5>2, <5>3
      <4>4. CASE j \notin 1 .. Len(f)
        <5>1. PICK l \in 1 .. Len(list) : j = Len(f) + l
          BY <1>11, <4>4
        <5>2. l < n /\ list'[j] = list[l]
          BY <1>11, <2>1, <3>2, <4>1, <5>1
        <5>3. QED
          BY <1>9, <1>18, <3>2, <4>2, <5>2 DEF Listing, Ascending
      <4>5. QED
        BY <4>3, <4>4
    <3>3. QED
      BY <1>11, <3>1, <3>2
  <2>2. QED
    BY <2>1 DEF Ascending
<1>19. ASSUME Chronological, hasMore' PROVE \A i \in Ids' : lastId' <= i
  <2>1. 1 \in 1 .. Len(f) /\ lastId' = f[1].id
    BY <1>1, <1>12, <1>19 DEF f
  <2>2. 1 \in 1 .. Len(list') /\ lastId' = list'[1].id
    BY <1>11, <2>1
  <2>3. ASSUME NEW k \in 1 .. Len(list') PROVE list'[1].id <= list'[k].id
    <3>1. CASE k = 1
      BY <1>15, <2>2, <3>1
    <3>2. CASE k # 1
      <4>1. list'[1].id < list'[k].id
        BY <1>18, <1>19, <2>2, <3>2 DEF Ascending
      <4>2. QED
        BY <1>15, <2>2, <4>1
    <3>3. QED
      BY <3>1, <3>2
  <2>4. QED
    BY <1>14, <2>2, <2>3
<1>20. ASSUME Chronological, NEW m \in RowsOf(room)
       PROVE  Coming(m)' \/ (hasMore' /\ m < lastId') \/ m \in Ids'
  <2>1. CASE m \in IdsOf(f)
    BY <1>11, <1>14, <2>1 DEF IdsOf
  <2>2. CASE Len(f) = Take /\ m < f[1].id
    BY <1>1, <1>12, <2>2 DEF f
  <2>3. CASE c # None /\ c <= m
    <3>1. ~(m < lastId)
      BY <1>3, <1>9, <1>13, <2>3, Constants DEF c
    <3>2. m \in Ids
      BY <1>4, <1>9, <1>20, <2>3, <3>1 DEF Listing
    <3>3. PICK j \in 1 .. Len(list) : list[j].id = m
      BY <1>14, <3>2
    <3>4. QED
      BY <1>11, <1>14, <2>3, <3>3
  <2>4. QED
    BY <1>9, <1>20, <2>1, <2>2, <2>3 DEF Brings
<1>21. Listing'
  BY <1>13, <1>16, <1>17, <1>18, <1>19, <1>20 DEF Listing
<1>22. QED
  BY <1>6, <1>7, <1>8, <1>21

(* The list of members comes.                                               *)
LEMMA UsersPeace ==
  ASSUME Typed, Peace, NEW r \in Rooms, UsersLoaded(r)
  PROVE  Peace'
<1> SUFFICES ASSUME Calm'
             PROVE  /\ Alone' /\ Signals' /\ Panel' /\ Doings' /\ Arriving' /\ Paging'
                    /\ (~Opening)' => Listing'
  BY DEF Peace
<1>1. /\ r \in users /\ users' = users \ {r} /\ members' = r
      /\ UNCHANGED <<text, top, tasks, posting, room, list, hasMore, lastId, load, online,
                     typing, connected, in, out, wire, announcing, disturbed, lost>>
  BY DEF UsersLoaded, table, hook, socket, history
<1>2. /\ Alone /\ Signals /\ Panel /\ Doings /\ Arriving /\ Paging /\ (~Opening => Listing)
  BY <1>1 DEF Peace, Calm
<1>3. ~Resting /\ r = room
  BY <1>1, <1>2 DEF Resting, Alone
<1>4. /\ tasks = {} /\ posting = {}
      /\ \A k \in 1 .. Len(wire) : wire[k].event = "online" /\ wire[k].id = room
      /\ \A m : ~Coming(m) /\ ~Going(m) /\ ~Changing(m)
  BY <1>2, <1>3, NotResting
<1>5. \A m : Going(m)' = Going(m) /\ Changing(m)' = Changing(m) /\ Coming(m)' = Coming(m)
  BY <1>1, TidingsSame
<1>6. Signals' /\ Doings'
  BY <1>1, <1>4, OnlineSignals, NoTasks
<1>7. Alone' /\ Panel'
  <2>1. \A e, m : Told(e, m)' = Told(e, m)
    BY <1>1 DEF Told
  <2>2. QED
    BY <1>1, <1>2, <1>3, <1>4, <2>1 DEF Alone, Panel
<1>8. Arriving' /\ Paging'
  BY <1>1, <1>2, <1>5, ArrivingSame, PagingSame
<1>9. (~Opening)' => Listing'
  <2>1. Opening' = Opening
    BY <1>1 DEF Opening
  <2>2. QED
    BY <1>1, <1>2, <1>5, <2>1, ListingSame
<1>10. QED
  BY <1>6, <1>7, <1>8, <1>9

(* What else begins, begins while nothing is under way.                     *)
LEMMA FromRest ==
  ASSUME Peace, Calm, ~Busy
  PROVE  /\ Alone /\ Panel /\ Arriving /\ Listing /\ Resting
         /\ load = NoLoad /\ users = {} /\ out = <<>> /\ announcing = {}
         /\ tasks = {} /\ posting = {} /\ wire = <<>> /\ online = room /\ members = room
         /\ \A e, m : ~Told(e, m)
         /\ \A m : ~Coming(m) /\ ~Going(m) /\ ~Changing(m)
<1>1. /\ load = NoLoad /\ users = {} /\ out = <<>> /\ announcing = {}
      /\ tasks = {} /\ posting = {} /\ wire = <<>>
  BY DEF Busy
<1>2. Alone /\ Panel /\ Arriving /\ Listing /\ Resting
  BY <1>1 DEF Peace, Opening, Resting
<1>3. \A e, m : ~Told(e, m)
  BY <1>1, NoWire
<1>4. \A op, m, s : ~Asked(op, m, s)
  BY <1>1, NoTasks
<1>5. QED
  BY <1>1, <1>2, <1>3, <1>4 DEF Panel, Coming, Going, Changing

LEMMA TypingPeace ==
  ASSUME Typed, Heading, Peace, NEW r \in Rooms, UserTyping(r)
  PROVE  Peace'
<1> SUFFICES ASSUME Calm'
             PROVE  /\ Alone' /\ Signals' /\ Panel' /\ Doings' /\ Arriving' /\ Paging'
                    /\ (~Opening)' => Listing'
  BY DEF Peace
<1> DEFINE e == Event("typing", None, 0)
<1>1. /\ wire' = Emit(r, e) /\ wire' # wire /\ Begin
      /\ UNCHANGED <<text, top, tasks, posting, room, list, hasMore, lastId, load, members, online,
                     typing, users, connected, in, out, announcing, lost>>
  BY DEF UserTyping, table, hook, panel
<1>2. Calm /\ ~Busy
  BY <1>1, BeginIs DEF Calm
<1>3. /\ Alone /\ Panel /\ Arriving /\ Listing /\ Resting
      /\ load = NoLoad /\ users = {} /\ out = <<>> /\ announcing = {}
      /\ tasks = {} /\ posting = {} /\ wire = <<>> /\ online = room /\ members = room
      /\ \A m : ~Coming(m) /\ ~Going(m) /\ ~Changing(m)
  BY <1>2, FromRest
<1>4. e.event = "typing"
  BY EventIs
<1> HIDE DEF e
<1>5. wire' = <<e>>
  BY <1>1, <1>3, EmitIs
<1>6. Signal(e)'
  BY <1>1, <1>3, <1>4 DEF Signal, Resting
<1>7. /\ Signals' /\ Len(wire') <= 1
      /\ \A x, m : Told(x, m)' <=> (e.event = x /\ e.id = m)
  BY <1>5, <1>6, OneSignal
<1>8. Doings' /\ \A op, m, s : ~Asked(op, m, s)'
  BY <1>1, <1>3, NoTasks
<1>9. \A m : ~Coming(m)' /\ ~Going(m)' /\ ~Changing(m)'
  BY <1>1, <1>3, <1>4, <1>7, <1>8 DEF Coming, Going, Changing
<1>10. Alone' /\ Panel'
  BY <1>1, <1>3, <1>7 DEF Alone, Panel
<1>11. Arriving' /\ Paging' /\ Listing'
  BY <1>1, <1>3, <1>9, ArrivingSame, ListingSame DEF Paging
<1>12. QED
  BY <1>7, <1>8, <1>10, <1>11

(* A message is stored, which comes to the list after all that is there.    *)
LEMMA PostPeace == ASSUME Typed, Peace, Post PROVE Peace'
<1> SUFFICES ASSUME Calm'
             PROVE  /\ Alone' /\ Signals' /\ Panel' /\ Doings' /\ Arriving' /\ Paging'
                    /\ (~Opening)' => Listing'
  BY DEF Peace
<1> DEFINE n == top + 1
<1>1. /\ top' = n /\ n \in Messages /\ Begin /\ posting' = posting \union {n}
      /\ text' = [m \in DOMAIN text \union {n} |-> IF m = n THEN 0 ELSE text[m]]
      /\ UNCHANGED <<tasks, room, list, hasMore, lastId, load, members, online,
                     typing, users, connected, in, out, wire, announcing, lost>>
  BY Constants DEF Post, hook, panel, socket, Typed, Rows
<1>2. Calm /\ ~Busy
  BY <1>1, BeginIs DEF Calm
<1>3. /\ Alone /\ Panel /\ Arriving /\ Listing /\ Resting
      /\ load = NoLoad /\ users = {} /\ out = <<>> /\ announcing = {}
      /\ tasks = {} /\ posting = {} /\ wire = <<>> /\ online = room /\ members = room
      /\ \A e, m : ~Told(e, m)
      /\ \A m : ~Coming(m) /\ ~Going(m) /\ ~Changing(m)
  BY <1>2, FromRest
<1>4. /\ \A m \in DOMAIN text : m \in Nat /\ m < n /\ m # n
      /\ lastId \in Nat /\ lastId < n
  BY Constants DEF Typed, Rows, Hooks, Known
<1>5. /\ DOMAIN text' = DOMAIN text \union {n} /\ text'[n] = 0
      /\ \A m \in DOMAIN text : text'[m] = text[m]
  BY <1>1, <1>4
<1> HIDE DEF n
<1>6. posting' = {n}
  BY <1>1, <1>3
<1>7. Signals' /\ Doings' /\ (\A e, m : ~Told(e, m)') /\ (\A op, m, s : ~Asked(op, m, s)')
  BY <1>1, <1>3, NoWire, NoTasks
<1>8. \A m : ~Going(m)' /\ ~Changing(m)' /\ (Coming(m)' <=> m = n)
  BY <1>6, <1>7 DEF Going, Changing, Coming
<1>9. Alone' /\ Panel'
  BY <1>1, <1>3, <1>6 DEF Alone, Panel, Resting
<1>10. Paging'
  BY <1>1, <1>3 DEF Paging
<1>11. /\ list \in Seq(Items) /\ Ids' = Ids /\ Ids = {list[k].id : k \in 1 .. Len(list)}
  BY <1>1, IdsAre DEF Typed, Hooks, Ids
<1>12. \A k \in 1 .. Len(list) : RoomOf[list[k].id] = room /\ list[k].id \in DOMAIN text
                                 /\ list[k].text = text[list[k].id]
  BY <1>3 DEF Listing, Entry
<1>13. \A i \in Ids : i < n
  BY <1>4, <1>11, <1>12
<1>14. Arriving'
  BY <1>4, <1>5, <1>6, <1>8, <1>11, <1>13, <1>1 DEF Arriving
<1>15. ASSUME NEW k \in 1 .. Len(list) PROVE Entry(list[k])'
  <2>1. PICK i : i = list[k]
    OBVIOUS
  <2>2. RoomOf[i.id] = room /\ i.id \in DOMAIN text' /\ i.text = text'[i.id]
    BY <1>5, <1>12, <2>1
  <2>3. QED
    BY <1>1, <2>1, <2>2 DEF Entry
<1>16. \A m \in RowsOf(room)' : m = n \/ m \in RowsOf(room)
  BY <1>1, <1>5 DEF RowsOf
<1>17. ASSUME Chronological
       PROVE  /\ Ascending(list) /\ (hasMore => \A i \in Ids : lastId <= i)
              /\ \A m \in RowsOf(room)' : Coming(m)' \/ (hasMore /\ m < lastId) \/ m \in Ids
  BY <1>3, <1>8, <1>16, <1>17 DEF Listing
<1>18. Listing'
  <2>1. Ascending(list)' <=> Ascending(list)
    BY <1>1 DEF Ascending
  <2>2. QED
    BY <1>1, <1>3, <1>11, <1>15, <1>17, <2>1 DEF Listing
<1>19. QED
  BY <1>7, <1>9, <1>10, <1>14, <1>18

(* It is announced.                                                         *)
LEMMA NewMessagePeace ==
  ASSUME Typed, Heading, Peace, NEW n \in Messages, NewMessage(n)
  PROVE  Peace'
<1> SUFFICES ASSUME Calm'
             PROVE  /\ Alone' /\ Signals' /\ Panel' /\ Doings' /\ Arriving' /\ Paging'
                    /\ (~Opening)' => Listing'
  BY DEF Peace
<1> DEFINE e == Event("new", n, 0)
<1>1. /\ n \in posting /\ posting' = posting \ {n} /\ wire' = Emit(RoomOf[n], e)
      /\ UNCHANGED <<text, top, tasks, room, list, hasMore, lastId, load, members, online,
                     typing, users, connected, in, out, announcing, disturbed, lost>>
  BY DEF NewMessage, table, hook, panel, history
<1>2. /\ Alone /\ Signals /\ Panel /\ Arriving /\ (~Opening => Listing)
  BY <1>1 DEF Peace, Calm
<1>3. /\ Resting /\ wire = <<>> /\ tasks = {} /\ posting = {n}
      /\ load = NoLoad /\ users = {} /\ out = <<>> /\ announcing = {}
  BY <1>1, <1>2 DEF Alone, Resting
<1>4. posting' = {} /\ Resting'
  BY <1>1, <1>3 DEF Resting
<1>5. e.event = "new" /\ e.id = n /\ e.text = 0
  BY EventIs
<1> HIDE DEF e
<1>6. wire' = IF RoomOf[n] = room THEN <<e>> ELSE <<>>
  BY <1>1, <1>2, <1>3, EmitIs
<1>7. n \in DOMAIN text /\ text[n] = 0 /\ Coming(n)
  BY <1>2, <1>3 DEF Arriving, Coming
<1>8. /\ Signals' /\ Len(wire') <= 1
      /\ \A x, m : Told(x, m)' <=> (x = "new" /\ m = n /\ RoomOf[n] = room)
  <2>1. CASE RoomOf[n] = room
    <3>1. Signal(e)'
      BY <1>1, <1>3, <1>4, <1>5, <1>7, <2>1 DEF Signal
    <3>2. wire' = <<e>>
      BY <1>6, <2>1
    <3>3. /\ Signals' /\ Len(wire') <= 1
          /\ \A x, m : Told(x, m)' <=> (e.event = x /\ e.id = m)
      BY <3>1, <3>2, OneSignal
    <3>4. QED
      BY <1>5, <2>1, <3>3
  <2>2. CASE RoomOf[n] # room
    <3>1. wire' = <<>> /\ Len(<<>>) = 0
      BY <1>6, <2>2
    <3>2. QED
      BY <2>2, <3>1, NoWire
  <2>3. QED
    BY <2>1, <2>2
<1>9. Doings' /\ (\A op, m, s : ~Asked(op, m, s)') /\ (\A op, m, s : ~Asked(op, m, s))
  BY <1>1, <1>3, NoTasks
<1>10. /\ \A m : ~Going(m)' /\ ~Changing(m)' /\ ~Going(m) /\ ~Changing(m)
       /\ \A m : Coming(m)' <=> m = n /\ RoomOf[n] = room
       /\ \A m : Coming(m) <=> m = n
  <2>1. \A x, m : ~Told(x, m)
    BY <1>3, NoWire
  <2>2. QED
    BY <1>3, <1>4, <1>8, <1>9, <2>1 DEF Going, Changing, Coming
<1>11. Alone' /\ Panel'
  <2>1. \A x, m : ~Told(x, m)
    BY <1>3, NoWire
  <2>2. Panel'
    BY <1>1, <1>2, <2>1 DEF Panel
  <2>3. QED
    BY <1>1, <1>2, <1>3, <1>4, <1>8, <2>2 DEF Alone
<1>12. Paging'
  BY <1>1, <1>3 DEF Paging
<1>13. Arriving'
  BY <1>1, <1>2, <1>3, <1>10, ArrivingSame
<1>14. Listing'
  <2>1. Listing
    BY <1>2, <1>3 DEF Opening
  <2>2. RowsOf(room)' = RowsOf(room) /\ Ids' = Ids /\ (Ascending(list)' <=> Ascending(list))
    BY <1>1 DEF RowsOf, Ids, Ascending
  <2>3. ASSUME NEW k \in 1 .. Len(list) PROVE Entry(list[k])'
    <3>1. PICK i : i = list[k]
      OBVIOUS
    <3>2. RoomOf[i.id] = room /\ i.id \in DOMAIN text /\ i.text = text[i.id]
      BY <1>10, <2>1, <3>1 DEF Listing, Entry
    <3>3. QED
      BY <1>1, <3>1, <3>2 DEF Entry
  <2>4. \A m \in RowsOf(room) : Coming(m) => Coming(m)'
    BY <1>10 DEF RowsOf
  <2>5. QED
    BY <1>1, <2>1, <2>2, <2>3, <2>4 DEF Listing
<1>15. QED
  BY <1>8, <1>9, <1>11, <1>12, <1>13, <1>14

(* The server handles a leave, then the join.                               *)
LEMMA HandlePeace == ASSUME Typed, Heading, Peace, Handle PROVE Peace'
<1> SUFFICES ASSUME Calm'
             PROVE  /\ Alone' /\ Signals' /\ Panel' /\ Doings' /\ Arriving' /\ Paging'
                    /\ (~Opening)' => Listing'
  BY DEF Peace
<1>1. /\ out # <<>> /\ out' = Tail(out)
      /\ announcing' = IF Head(out).event = "join" THEN announcing \union {Head(out).room}
                       ELSE announcing
      /\ UNCHANGED <<text, top, tasks, posting, room, list, hasMore, lastId, load, members, online,
                     typing, users, connected, wire, disturbed, lost>>
  BY DEF Handle, table, hook, panel, history
<1>2. /\ Alone /\ Signals /\ Panel /\ Arriving /\ Paging /\ (~Opening => Listing) /\ room # None
  BY <1>1 DEF Peace, Calm
<1>3. announcing = {} /\ wire = <<>> /\ tasks = {} /\ posting = {} /\ users \subseteq {room}
  BY <1>1, <1>2 DEF Alone, Resting
<1>4. out \in Seq(Moves)
  BY DEF Typed, Traffic
<1>5. /\ out' \in Seq(Moves) /\ Head(out) = out[1] /\ Len(out) \in Nat /\ Len(out') = Len(out) - 1
      /\ 1 \in 1 .. Len(out)
      /\ \A k \in 1 .. Len(out') : out'[k] = out[k + 1]
  BY <1>1, <1>4, TailAt, HeadTailProperties
<1>6. out[Len(out)] = MoveOf("join", room)
  BY <1>1, <1>2 DEF Heading
<1>7. \A k \in 1 .. Len(out) - 1 : out[k].event = "leave"
  BY <1>2 DEF Alone
<1>8. \A k \in 1 .. Len(out') - 1 : out'[k].event = "leave"
  <2>1. ASSUME NEW k \in 1 .. Len(out') - 1 PROVE out'[k].event = "leave"
    <3>1. k + 1 \in 1 .. Len(out) - 1 /\ k \in 1 .. Len(out')
      BY <1>5
    <3>2. QED
      BY <1>5, <1>7, <3>1
  <2>2. QED
    BY <2>1
<1>9. \/ out' # <<>> /\ announcing' = {}
      \/ out' = <<>> /\ announcing' = {room}
  <2>1. CASE Len(out) = 1
    <3>1. Head(out).event = "join" /\ Head(out).room = room
      BY <1>5, <1>6, <2>1 DEF MoveOf
    <3>2. out' = <<>>
      BY <1>5, <2>1, EmptySeq
    <3>3. QED
      BY <1>1, <1>3, <3>1, <3>2
  <2>2. CASE Len(out) # 1
    <3>1. Head(out).event = "leave"
      BY <1>5, <1>7, <2>2
    <3>2. out' # <<>>
      BY <1>5, <2>2, EmptySeq
    <3>3. QED
      BY <1>1, <1>3, <3>1, <3>2
  <2>3. QED
    BY <2>1, <2>2
<1>10. Signals' /\ Doings'
  BY <1>1, <1>3, NoWire, NoTasks
<1>11. Alone' /\ Panel'
  BY <1>1, <1>2, <1>3, <1>8, <1>9 DEF Alone, Panel
<1>12. \A m : Going(m)' = Going(m) /\ Changing(m)' = Changing(m) /\ Coming(m)' = Coming(m)
  BY <1>1, TidingsSame
<1>13. Arriving' /\ Paging'
  BY <1>1, <1>2, <1>12, ArrivingSame, PagingSame
<1>14. (~Opening)' => Listing'
  <2>1. Opening' = Opening
    BY <1>1 DEF Opening
  <2>2. QED
    BY <1>1, <1>2, <1>12, <2>1, ListingSame
<1>15. QED
  BY <1>10, <1>11, <1>13, <1>14

(* It says who is online.                                                   *)
LEMMA OnlinePeace ==
  ASSUME Typed, Heading, Peace, NEW r \in Rooms, OnlineUsers(r)
  PROVE  Peace'
<1> SUFFICES ASSUME Calm'
             PROVE  /\ Alone' /\ Signals' /\ Panel' /\ Doings' /\ Arriving' /\ Paging'
                    /\ (~Opening)' => Listing'
  BY DEF Peace
<1> DEFINE e == Event("online", r, 0)
<1>1. /\ r \in announcing /\ announcing' = announcing \ {r} /\ wire' = Emit(r, e)
      /\ UNCHANGED <<text, top, tasks, posting, room, list, hasMore, lastId, load, members, online,
                     typing, users, connected, in, out, disturbed, lost>>
  BY DEF OnlineUsers, table, hook, panel, history
<1>2. /\ Alone /\ Signals /\ Panel /\ Arriving /\ Paging /\ (~Opening => Listing)
  BY <1>1 DEF Peace, Calm
<1>3. /\ r = room /\ announcing' = {} /\ out = <<>> /\ wire = <<>> /\ ~Resting
      /\ tasks = {} /\ posting = {}
  BY <1>1, <1>2 DEF Alone, Resting
<1>4. e.event = "online" /\ e.id = room
  BY <1>3, EventIs
<1> HIDE DEF e
<1>5. wire' = <<e>>
  BY <1>1, <1>2, <1>3, EmitIs
<1>6. Signal(e)'
  BY <1>1, <1>3, <1>4 DEF Signal
<1>7. /\ Signals' /\ Len(wire') <= 1
      /\ \A x, m : Told(x, m)' <=> (e.event = x /\ e.id = m)
  BY <1>5, <1>6, OneSignal
<1>8. /\ Doings' /\ (\A op, m, s : ~Asked(op, m, s)') /\ (\A op, m, s : ~Asked(op, m, s))
      /\ \A x, m : ~Told(x, m)
  BY <1>1, <1>3, NoTasks, NoWire
<1>9. \A m : /\ ~Coming(m)' /\ ~Going(m)' /\ ~Changing(m)'
             /\ ~Coming(m) /\ ~Going(m) /\ ~Changing(m)
  BY <1>1, <1>3, <1>4, <1>7, <1>8 DEF Coming, Going, Changing
<1>10. Alone' /\ Panel'
  BY <1>1, <1>2, <1>3, <1>4, <1>7 DEF Alone, Panel
<1>11. Arriving' /\ Paging'
  BY <1>1, <1>2, <1>9, ArrivingSame, PagingSame
<1>12. (~Opening)' => Listing'
  <2>1. Opening' = Opening
    BY <1>1 DEF Opening
  <2>2. QED
    BY <1>1, <1>2, <1>9, <2>1, ListingSame
<1>13. QED
  BY <1>7, <1>8, <1>10, <1>11, <1>12

(* An edit or a deletion begins.                                            *)
LEMMA AskPeace ==
  ASSUME Typed, Peace, NEW n \in Messages, NEW op \in {"edit", "delete"}, NEW here \in BOOLEAN,
         Ask(op, n, here)
  PROVE  Peace'
<1> SUFFICES ASSUME Calm'
             PROVE  /\ Alone' /\ Signals' /\ Panel' /\ Doings' /\ Arriving' /\ Paging'
                    /\ (~Opening)' => Listing'
  BY DEF Peace
<1>1. PICK t : t = [op |-> op, msg |-> n, text |-> acts', here |-> here,
                    step |-> "sent", seen |-> 0]
  OBVIOUS
<1>2. /\ tasks' = tasks \union {t} /\ Begin /\ (here => n \in Ids)
      /\ UNCHANGED <<text, top, posting, room, list, hasMore, lastId, load, members, online,
                     typing, users, connected, in, out, wire, announcing, lost>>
  BY <1>1 DEF Ask, table, hook, panel, socket
<1>3. t.step = "sent" /\ t.here = here /\ t.msg = n
  BY <1>1
<1>4. Calm /\ ~Busy
  BY <1>2, BeginIs DEF Calm
<1>5. /\ Alone /\ Panel /\ Arriving /\ Listing /\ Resting
      /\ load = NoLoad /\ users = {} /\ out = <<>> /\ announcing = {}
      /\ tasks = {} /\ posting = {} /\ wire = <<>> /\ online = room /\ members = room
      /\ \A e, m : ~Told(e, m)
      /\ \A m : ~Coming(m) /\ ~Going(m) /\ ~Changing(m)
  BY <1>4, FromRest
<1>6. tasks' = {t} /\ Resting'
  BY <1>2, <1>5 DEF Resting
<1>7. Signals' /\ \A e, m : ~Told(e, m)'
  BY <1>2, <1>5, NoWire
<1>8. \A m : ~Coming(m)' /\ ~Going(m)' /\ ~Changing(m)'
  BY <1>2, <1>3, <1>5, <1>6, <1>7 DEF Coming, Going, Changing, Asked
<1>9. Doings'
  <2>1. here => RoomOf[n] = room
    <3>1. Ids = {list[k].id : k \in 1 .. Len(list)}
      BY IdsAre DEF Typed, Hooks
    <3>2. QED
      BY <1>2, <1>5, <3>1 DEF Listing, Entry
  <2>2. Doing(t)'
    BY <1>2, <1>3, <2>1 DEF Doing
  <2>3. QED
    BY <1>6, <2>2 DEF Doings
<1>10. Alone' /\ Panel'
  BY <1>2, <1>5, <1>6 DEF Alone, Panel
<1>11. Arriving' /\ Paging' /\ Listing'
  BY <1>2, <1>5, <1>8, ArrivingSame, ListingSame DEF Paging
<1>12. QED
  BY <1>7, <1>9, <1>10, <1>11

(* While an edit or a deletion is in progress nothing else is, and the      *)
(* event on its way, if any, is of what it has done.                        *)
LEMMA AtTask ==
  ASSUME Typed, Peace, Calm, NEW t \in tasks
  PROVE  /\ Alone /\ Signals /\ Panel /\ Doing(t) /\ Arriving /\ Listing /\ Resting
         /\ load = NoLoad /\ users = {} /\ out = <<>> /\ announcing = {}
         /\ tasks = {t} /\ posting = {} /\ online = room /\ members = room
         /\ t.step # "ok" => wire = <<>>
         /\ \A k \in 1 .. Len(wire) : wire[k].event \in {"edited", "deleted"}
         /\ \A m : ~Coming(m)
         /\ \A new : Step(t, new) => tasks' = new
<1>1. Alone /\ Signals /\ Panel /\ Doings /\ Arriving /\ (~Opening => Listing)
  BY DEF Peace
<1>2. /\ Resting /\ posting = {} /\ load = NoLoad /\ users = {} /\ out = <<>> /\ announcing = {}
      /\ tasks = {t}
  BY <1>1 DEF Alone, Resting
<1>3. Doing(t) /\ Listing
  BY <1>1, <1>2 DEF Doings, Opening
<1>4. \A k \in 1 .. Len(wire) : wire[k].event \in {"edited", "deleted"} /\ t.step = "ok"
  BY <1>1 DEF Signals, Signal
<1>5. \A m : ~Told("online", m) /\ ~Told("new", m)
  BY <1>4 DEF Told
<1>6. online = room /\ members = room
  BY <1>1, <1>2, <1>5 DEF Panel
<1>7. \A m : ~Coming(m)
  BY <1>2, <1>5 DEF Coming
<1>8. t.step # "ok" => wire = <<>>
  <2>1. ASSUME wire # <<>> PROVE 1 \in 1 .. Len(wire)
    BY <2>1, EmptySeq DEF Typed, Traffic
  <2>2. QED
    BY <1>4, <2>1
<1>9. \A new : Step(t, new) => tasks' = new
  BY <1>2 DEF Step
<1>10. QED
  BY <1>1, <1>2, <1>3, <1>4, <1>6, <1>7, <1>8, <1>9

(* What its steps leave as it is.                                           *)
LEMMA TaskRest ==
  ASSUME Typed, Peace, Calm, NEW t \in tasks, NEW new, Step(t, new), \A s, u \in new : s = u,
         UNCHANGED <<posting, room, load, members, online, users, connected, in, out,
                     announcing, lost>>,
         Len(wire') <= 1, \A m : ~Told("new", m)'
  PROVE  tasks' = new /\ Alone' /\ Panel' /\ Arriving' /\ Paging' /\ \A m : ~Coming(m)'
<1>1. /\ Alone /\ Resting /\ posting = {} /\ online = room /\ members = room /\ tasks' = new
      /\ load = NoLoad /\ out = <<>> /\ announcing = {}
  BY AtTask
<1>2. Resting'
  BY <1>1 DEF Resting
<1>3. Alone' /\ Panel' /\ Paging'
  BY <1>1, <1>2 DEF Alone, Panel, Paging
<1>4. \A m : ~Coming(m)'
  BY <1>1 DEF Coming
<1>5. Arriving'
  BY <1>1, <1>4 DEF Arriving
<1>6. QED
  BY <1>1, <1>3, <1>4, <1>5

(* A step that only moves it on.                                            *)
LEMMA TaskMoves ==
  ASSUME Typed, Peace, Calm, NEW t \in tasks, NEW new, Step(t, new), \A s, u \in new : s = u,
         \A s \in new : Doing(s)', t.step # "ok",
         UNCHANGED <<text, posting, room, list, hasMore, lastId, load, members, online, users,
                     connected, in, out, wire, announcing, lost>>,
         \A m \in Messages : /\ Asked("delete", m, {"read"}) => Asked("delete", m, {"read"})'
                             /\ Asked("edit", m, {"written", "read"}) =>
                                  Asked("edit", m, {"written", "read"})'
  PROVE  /\ Alone' /\ Signals' /\ Panel' /\ Doings' /\ Arriving' /\ Paging' /\ Listing'
<1>1. Listing /\ wire = <<>> /\ \A m : ~Coming(m)
  BY AtTask
<1>2. Signals' /\ (\A e, m : ~Told(e, m)') /\ (\A e, m : ~Told(e, m)) /\ Len(wire') = 0
  BY <1>1, NoWire
<1>3. tasks' = new /\ Alone' /\ Panel' /\ Arriving' /\ Paging' /\ \A m : ~Coming(m)'
  BY <1>2, TaskRest
<1>4. Doings'
  BY <1>3 DEF Doings
<1>5. Listing'
  BY <1>1, <1>2, ListingSame DEF Going, Changing
<1>6. QED
  BY <1>2, <1>3, <1>4, <1>5

LEMMA FindMessagePeace ==
  ASSUME Typed, Peace, NEW t \in tasks, FindMessage(t)
  PROVE  Peace'
<1> SUFFICES ASSUME Calm'
             PROVE  /\ Alone' /\ Signals' /\ Panel' /\ Doings' /\ Arriving' /\ Paging'
                    /\ (~Opening)' => Listing'
  BY DEF Peace
<1>1. PICK new : new = IF t.msg \in DOMAIN text THEN {[t EXCEPT !.step = "found"]} ELSE {}
  OBVIOUS
<1>2. /\ t.step = "sent" /\ Step(t, new) /\ Calm
      /\ UNCHANGED <<text, posting, room, list, hasMore, lastId, load, members, online, users,
                     connected, in, out, wire, announcing, lost>>
  BY <1>1 DEF FindMessage, Calm, table, hook, panel, socket, history
<1>3. tasks = {t} /\ Doing(t)
  BY <1>2, AtTask
<1>4. ASSUME NEW s \in new
      PROVE  s.step = "found" /\ s.op = t.op /\ s.msg = t.msg /\ s.here = t.here
  BY <1>1 DEF Typed, Work, Requests
<1>5. \A s \in new : Doing(s)'
  BY <1>2, <1>3, <1>4 DEF Doing
<1>6. \A m : ~Asked("delete", m, {"read"}) /\ ~Asked("edit", m, {"written", "read"})
  BY <1>2, <1>3 DEF Asked
<1>7. \A s, u \in new : s = u
  BY <1>1
<1>8. QED
  BY <1>2, <1>5, <1>6, <1>7, TaskMoves

(* It is read back as it was written: no other edit comes between.          *)
LEMMA ReadBackPeace ==
  ASSUME Typed, Peace, NEW t \in tasks, ReadBack(t)
  PROVE  Peace'
<1> SUFFICES ASSUME Calm'
             PROVE  /\ Alone' /\ Signals' /\ Panel' /\ Doings' /\ Arriving' /\ Paging'
                    /\ (~Opening)' => Listing'
  BY DEF Peace
<1>1. /\ t.step = "written" /\ Calm
      /\ Step(t, {IF t.msg \in DOMAIN text THEN [t EXCEPT !.step = "read", !.seen = text[t.msg]]
                  ELSE [t EXCEPT !.step = "ok"]})
      /\ UNCHANGED <<text, posting, room, list, hasMore, lastId, load, members, online, users,
                     connected, in, out, wire, announcing, lost>>
  BY DEF ReadBack, Calm, table, hook, panel, socket, history
<1>2. tasks = {t} /\ Doing(t)
  BY <1>1, AtTask
<1>3. t.op = "edit" /\ t.msg \in DOMAIN text /\ text[t.msg] = t.text
  BY <1>1, <1>2 DEF Doing, Typed, Work, Requests
<1>4. PICK s : s = [t EXCEPT !.step = "read", !.seen = text[t.msg]]
  OBVIOUS
<1>5. Step(t, {s})
  BY <1>1, <1>3, <1>4
<1>6. /\ s.step = "read" /\ s.op = t.op /\ s.msg = t.msg /\ s.here = t.here /\ s.text = t.text
      /\ s.seen = t.text
  BY <1>3, <1>4 DEF Typed, Work, Requests
<1>7. Doing(s)'
  BY <1>1, <1>2, <1>3, <1>6 DEF Doing
<1>8. tasks' = {s}
  BY <1>1, <1>5, AtTask
<1>9. \A m : /\ ~Asked("delete", m, {"read"})
             /\ Asked("edit", m, {"written", "read"}) => m = t.msg
             /\ Asked("edit", t.msg, {"written", "read"})'
  BY <1>2, <1>3, <1>6, <1>8 DEF Asked
<1>10. \A u, v \in {s} : u = v
  OBVIOUS
<1>11. \A u \in {s} : Doing(u)'
  BY <1>7
<1>12. QED
  BY <1>1, <1>5, <1>9, <1>10, <1>11, TaskMoves

(* The row is written: the list is to follow.                               *)
LEMMA WritePeace ==
  ASSUME Typed, Peace, NEW t \in tasks, Write(t)
  PROVE  Peace'
<1> SUFFICES ASSUME Calm'
             PROVE  /\ Alone' /\ Signals' /\ Panel' /\ Doings' /\ Arriving' /\ Paging'
                    /\ (~Opening)' => Listing'
  BY DEF Peace
<1>1. /\ t.step = "found" /\ Calm
      /\ UNCHANGED <<top, posting, room, list, hasMore, lastId, load, members, online, users,
                     connected, in, out, wire, announcing, lost>>
  BY DEF Write, Calm, hook, panel, socket, history
<1>2. /\ tasks = {t} /\ Doing(t) /\ Listing /\ wire = <<>> /\ \A m : ~Coming(m)
  BY <1>1, AtTask
<1>3. Signals' /\ (\A e, m : ~Told(e, m)') /\ (\A e, m : ~Told(e, m)) /\ Len(wire') = 0
  BY <1>1, <1>2, NoWire
<1>4. \A m : ~Going(m) /\ ~Changing(m)
  BY <1>1, <1>2, <1>3 DEF Going, Changing, Asked
<1>5. /\ DOMAIN text \subseteq Messages /\ list \in Seq(Items)
      /\ Ids = {list[k].id : k \in 1 .. Len(list)} /\ Ids' = Ids
  BY <1>1, Constants, IdsAre DEF Typed, Rows, Hooks, Ids
<1>6. ASSUME NEW k \in 1 .. Len(list)
      PROVE  RoomOf[list[k].id] = room /\ list[k].id \in DOMAIN text /\ list[k].text = text[list[k].id]
  BY <1>2, <1>4 DEF Listing, Entry
<1>7. CASE t.msg \notin DOMAIN text
  <2>1. Step(t, {}) /\ text' = text
    BY <1>7 DEF Write
  <2>2. \A m : ~Asked("delete", m, {"read"}) /\ ~Asked("edit", m, {"written", "read"})
    BY <1>1, <1>2 DEF Asked
  <2>3. QED
    BY <1>1, <2>1, <2>2, TaskMoves
<1>8. ASSUME t.msg \in DOMAIN text, NEW s, Step(t, {s}), DOMAIN text' \subseteq DOMAIN text,
             \A m \in DOMAIN text' : m # t.msg => text'[m] = text[m],
             \A m \in DOMAIN text : m = t.msg \/ m \in DOMAIN text', Doing(s)',
             (Changing(t.msg)' /\ t.msg \in DOMAIN text') \/ Going(t.msg)'
      PROVE  Peace'
  <2>1. /\ Alone' /\ Panel' /\ Arriving' /\ Paging' /\ tasks' = {s}
    <3>1. \A u, v \in {s} : u = v
      OBVIOUS
    <3>2. QED
      BY <1>1, <1>3, <1>8, <3>1, TaskRest
  <2>2. Doings'
    BY <1>8, <2>1 DEF Doings
  <2>3. ASSUME NEW k \in 1 .. Len(list) PROVE Entry(list[k])'
    <3>1. PICK i : i = list[k]
      OBVIOUS
    <3>2. RoomOf[i.id] = room /\ i.id \in DOMAIN text /\ i.text = text[i.id]
      BY <1>6, <3>1
    <3>3. CASE i.id = t.msg
      BY <1>1, <1>8, <3>1, <3>2, <3>3 DEF Entry
    <3>4. CASE i.id # t.msg
      BY <1>1, <1>8, <3>1, <3>2, <3>4 DEF Entry
    <3>5. QED
      BY <3>3, <3>4
  <2>4. RowsOf(room)' \subseteq RowsOf(room)
    BY <1>1, <1>8 DEF RowsOf
  <2>5. Ascending(list)' <=> Ascending(list)
    BY <1>1 DEF Ascending
  <2>6. Listing'
    BY <1>1, <1>2, <1>5, <2>3, <2>4, <2>5 DEF Listing
  <2>7. QED
    BY <1>3, <2>1, <2>2, <2>6 DEF Peace
<1>9. CASE t.msg \in DOMAIN text /\ t.op = "edit"
  <2>1. PICK s : s = [t EXCEPT !.step = "written"]
    OBVIOUS
  <2>2. Step(t, {s}) /\ text' = [text EXCEPT ![t.msg] = t.text]
    BY <1>9, <2>1 DEF Write
  <2>3. s.step = "written" /\ s.op = "edit" /\ s.msg = t.msg /\ s.text = t.text /\ s.here = t.here
    BY <1>9, <2>1 DEF Typed, Work, Requests
  <2>4. /\ DOMAIN text' = DOMAIN text /\ text'[t.msg] = t.text
        /\ \A m \in DOMAIN text : m # t.msg => text'[m] = text[m]
    BY <1>9, <2>2
  <2>5. Doing(s)'
    BY <1>1, <1>2, <1>9, <2>3, <2>4 DEF Doing
  <2>6. tasks' = {s}
    BY <1>1, <2>2, AtTask
  <2>7. Changing(t.msg)'
    BY <2>3, <2>6 DEF Changing, Asked
  <2>8. QED
    BY <1>8, <1>9, <2>2, <2>4, <2>5, <2>7 DEF Peace
<1>10. CASE t.msg \in DOMAIN text /\ t.op # "edit"
  <2>1. PICK s : s = [t EXCEPT !.step = "read"]
    OBVIOUS
  <2>2. Step(t, {s}) /\ text' = Restrict(text, DOMAIN text \ {t.msg})
    BY <1>10, <2>1 DEF Write
  <2>3. s.step = "read" /\ s.op = "delete" /\ s.msg = t.msg /\ s.here = t.here
    BY <1>10, <2>1 DEF Typed, Work, Requests
  <2>4. /\ DOMAIN text' = DOMAIN text \ {t.msg}
        /\ \A m \in DOMAIN text' : text'[m] = text[m]
    BY <2>2 DEF Restrict
  <2>5. Doing(s)'
    BY <1>1, <1>2, <1>10, <2>3, <2>4 DEF Doing
  <2>6. tasks' = {s}
    BY <1>1, <2>2, AtTask
  <2>7. Going(t.msg)'
    BY <2>3, <2>6 DEF Going, Asked
  <2>8. QED
    BY <1>8, <1>10, <2>2, <2>4, <2>5, <2>7 DEF Peace
<1>11. QED
  BY <1>7, <1>9, <1>10 DEF Peace

(* Those in the room are told.                                              *)
LEMMA EmitChangePeace ==
  ASSUME Typed, Heading, Peace, NEW t \in tasks, EmitChange(t)
  PROVE  Peace'
<1> SUFFICES ASSUME Calm'
             PROVE  /\ Alone' /\ Signals' /\ Panel' /\ Doings' /\ Arriving' /\ Paging'
                    /\ (~Opening)' => Listing'
  BY DEF Peace
<1> DEFINE e == Event(IF t.op = "edit" THEN "edited" ELSE "deleted", t.msg, t.seen)
<1>1. /\ t.step = "read" /\ Calm /\ Step(t, {[t EXCEPT !.step = "ok"]})
      /\ wire' = Emit(RoomOf[t.msg], e)
      /\ UNCHANGED <<text, top, posting, room, list, hasMore, lastId, load, members, online, users,
                     connected, in, out, announcing, lost>>
  BY DEF EmitChange, Calm, table, hook, panel, history
<1>2. /\ Alone /\ tasks = {t} /\ Doing(t) /\ Listing /\ Resting /\ out = <<>> /\ wire = <<>>
      /\ \A m : ~Coming(m)
  BY <1>1, AtTask
<1>3. PICK s : s = [t EXCEPT !.step = "ok"]
  OBVIOUS
<1>4. /\ s.step = "ok" /\ s.op = t.op /\ s.msg = t.msg /\ s.here = t.here /\ s.text = t.text
      /\ t.op \in {"edit", "delete"}
  BY <1>3 DEF Typed, Work, Requests
<1>5. tasks' = {s}
  BY <1>1, <1>2, <1>3, AtTask
<1>6. /\ t.op = "edit" => e.event = "edited" /\ t.msg \in DOMAIN text /\ e.text = text[t.msg]
      /\ t.op = "delete" => e.event = "deleted" /\ t.msg \notin DOMAIN text
      /\ e.id = t.msg
  BY <1>1, <1>2, EventIs DEF Doing
<1> HIDE DEF e
<1>7. wire' = IF RoomOf[t.msg] = room THEN <<e>> ELSE <<>>
  BY <1>1, <1>2, EmitIs
<1>8. Resting'
  BY <1>1, <1>2 DEF Resting
<1>9. /\ Signals' /\ Len(wire') <= 1
      /\ \A x, m : Told(x, m)' <=> (e.event = x /\ m = t.msg /\ RoomOf[t.msg] = room)
  <2>1. CASE RoomOf[t.msg] = room
    <3>1. Signal(e)'
      BY <1>1, <1>4, <1>5, <1>6, <1>8, <2>1 DEF Signal
    <3>2. wire' = <<e>>
      BY <1>7, <2>1
    <3>3. /\ Signals' /\ Len(wire') <= 1
          /\ \A x, m : Told(x, m)' <=> (e.event = x /\ e.id = m)
      BY <3>1, <3>2, OneSignal
    <3>4. QED
      BY <1>6, <2>1, <3>3
  <2>2. CASE RoomOf[t.msg] # room
    <3>1. wire' = <<>> /\ Len(<<>>) = 0
      BY <1>7, <2>2
    <3>2. QED
      BY <2>2, <3>1, NoWire
  <2>3. QED
    BY <2>1, <2>2
<1>10. \A m : ~Told("new", m)'
  BY <1>4, <1>6, <1>9
<1>11. Alone' /\ Panel' /\ Arriving' /\ Paging'
  <2>1. \A u, v \in {s} : u = v
    OBVIOUS
  <2>2. Step(t, {s})
    BY <1>1, <1>3
  <2>3. QED
    BY <1>1, <1>9, <1>10, <2>1, <2>2, TaskRest
<1>12. Doings'
  <2>1. Doing(s)'
    BY <1>1, <1>2, <1>4, <1>6 DEF Doing
  <2>2. QED
    BY <1>5, <2>1 DEF Doings
<1>13. \A x, m : ~Told(x, m)
  BY <1>2, NoWire
<1>14. \A m : RoomOf[m] = room => (Going(m) => Going(m)') /\ (Changing(m) => Changing(m)')
  BY <1>1, <1>2, <1>6, <1>9, <1>13 DEF Going, Changing, Asked
<1>15. ASSUME NEW k \in 1 .. Len(list) PROVE Entry(list[k])'
  <2>1. PICK i : i = list[k]
    OBVIOUS
  <2>2. Entry(i)
    BY <1>2, <2>1 DEF Listing
  <2>3. QED
    BY <1>1, <1>14, <2>1, <2>2 DEF Entry
<1>16. Listing'
  <2>1. RowsOf(room)' = RowsOf(room) /\ Ids' = Ids /\ (Ascending(list)' <=> Ascending(list))
    BY <1>1 DEF RowsOf, Ids, Ascending
  <2>2. QED
    BY <1>1, <1>2, <1>15, <2>1 DEF Listing
<1>17. QED
  BY <1>9, <1>11, <1>12, <1>16

(* The list after an edit, or a deletion, has come to it.                   *)
LEMMA ShowsEdit ==
  ASSUME Typed, Listing, NEW n \in DOMAIN text, list' = UpdateMessage(n, text[n]),
         UNCHANGED <<text, room, hasMore, lastId>>,
         \A m : m # n => (Going(m) => Going(m)') /\ (Changing(m) => Changing(m)'),
         \A m : ~Coming(m)
  PROVE  Listing'
<1>1. /\ list \in Seq(Items) /\ n \in Messages /\ text[n] \in Texts
      /\ \A i \in Items : i.id \in Messages
  BY Constants DEF Typed, Rows, Hooks, Items
<1>2. /\ list' \in Seq(Items) /\ Len(list') = Len(list)
      /\ \A k \in 1 .. Len(list) :
           list'[k].id = list[k].id /\ list'[k].text = IF list[k].id = n THEN text[n] ELSE list[k].text
  BY <1>1, UpdateIs
<1>3. ASSUME NEW k \in 1 .. Len(list') PROVE Entry(list[k])'
  <2>1. PICK i, j : i = list'[k] /\ j = list[k]
    OBVIOUS
  <2>2. Entry(j) /\ i.id = j.id /\ i.text = IF j.id = n THEN text[n] ELSE j.text
    BY <1>2, <2>1 DEF Listing
  <2>3. Entry(i)'
    <3>1. CASE j.id = n
      BY <2>2, <3>1 DEF Entry
    <3>2. CASE j.id # n
      BY <2>2, <3>2 DEF Entry
    <3>3. QED
      BY <3>1, <3>2
  <2>4. QED
    BY <2>1, <2>3 DEF Entry
<1>4. Ids' = Ids /\ RowsOf(room)' = RowsOf(room)
  <2>1. Ids = {list[k].id : k \in 1 .. Len(list)} /\ Ids' = {list'[k].id : k \in 1 .. Len(list')}
    BY <1>1, <1>2, IdsAre
  <2>2. Ids' = Ids
    BY <1>2, <2>1
  <2>3. QED
    BY <2>2 DEF RowsOf
<1>5. Ascending(list) => Ascending(list')
  BY <1>2 DEF Ascending
<1>6. Ascending(list)' <=> Ascending(list')
  BY DEF Ascending
<1>7. QED
  BY <1>3, <1>4, <1>5, <1>6 DEF Listing

Without(l, o, m) ==
  /\ o \in Seq(Items) /\ Len(o) \in Nat
  /\ \A i \in 1 .. Len(o) : o[i].id # m /\ \E k \in 1 .. Len(l) : l[k] = o[i]
  /\ \A k \in 1 .. Len(l) : l[k].id # m => \E i \in 1 .. Len(o) : o[i] = l[k]
  /\ \A i, j \in 1 .. Len(o) : i < j =>
       \E a, k \in 1 .. Len(l) : a < k /\ l[a] = o[i] /\ l[k] = o[j]

LEMMA ShowsDeletion ==
  ASSUME Typed, Listing, NEW n \in Messages, n \notin DOMAIN text, list' = DeleteMessage(n),
         UNCHANGED <<text, room, hasMore, lastId>>,
         \A m : m # n => (Going(m) => Going(m)') /\ (Changing(m) => Changing(m)'),
         \A m : ~Coming(m)
  PROVE  Listing'
<1>1. /\ list \in Seq(Items) /\ \A k \in 1 .. Len(list) : list[k].id \in Nat
  <2>1. \A i \in Items : i.id \in Nat
    BY Constants DEF Items
  <2>2. QED
    BY <2>1 DEF Typed, Hooks
<1>2. /\ list' \in Seq(Items) /\ Len(list') \in Nat
      /\ \A i \in 1 .. Len(list') : list'[i].id # n /\ \E k \in 1 .. Len(list) : list[k] = list'[i]
      /\ \A k \in 1 .. Len(list) : list[k].id # n => \E i \in 1 .. Len(list') : list'[i] = list[k]
      /\ \A i, j \in 1 .. Len(list') : i < j =>
           \E l, k \in 1 .. Len(list) : l < k /\ list[l] = list'[i] /\ list[k] = list'[j]
  <2>1. Without(list, DeleteMessage(n), n)
    <3>1. list \in Seq(Items)
      BY <1>1
    <3>2. QED
      BY <3>1, DeleteIs, Zenon DEF Without
  <2>2. list' = DeleteMessage(n)
    OBVIOUS
  <2>3. Without(list, list', n)
    BY <2>1, <2>2
  <2>4. QED
    BY <2>3, Zenon DEF Without
<1>3. ASSUME NEW k \in 1 .. Len(list') PROVE Entry(list[k])'
  <2>1. PICK i : i = list'[k]
    OBVIOUS
  <2>2. Entry(i) /\ i.id # n
    BY <1>2, <2>1 DEF Listing
  <2>3. Entry(i)'
    BY <2>2 DEF Entry
  <2>4. QED
    BY <2>1, <2>3 DEF Entry
<1>4. /\ Ids = {list[k].id : k \in 1 .. Len(list)} /\ Ids' = {list'[k].id : k \in 1 .. Len(list')}
      /\ RowsOf(room)' = RowsOf(room)
  BY <1>1, <1>2, IdsAre DEF RowsOf
<1>5. Ids' \subseteq Ids
  BY <1>2, <1>4
<1>6. \A i \in Ids : i # n => i \in Ids'
  BY <1>2, <1>4
<1>7. \A m \in RowsOf(room) : m # n
  BY DEF RowsOf
<1>8. Ascending(list) => Ascending(list)'
  <2>1. ASSUME Ascending(list), NEW j \in 1 .. Len(list'), NEW k \in 1 .. Len(list'), j < k
        PROVE  list'[j].id < list'[k].id
    <3>1. PICK a \in 1 .. Len(list), b \in 1 .. Len(list) :
            a < b /\ list[a] = list'[j] /\ list[b] = list'[k]
      BY <1>2, <2>1
    <3>2. QED
      BY <2>1, <3>1 DEF Ascending
  <2>2. QED
    BY <2>1 DEF Ascending
<1>9. QED
  BY <1>3, <1>4, <1>5, <1>6, <1>7, <1>8 DEF Listing

(* The author's page takes the answer, before or after the event.           *)
LEMMA AnsweredPeace ==
  ASSUME Typed, Peace, NEW t \in tasks, Answered(t)
  PROVE  Peace'
<1> SUFFICES ASSUME Calm'
             PROVE  /\ Alone' /\ Signals' /\ Panel' /\ Doings' /\ Arriving' /\ Paging'
                    /\ (~Opening)' => Listing'
  BY DEF Peace
<1>1. /\ t.step = "ok" /\ Calm /\ Step(t, {})
      /\ list' = CASE ~t.here -> list
                   [] t.here /\ t.op = "edit" -> UpdateMessage(t.msg, t.text)
                   [] t.here /\ t.op = "delete" -> DeleteMessage(t.msg)
      /\ UNCHANGED <<text, top, posting, room, hasMore, lastId, load, members, online, users,
                     connected, in, out, wire, announcing, lost>>
  BY DEF Answered, Calm, table, panel, socket, history
<1>2. /\ Alone /\ Signals /\ tasks = {t} /\ Doing(t) /\ Listing /\ Resting
      /\ tasks' = {} /\ \A m : ~Coming(m)
      /\ \A k \in 1 .. Len(wire) : wire[k].event \in {"edited", "deleted"}
  BY <1>1, AtTask
<1>3. /\ t.op \in {"edit", "delete"} /\ t.here \in BOOLEAN /\ t.msg \in Messages
      /\ list \in Seq(Items)
  BY DEF Typed, Work, Requests, Hooks
<1>4. \A x, m : Told(x, m)' = Told(x, m)
  BY <1>1 DEF Told
<1>5. \A m : ~Told("new", m)'
  BY <1>2, <1>4 DEF Told
<1>6. Alone' /\ Panel' /\ Arriving' /\ Paging'
  <2>1. Len(wire') <= 1
    BY <1>1, <1>2 DEF Alone
  <2>2. QED
    BY <1>1, <1>5, <2>1, TaskRest
<1>7. Signals' /\ Doings'
  <2>1. Resting'
    BY <1>1, <1>2 DEF Resting
  <2>2. QED
    BY <1>1, <1>2, <2>1, SignalsSame, NoTasks
<1>8. \A m : (Going(m) => Going(m)') /\ (Changing(m) => Changing(m)')
  BY <1>1, <1>2, <1>4 DEF Going, Changing, Asked
<1>9. CASE ~t.here
  <2>1. list' = list
    BY <1>1, <1>9
  <2>2. Listing'
    BY <1>1, <1>2, <1>8, <2>1, ListingSame
  <2>3. QED
    BY <1>6, <1>7, <2>2
<1>10. CASE t.here /\ t.op = "edit"
  <2>1. t.msg \in DOMAIN text /\ list' = UpdateMessage(t.msg, text[t.msg])
    BY <1>1, <1>2, <1>10 DEF Doing
  <2>2. Listing'
    BY <1>1, <1>2, <1>8, <2>1, ShowsEdit
  <2>3. QED
    BY <1>6, <1>7, <2>2
<1>11. CASE t.here /\ t.op = "delete"
  <2>1. t.msg \notin DOMAIN text /\ list' = DeleteMessage(t.msg)
    BY <1>1, <1>2, <1>11 DEF Doing
  <2>2. Listing'
    BY <1>1, <1>2, <1>3, <1>8, <2>1, ShowsDeletion
  <2>3. QED
    BY <1>6, <1>7, <2>2
<1>12. QED
  BY <1>3, <1>9, <1>10, <1>11

(* An event reaches the page.                                               *)
LEMMA ReceivePeace ==
  ASSUME Typed, Typed', Peace, Receive
  PROVE  Peace'
<1> SUFFICES ASSUME Calm'
             PROVE  /\ Alone' /\ Signals' /\ Panel' /\ Doings' /\ Arriving' /\ Paging'
                    /\ (~Opening)' => Listing'
  BY DEF Peace
<1>1. PICK e : e = Head(wire)
  OBVIOUS
<1>2. /\ wire \in Seq(Events) /\ wire # <<>> /\ wire' = Tail(wire) /\ e \in Events
      /\ list' = IF room = None \/ e.event \in {"online", "typing"} THEN list
                 ELSE IF e.event = "new" THEN AddMessage(e.id)
                 ELSE IF e.event = "edited" THEN UpdateMessage(e.id, e.text)
                 ELSE DeleteMessage(e.id)
      /\ online' = IF room # None /\ e.event = "online" THEN e.id ELSE online
      /\ UNCHANGED <<text, top, tasks, posting, room, hasMore, lastId, load, members,
                     users, connected, in, out, announcing, disturbed, lost>>
  BY <1>1, ReceiveIs DEF table, history
<1>3. /\ Alone /\ Signals /\ Panel /\ Doings /\ Arriving /\ Paging /\ (~Opening => Listing)
      /\ room # None
  BY <1>2 DEF Peace, Calm
<1>4. Len(wire) = 1 /\ wire[1] = e /\ wire' = <<>>
  <2>1. Len(wire) \in Nat \ {0} /\ wire[1] = e /\ wire' \in Seq(Events) /\ Len(wire') = Len(wire) - 1
    BY <1>1, <1>2, EmptySeq, HeadTailProperties
  <2>2. Len(wire) = 1
    BY <1>3, <2>1 DEF Alone
  <2>3. QED
    BY <2>1, <2>2, EmptySeq
<1>5. Signal(e) /\ \A x, m : Told(x, m) <=> (e.event = x /\ e.id = m)
  <2>1. \A k \in 1 .. Len(wire) : wire[k] = e
    BY <1>4
  <2>2. 1 \in 1 .. Len(wire)
    BY <1>4
  <2>3. QED
    BY <1>3, <1>4, <2>1, <2>2 DEF Signals, Told
<1>6. posting = {} /\ Signals' /\ Doings' /\ (\A x, m : ~Told(x, m)')
  <2>1. posting = {}
    BY <1>2, <1>3 DEF Alone
  <2>2. QED
    BY <1>2, <1>3, <1>4, <2>1, NoWire, DoingsSame
<1>7. Resting' = Resting
  BY <1>2 DEF Resting
<1>8. Alone'
  <2>1. Len(<<>>) = 0
    OBVIOUS
  <2>2. Len(wire') <= 1 /\ wire' = <<>>
    BY <1>4, <2>1
  <2>3. UNCHANGED <<tasks, posting, room, users, connected, out, announcing, lost>>
    BY <1>2
  <2>4. QED
    BY <1>3, <1>7, <2>2, <2>3 DEF Alone
<1>9. Panel'
  <2>1. Told("online", room) => e.event = "online" /\ e.id = room
    BY <1>5
  <2>2. e.event = "online" => e.id = room
    BY <1>5 DEF Signal
  <2>3. QED
    BY <1>2, <1>3, <2>1, <2>2 DEF Panel
<1>10. Arriving'
  <2>1. \A m : ~Coming(m)'
    BY <1>2, <1>6 DEF Coming
  <2>2. QED
    BY <1>2, <1>6, <2>1 DEF Arriving
<1>11. Paging'
  <2>1. CASE e.event = "online"
    BY <1>2, <1>3, <2>1, PagingSame
  <2>2. CASE e.event # "online"
    BY <1>2, <1>5, <2>2 DEF Signal, Resting, Paging
  <2>3. QED
    BY <2>1, <2>2
<1>12. e.event \in {"edited", "deleted"} \/ tasks = {}
  BY <1>5 DEF Signal
<1>13. \A t \in tasks : t.step = "ok"
  BY <1>5 DEF Signal
<1>14. \A op, m : ~Asked(op, m, {"read"}) /\ ~Asked(op, m, {"written", "read"})
  BY <1>13 DEF Asked
<1>15. \A m : /\ Going(m) <=> e.event = "deleted" /\ e.id = m
              /\ Changing(m) <=> e.event = "edited" /\ e.id = m
              /\ Coming(m) <=> e.event = "new" /\ e.id = m
  BY <1>5, <1>6, <1>14 DEF Going, Changing, Coming
<1>16. CASE e.event \in {"online", "typing"}
  <2>1. list' = list /\ Opening' = Opening
    BY <1>2, <1>16 DEF Opening
  <2>2. \A m : ~Going(m) /\ ~Changing(m) /\ ~Coming(m)
    BY <1>15, <1>16
  <2>3. (~Opening)' => Listing'
    BY <1>2, <1>3, <2>1, <2>2, ListingSame
  <2>4. QED
    BY <1>6, <1>8, <1>9, <1>10, <1>11, <2>3
<1>17. CASE e.event \in {"new", "edited", "deleted"}
  <2>1. Resting /\ Listing /\ RoomOf[e.id] = room /\ e.id \in Messages
    BY <1>2, <1>3, <1>5, <1>17, EventIs DEF Signal, Resting, Opening
  <2>2. CASE e.event = "edited"
    <3>1. e.id \in DOMAIN text /\ e.text = text[e.id] /\ list' = UpdateMessage(e.id, e.text)
      BY <1>2, <1>3, <1>5, <2>2 DEF Signal
    <3>2. Listing'
      BY <1>2, <1>15, <2>1, <2>2, <3>1, ShowsEdit
    <3>3. QED
      BY <1>6, <1>8, <1>9, <1>10, <1>11, <3>2
  <2>3. CASE e.event = "deleted"
    <3>1. e.id \notin DOMAIN text /\ list' = DeleteMessage(e.id)
      BY <1>2, <1>3, <1>5, <2>3 DEF Signal
    <3>2. Listing'
      BY <1>2, <1>15, <2>1, <2>3, <3>1, ShowsDeletion
    <3>3. QED
      BY <1>6, <1>8, <1>9, <1>10, <1>11, <3>2
  <2>4. CASE e.event = "new"
    <3>1. PICK n : n = e.id
      OBVIOUS
    <3>2. /\ n \in DOMAIN text /\ text[n] = 0 /\ RoomOf[n] = room /\ n \in Messages
          /\ list' = AddMessage(n)
      BY <1>2, <1>3, <1>5, <2>1, <2>4, <3>1 DEF Signal
    <3>3. list \in Seq(Items) /\ Ids \subseteq Messages /\ list' \in Seq(Items)
      BY IdsAre DEF Typed, Hooks
    <3>4. /\ Len(list') = Len(list) + 1 /\ Len(list) \in Nat
          /\ list'[Len(list) + 1].id = n /\ list'[Len(list) + 1].text = 0
          /\ \A k \in 1 .. Len(list) : list'[k] = list[k]
      <4> DEFINE o == AddMessage(n)
      <4>1. /\ Len(o) = Len(list) + 1 /\ Len(list) \in Nat
            /\ o[Len(list) + 1] = [id |-> n, text |-> 0]
            /\ \A k \in 1 .. Len(list) : o[k] = list[k]
        BY <3>2, <3>3, AddIs
      <4>2. list' = o
        BY <3>2
      <4> HIDE DEF o
      <4>3. QED
        BY <4>1, <4>2
    <3>5. Ids = {list[k].id : k \in 1 .. Len(list)} /\ Ids' = Ids \union {n}
      <4>1. Ids = {list[k].id : k \in 1 .. Len(list)} /\ Ids' = {list'[k].id : k \in 1 .. Len(list')}
        BY <3>3, IdsAre
      <4>2. 1 .. Len(list') = (1 .. Len(list)) \union {Len(list) + 1}
        BY <3>4
      <4>3. QED
        BY <3>4, <4>1, <4>2
    <3>6. lastId < n /\ \A i \in Ids : i < n
      BY <1>3, <1>15, <2>4, <3>1, <3>2 DEF Arriving
    <3>7. \A m : ~Going(m) /\ ~Changing(m) /\ (Coming(m) <=> m = n)
      BY <1>15, <2>4, <3>1
    <3>8. ASSUME NEW k \in 1 .. Len(list') PROVE Entry(list[k])'
      <4>1. PICK i : i = list'[k]
        OBVIOUS
      <4>2. RoomOf[i.id] = room /\ i.id \in DOMAIN text /\ i.text = text[i.id]
        <5>1. CASE k \in 1 .. Len(list)
          BY <2>1, <3>4, <3>7, <4>1, <5>1 DEF Listing, Entry
        <5>2. CASE k = Len(list) + 1
          BY <3>2, <3>4, <4>1, <5>2
        <5>3. QED
          BY <3>4, <5>1, <5>2
      <4>3. QED
        BY <1>2, <4>1, <4>2 DEF Entry
    <3>9. RowsOf(room)' = RowsOf(room)
      BY <1>2 DEF RowsOf
    <3>10. Ascending(list) => Ascending(list)'
      <4>1. ASSUME Ascending(list), NEW j \in 1 .. Len(list'), NEW k \in 1 .. Len(list'), j < k
            PROVE  list'[j].id < list'[k].id
        <5>1. j \in 1 .. Len(list) /\ list'[j].id \in Ids
          BY <3>4, <3>5, <4>1
        <5>2. CASE k \in 1 .. Len(list)
          BY <3>4, <4>1, <5>1, <5>2 DEF Ascending
        <5>3. CASE k = Len(list) + 1
          BY <3>4, <3>6, <5>1, <5>3
        <5>4. QED
          BY <3>4, <5>2, <5>3
      <4>2. QED
        BY <4>1 DEF Ascending
    <3>11. lastId \in Nat /\ n \in Nat
      BY <3>2, Constants DEF Typed, Hooks
    <3>12. Chronological =>
             /\ hasMore => \A i \in Ids \union {n} : lastId <= i
             /\ \A m \in RowsOf(room) : (hasMore /\ m < lastId) \/ m \in Ids \union {n}
      BY <2>1, <3>6, <3>7, <3>11 DEF Listing
    <3>13. Listing'
      BY <1>2, <2>1, <3>5, <3>8, <3>9, <3>10, <3>12 DEF Listing
    <3>14. QED
      BY <1>6, <1>8, <1>9, <1>10, <1>11, <3>13
  <2>5. QED
    BY <1>17, <2>2, <2>3, <2>4
<1>18. QED
  BY <1>2, <1>16, <1>17, EventIs

LEMMA PeaceNext == Typed /\ Typed' /\ Heading /\ Heading' /\ Peace /\ [Next]_vars => Peace'
<1> SUFFICES ASSUME Typed, Typed', Heading, Heading', Peace, [Next]_vars PROVE Peace'
  OBVIOUS
<1>1. ASSUME Fault PROVE Peace'
  BY <1>1 DEF Fault, Peace, Calm
<1>2. CASE Progress
  <2>1. CASE Purge
    BY <2>1, PeaceSame DEF Purge, history
  <2>2. CASE Reconnect
    BY <2>2 DEF Reconnect, Peace, Calm, Alone, history, hook
  <2>3. ASSUME NEW t \in tasks, Task(t) PROVE Peace'
    BY <2>3, FindMessagePeace, WritePeace, ReadBackPeace, EmitChangePeace, AnsweredPeace DEF Task
  <2>4. QED
    BY <1>2, <2>1, <2>2, <2>3, FindPeace, LoadedPeace, HandlePeace, ReceivePeace, UsersPeace,
       OnlinePeace, NewMessagePeace DEF Progress
<1>3. CASE Close
  BY <1>3 DEF Close, Peace, Calm
<1>4. CASE LoadFailed
  BY <1>1, <1>4 DEF LoadFailed
<1>5. CASE Disconnect
  BY <1>1, <1>5 DEF Disconnect
<1>6. ASSUME NEW r \in Rooms, UsersFailed(r) PROVE Peace'
  BY <1>1, <1>6 DEF UsersFailed
<1>7. ASSUME NEW t \in tasks, TaskFailed(t) PROVE Peace'
  BY <1>1, <1>7 DEF TaskFailed
<1>8. CASE UNCHANGED vars
  BY <1>8, PeaceSame DEF vars, panel
<1>9. QED
  BY <1>2, <1>3, <1>4, <1>5, <1>6, <1>7, <1>8, OpenPeace, ScrollPeace, PostPeace, TypingPeace,
     AskPeace DEF Next

LEMMA PeaceAlways == Spec => []Peace
<1>1. Init => Peace
  BY PeaceInit
<1>2. Typed /\ Typed' /\ Heading /\ Heading' /\ Peace /\ [Next]_vars => Peace'
  BY PeaceNext
<1>3. QED
  BY <1>1, <1>2, TypedAlways, HeadingAlways, PTL DEF Spec

LEMMA QuietIs ==
  ASSUME Typed, Peace, Quiet
  PROVE  /\ Listing /\ online = room /\ members = room
         /\ \A m : ~Coming(m) /\ ~Going(m) /\ ~Changing(m)
  BY FromRest DEF Quiet, Calm

(* The panel beside an open room (use-chat-users): once nothing is under    *)
(* way, and nothing came between, the members and the online users it shows *)
(* are those of that room, whatever rooms were open before.                 *)
THEOREM PanelIsOfRoom == Spec => []PanelShows
<1>1. Typed /\ Peace => PanelShows
  BY QuietIs DEF PanelShows
<1>2. QED
  BY <1>1, TypedAlways, PeaceAlways, PTL

(* The list of an open room (use-chat-messages and the handlers of          *)
(* use-chat-socket): once nothing is under way, and nothing came between,   *)
(* it shows the stored messages of that room with their stored texts; and,  *)
(* if ids are in the order of creation, each once, in order, from some      *)
(* message on without a gap, and all of them when there is no more to load. *)
THEOREM ListIsOfRoom == Spec => []ListShows
<1>1. ASSUME Typed, Peace, Quiet
      PROVE  /\ \A k \in DOMAIN list : /\ list[k].id \in RowsOf(room)
                                       /\ list[k].text = text[list[k].id]
             /\ Chronological =>
                  /\ \A j, k \in DOMAIN list : j < k => list[j].id < list[k].id
                  /\ \A m \in RowsOf(room) : m >= FirstOr(list, MaxMessages + 1) => m \in Ids
                  /\ ~hasMore => Ids = RowsOf(room)
  <2>1. /\ Listing /\ \A m : ~Coming(m) /\ ~Going(m) /\ ~Changing(m)
    BY <1>1, QuietIs
  <2>2. /\ list \in Seq(Items) /\ DOMAIN list = 1 .. Len(list) /\ hasMore \in BOOLEAN
        /\ Ids = {list[k].id : k \in 1 .. Len(list)}
        /\ lastId \in Nat /\ RowsOf(room) \subseteq Messages
    BY <1>1, IdsAre, Constants DEF Typed, Rows, Hooks, RowsOf
  <2>3. ASSUME NEW k \in 1 .. Len(list)
        PROVE  list[k].id \in RowsOf(room) /\ list[k].text = text[list[k].id]
    BY <2>1 DEF Listing, Entry, RowsOf
  <2>4. ASSUME Chronological
        PROVE  /\ \A j, k \in 1 .. Len(list) : j < k => list[j].id < list[k].id
               /\ \A m \in RowsOf(room) : m >= FirstOr(list, MaxMessages + 1) => m \in Ids
               /\ ~hasMore => Ids = RowsOf(room)
    <3>1. /\ Ascending(list) /\ (hasMore => \A i \in Ids : lastId <= i)
          /\ \A m \in RowsOf(room) : (hasMore /\ m < lastId) \/ m \in Ids
      BY <2>1, <2>4 DEF Listing
    <3>2. ASSUME NEW m \in RowsOf(room), m >= FirstOr(list, MaxMessages + 1) PROVE m \in Ids
      <4>1. list # <<>>
        BY <1>1, <2>2, <3>2, FirstIs, Constants DEF Messages
      <4>2. m >= list[1].id /\ 1 \in 1 .. Len(list) /\ list[1].id \in Ids /\ list[1].id \in Nat
        BY <2>2, <3>2, <4>1, FirstIs, Constants
      <4>3. PICK x \in Ids : x = list[1].id
        BY <4>2
      <4>4. m \in Nat /\ x \in Nat /\ m >= x /\ (hasMore => lastId <= x)
        BY <2>2, <3>1, <4>2, <4>3, Constants
      <4>5. ~(hasMore /\ m < lastId)
        BY <2>2, <4>4
      <4>6. QED
        BY <3>1, <4>5
    <3>3. ~hasMore => Ids = RowsOf(room)
      BY <2>2, <2>3, <3>1
    <3>4. QED
      BY <3>1, <3>2, <3>3 DEF Ascending
  <2>5. QED
    BY <2>2, <2>3, <2>4
<1>2. Typed /\ Peace => ListShows
  BY <1>1 DEF ListShows
<1>3. QED
  BY <1>2, TypedAlways, PeaceAlways, PTL
=============================================================================
