----------------------------- MODULE RoomsProofs ----------------------------
(* Proofs about Rooms, for any number of rooms, acts, messages and errors,  *)
(* any size of page and any ids.                                            *)
EXTENDS Rooms, ListProofs

Items == [id : Rooms, joined : BOOLEAN]
Events == [event : {"new", "message"}, room : Rooms]
Places == Rooms \union {None}
Marks == [Rooms -> Int] \union {<<>>}
Badges == UNION {[R -> Nat] : R \in SUBSET Rooms}
Counts == Badges \union {<<>>}
Fetches == [step : {"none", "sent", "rooms", "reads", "ok"}, new : BOOLEAN,
            text : BOOLEAN, cursor : Places, found : Seq(Rooms), more : BOOLEAN,
            marks : Marks, counts : Counts, select : Places]
Requests == [op : {"none", "join", "leave", "create"},
             step : {"none", "sent", "row", "member", "ok"},
             room : Places, open : Places]

Rows ==
  /\ top \in 0 .. MaxRooms /\ joined \in SUBSET (1 .. top)
  /\ posted \in [Rooms -> 0 .. MaxPosts]
  /\ lastRead \in [Rooms -> Unmarked .. MaxPosts]
  /\ \A r \in Rooms : lastRead[r] <= posted[r]
Hooks ==
  /\ list \in Seq(Items) /\ unread \in [Rooms -> Nat]
  /\ hasMore \in BOOLEAN /\ cursor \in Places
  /\ typed \in BOOLEAN /\ timer \in BOOLEAN /\ selected \in Places
  /\ query \in BOOLEAN /\ disturbed \in BOOLEAN
Traffic ==
  /\ working \in SUBSET Rooms /\ marking \in SUBSET Rooms /\ wire \in Seq(Events)
  /\ acts \in Nat /\ faults \in Nat

(* A read mark that was fetched is never ahead of the table.                *)
Fetching ==
  /\ fetch \in Fetches
  /\ fetch.more => fetch.found # <<>>
  /\ fetch.step \in {"reads", "ok"} =>
       fetch.marks \in [Rooms -> Int] /\ \A r \in Rooms : fetch.marks[r] <= posted[r]
  /\ fetch.step = "ok" => fetch.counts \in [Range(fetch.found) -> Nat]

(* The room of a request exists, but for one that is being created.         *)
Calling ==
  /\ call \in Requests
  /\ call.op # "none" => call.room \in Rooms
  /\ call.op = "create" /\ call.step = "sent" => call.room = top + 1
  /\ call.op = "join" \/ (call.op = "create" /\ call.step # "sent") => call.room \in 1 .. top
  /\ call.op = "none" => call = NoCall

Typed == Rows /\ Hooks /\ Traffic /\ Fetching /\ Calling
-----------------------------------------------------------------------------
(* The number of messages of a room is not more than that of all rooms.     *)

Sums(sum, k) == /\ DOMAIN sum = 0 .. k /\ sum[0] = 0
                /\ \A n \in 1 .. k : sum[n] = posted[n] + sum[n - 1]

LEMMA SumExists ==
  ASSUME NEW k \in Nat
  PROVE  \E sum : sum = [n \in 0 .. k |-> sum[n]] /\ Sums(sum, k)
<1> DEFINE Good(n) == \E sum : sum = [i \in 0 .. n |-> sum[i]] /\ Sums(sum, n)
           Bad == {n \in Nat : ~Good(n)}
<1>1. Good(0)
  <2> DEFINE sum == [n \in 0 .. 0 |-> 0]
  <2>1. sum = [i \in 0 .. 0 |-> sum[i]] /\ Sums(sum, 0)
    BY DEF Sums
  <2> HIDE DEF sum
  <2>2. QED
    BY <2>1
<1>2. ASSUME NEW n \in Nat, Good(n) PROVE Good(n + 1)
  <2>1. PICK sum : Sums(sum, n)
    BY <1>2
  <2> DEFINE next == posted[n + 1] + sum[n]
             more == [i \in 0 .. n + 1 |-> IF i = n + 1 THEN next ELSE sum[i]]
  <2>2. /\ more = [i \in 0 .. n + 1 |-> more[i]]
        /\ \A i \in 0 .. n : more[i] = sum[i]
        /\ more[n + 1] = next
    OBVIOUS
  <2> HIDE DEF more
  <2>3. ASSUME NEW i \in 1 .. n + 1 PROVE more[i] = posted[i] + more[i - 1]
    <3>1. CASE i = n + 1
      <4>1. i - 1 = n /\ n \in 0 .. n
        BY <3>1
      <4>2. QED
        BY <2>2, <3>1, <4>1
    <3>2. CASE i # n + 1
      <4>1. i \in 1 .. n /\ i \in 0 .. n /\ i - 1 \in 0 .. n
        BY <3>2
      <4>2. QED
        BY <2>1, <2>2, <4>1 DEF Sums
    <3>3. QED
      BY <3>1, <3>2
  <2>4. Sums(more, n + 1)
    <3>1. DOMAIN more = 0 .. n + 1 /\ 0 \in 0 .. n /\ sum[0] = 0
      BY <2>1, <2>2 DEF Sums
    <3>2. QED
      BY <2>2, <2>3, <3>1 DEF Sums
  <2>5. QED
    BY <2>2, <2>4
<1>3. Bad = {}
  <2>1. SUFFICES ASSUME Bad # {} PROVE FALSE
    OBVIOUS
  <2> HIDE DEF Good
  <2>2. PICK m \in Bad : \A n \in Bad : m <= n
    BY <2>1, LeastNumber
  <2>3. m # 0 /\ m - 1 \in Nat /\ m - 1 \notin Bad
    BY <1>1, <2>2
  <2>4. QED
    BY <1>2, <2>2, <2>3
<1>4. QED
  BY <1>3

LEMMA PostsBound ==
  ASSUME posted \in [Rooms -> Nat], NEW r \in Rooms
  PROVE  Posts \in Nat /\ posted[r] <= Posts
<1> DEFINE step(g, n) == IF n = 0 THEN 0 ELSE posted[n] + g[n - 1]
           g0 == CHOOSE g : g = [n \in 0 .. MaxRooms |-> step(g, n)]
<1>1. MaxRooms \in Nat
  BY RoomsAssumption
<1>2. \E g : g = [n \in 0 .. MaxRooms |-> step(g, n)]
  <2>1. PICK g : g = [n \in 0 .. MaxRooms |-> g[n]] /\ Sums(g, MaxRooms)
    BY <1>1, SumExists
  <2>2. \A n \in 0 .. MaxRooms : g[n] = step(g, n)
    <3>1. \A n \in 0 .. MaxRooms : n # 0 => n \in 1 .. MaxRooms
      BY <1>1
    <3>2. QED
      BY <2>1, <3>1 DEF Sums
  <2>3. QED
    BY <2>1, <2>2
<1>3. g0 = [n \in 0 .. MaxRooms |-> step(g0, n)]
  BY <1>2
<1>4. Posts = g0[MaxRooms]
  BY DEF Posts
<1> HIDE DEF g0
<1>5. /\ g0[0] = 0
      /\ \A n \in 1 .. MaxRooms : g0[n] = posted[n] + g0[n - 1]
  <2>1. 0 \in 0 .. MaxRooms /\ \A n \in 1 .. MaxRooms : n \in 0 .. MaxRooms /\ n # 0
    BY <1>1
  <2>2. \A n \in 0 .. MaxRooms : g0[n] = step(g0, n)
    BY <1>3
  <2>3. QED
    BY <2>1, <2>2
<1> DEFINE Good(n) == /\ g0[n] \in Nat
                      /\ \A i \in 1 .. n : posted[i] <= g0[n]
           Bad == {n \in 0 .. MaxRooms : ~Good(n)}
<1>6. Good(0)
  BY <1>5
<1>7. ASSUME NEW n \in 1 .. MaxRooms, Good(n - 1) PROVE Good(n)
  <2>1. posted[n] \in Nat /\ g0[n] = posted[n] + g0[n - 1] /\ g0[n - 1] \in Nat
    BY <1>5, <1>7 DEF Rooms
  <2>2. ASSUME NEW i \in 1 .. n PROVE posted[i] <= g0[n]
    <3>1. i = n \/ i \in 1 .. n - 1
      BY <1>7
    <3>2. posted[i] \in Nat
      BY <1>1, <1>7 DEF Rooms
    <3>3. QED
      BY <1>7, <2>1, <3>1, <3>2
  <2>3. QED
    BY <2>1, <2>2
<1>8. Bad = {}
  <2>1. SUFFICES ASSUME Bad # {} PROVE FALSE
    OBVIOUS
  <2> HIDE DEF Good
  <2>2. Bad \in SUBSET Nat
    BY <1>1
  <2>3. PICK m \in Bad : \A n \in Bad : m <= n
    BY <2>1, <2>2, LeastNumber
  <2>4. m \in 1 .. MaxRooms /\ m - 1 \in 0 .. MaxRooms /\ m - 1 \notin Bad
    BY <1>1, <1>6, <2>3
  <2>5. QED
    BY <1>7, <2>3, <2>4
<1>9. MaxRooms \in 0 .. MaxRooms /\ r \in 1 .. MaxRooms
  BY <1>1 DEF Rooms
<1>10. QED
  BY <1>4, <1>8, <1>9
-----------------------------------------------------------------------------
LEMMA NoFetchTyped ==
  /\ NoFetch \in Fetches /\ NoFetch.step = "none" /\ NoFetch.more = FALSE
  /\ NoFetch.found = <<>> /\ NoFetch.select = None
  /\ NoCall \in Requests /\ NoCall.op = "none" /\ NoCall.step = "none"
<1>1. <<>> \in Seq(Rooms) /\ <<>> \in Marks /\ <<>> \in Counts /\ None \in Places
  <2>1. <<>> \in Seq(Rooms) /\ None \in Places
    BY DEF Places
  <2>2. <<>> \in Marks
    BY DEF Marks
  <2>3. <<>> \in Counts
    BY DEF Counts
  <2>4. QED
    BY <2>1, <2>2, <2>3
<1>2. NoFetch \in Fetches
  BY <1>1 DEF NoFetch, Fetches
<1>3. NoCall \in Requests
  BY <1>1 DEF NoCall, Requests
<1>4. QED
  BY <1>2, <1>3 DEF NoFetch, NoCall

LEMMA TypedInit == Init => Typed
<1> SUFFICES ASSUME Init PROVE Typed
  OBVIOUS
<1>1. MaxRooms \in Nat \ {0} /\ MaxPosts \in Nat
  BY RoomsAssumption
<1>2. Rows
  <2>1. top \in 0 .. MaxRooms /\ joined \in SUBSET (1 .. top)
    BY <1>1 DEF Init
  <2>2. posted \in [Rooms -> 0 .. MaxPosts] /\ lastRead \in [Rooms -> Unmarked .. MaxPosts]
    BY <1>1 DEF Init, Unmarked
  <2>3. \A r \in Rooms : lastRead[r] <= posted[r]
    BY DEF Init, Unmarked
  <2>4. QED
    BY <2>1, <2>2, <2>3 DEF Rows
<1>3. Hooks
  <2>1. <<>> \in Seq(Items) /\ None \in Places /\ 0 \in Nat
    BY DEF Places
  <2>2. QED
    BY <2>1 DEF Init, Hooks
<1>4. Traffic
  BY DEF Init, Traffic
<1>5. Fetching
  <2>1. fetch = [NoFetch EXCEPT !.step = "sent", !.new = TRUE]
    BY DEF Init
  <2>2. fetch \in Fetches /\ fetch.step = "sent" /\ fetch.more = FALSE
    BY <2>1, NoFetchTyped DEF Fetches
  <2>3. QED
    BY <2>2 DEF Fetching
<1>6. Calling
  BY NoFetchTyped DEF Init, Calling, NoCall
<1>7. QED
  BY <1>2, <1>3, <1>4, <1>5, <1>6 DEF Typed

(* A list of rooms that is asked for.                                       *)
LEMMA FetchNewTyped ==
  ASSUME Typed, NEW text \in BOOLEAN, NEW select \in Places, FetchNew(text, select)
  PROVE  /\ Fetching' \/ posted' # posted
         /\ cursor' \in Places /\ selected' \in Places
         /\ query' \in BOOLEAN /\ disturbed' \in BOOLEAN
<1>1. CASE fetch # NoFetch
  <2>1. /\ disturbed' = TRUE /\ selected' = IF select = None THEN selected ELSE select
        /\ fetch' = fetch /\ cursor' = cursor /\ query' = query
    BY <1>1 DEF FetchNew, OpenNext
  <2>2. Fetching' \/ posted' # posted
    BY <2>1 DEF Typed, Fetching
  <2>3. QED
    BY <2>1, <2>2 DEF Typed, Hooks
<1>2. CASE fetch = NoFetch
  <2>1. /\ fetch' = [NoFetch EXCEPT !.step = "sent", !.new = TRUE, !.text = text,
                                    !.select = select]
        /\ cursor' = None /\ query' = text /\ selected' = selected
        /\ disturbed' = (Others \/ (select = None /\ call # NoCall))
    BY <1>2 DEF FetchNew
  <2>2. fetch' \in Fetches /\ fetch'.step = "sent" /\ fetch'.more = FALSE
    BY <2>1, NoFetchTyped DEF Fetches
  <2>3. Fetching'
    BY <2>2 DEF Fetching
  <2>4. disturbed' \in BOOLEAN
    BY <2>1
  <2>5. QED
    BY <2>1, <2>3, <2>4 DEF Typed, Hooks, Places
<1>3. QED
  BY <1>1, <1>2
-----------------------------------------------------------------------------
(* What findMany returns: all the rows, newest first, cut after a page.     *)

Newest(rows) == Only([k \in Rooms |-> MaxRooms + 1 - k], rows)
Cut(q) == IF Len(q) > Limit THEN Limit ELSE Len(q)
Page(rows) == SubSeq(Newest(rows), 1, Cut(Newest(rows)))

LEMMA NewestFirst ==
  ASSUME NEW rows \in SUBSET Rooms
  PROVE  /\ Newest(rows) \in Seq(Rooms) /\ Len(Newest(rows)) \in Nat
         /\ \A i \in 1 .. Len(Newest(rows)) : Newest(rows)[i] \in rows
         /\ \A r \in rows : \E i \in 1 .. Len(Newest(rows)) : Newest(rows)[i] = r
         /\ \A i, j \in 1 .. Len(Newest(rows)) : i < j => Newest(rows)[j] < Newest(rows)[i]
<1>1. LET q == Only([k \in Rooms |-> MaxRooms + 1 - k], rows) IN
        /\ q \in Seq(Rooms) /\ Len(q) \in Nat
        /\ \A i \in 1 .. Len(q) : q[i] \in rows
        /\ \A r \in rows : \E i \in 1 .. Len(q) : q[i] = r
        /\ \A i, j \in 1 .. Len(q) : i < j => q[j] < q[i]
  BY NewestOnly, RoomsAssumption DEF Rooms
<1>2. QED
  BY <1>1 DEF Newest

LEMMA PageIs ==
  ASSUME NEW rows \in SUBSET Rooms
  PROVE  /\ Page(rows) \in Seq(Rooms) /\ Len(Page(rows)) = Cut(Newest(rows))
         /\ Cut(Newest(rows)) \in Nat
         /\ Cut(Newest(rows)) <= Len(Newest(rows))
         /\ \A i \in 1 .. Len(Page(rows)) : i \in 1 .. Len(Newest(rows)) /\
              Page(rows)[i] = Newest(rows)[i] /\ Page(rows)[i] \in rows
         /\ Len(Newest(rows)) > Limit => Page(rows) # <<>>
<1> DEFINE q == Newest(rows)
<1>1. q \in Seq(Rooms) /\ Len(q) \in Nat /\ Limit \in Nat \ {0}
      /\ \A i \in 1 .. Len(q) : q[i] \in rows
  BY NewestFirst, RoomsAssumption
<1> HIDE DEF q
<1>2. Cut(q) \in Nat /\ Cut(q) <= Len(q) /\ (Len(q) > Limit => Cut(q) # 0)
  BY <1>1 DEF Cut
<1>3. ASSUME NEW n \in Nat, n <= Len(q)
      PROVE  /\ SubSeq(q, 1, n) \in Seq(Rooms) /\ Len(SubSeq(q, 1, n)) = n
             /\ \A i \in 1 .. n : SubSeq(q, 1, n)[i] = q[i]
  BY <1>1, <1>3
<1>4. /\ SubSeq(q, 1, Cut(q)) \in Seq(Rooms) /\ Len(SubSeq(q, 1, Cut(q))) = Cut(q)
      /\ \A i \in 1 .. Cut(q) : SubSeq(q, 1, Cut(q))[i] = q[i] /\ i \in 1 .. Len(q)
  BY <1>1, <1>2, <1>3
<1>5. QED
  <2>1. Page(rows) = SubSeq(q, 1, Cut(q))
    BY DEF Page, q
  <2>2. Len(q) > Limit => Page(rows) # <<>>
    <3>1. ASSUME Page(rows) = <<>> PROVE Cut(q) = 0
      BY <1>4, <2>1, <3>1
    <3>2. QED
      BY <1>2, <3>1
  <2>3. QED
    BY <1>1, <1>2, <1>4, <2>1, <2>2 DEF q
-----------------------------------------------------------------------------
(* The steps keep the types.                                                *)

LEMMA MarkTyped ==
  ASSUME Rows, NEW r \in Rooms, lastRead' = Mark(r),
         UNCHANGED <<posted>>, top' \in 0 .. MaxRooms, joined' \in SUBSET (1 .. top')
  PROVE  Rows'
<1>1. posted[r] \in Unmarked .. MaxPosts
  BY DEF Rows, Unmarked
<1>2. lastRead' \in [Rooms -> Unmarked .. MaxPosts]
  BY <1>1 DEF Rows, Mark
<1>3. \A x \in Rooms : lastRead'[x] = IF x = r THEN posted[x] ELSE lastRead[x]
  BY DEF Mark, Rows
<1>4. \A x \in Rooms : lastRead'[x] <= posted[x]
  BY <1>3 DEF Rows
<1>5. QED
  BY <1>2, <1>4 DEF Rows

LEMMA FindRoomsTyped == ASSUME Typed, FindRooms PROVE Typed'
<1> DEFINE rows == joined \intersect Found(fetch.text) \intersect Older(fetch.cursor)
<1>1. fetch' = [fetch EXCEPT !.step = "rooms", !.found = Page(rows),
                             !.more = Len(Newest(rows)) > Limit]
  BY DEF FindRooms, Page, Newest, Cut
<1>2. rows \in SUBSET Rooms
  BY DEF Older
<1>3. /\ Page(rows) \in Seq(Rooms)
      /\ Len(Newest(rows)) > Limit => Page(rows) # <<>>
  BY <1>2, PageIs
<1>4. fetch \in Fetches
  BY DEF Typed, Fetching
<1> HIDE DEF rows
<1>5. /\ fetch'.step = "rooms" /\ fetch'.more = (Len(Newest(rows)) > Limit)
      /\ fetch'.found = Page(rows) /\ fetch' \in Fetches
  <2>1. (Len(Newest(rows)) > Limit) \in BOOLEAN
    OBVIOUS
  <2>2. \A p \in Seq(Rooms), b \in BOOLEAN :
          LET f == [fetch EXCEPT !.step = "rooms", !.found = p, !.more = b] IN
          f \in Fetches /\ f.step = "rooms" /\ f.more = b /\ f.found = p
    BY <1>4 DEF Fetches
  <2>3. QED
    BY <1>1, <1>3, <2>1, <2>2
<1>6. Fetching'
  BY <1>3, <1>5 DEF Fetching
<1>7. QED
  BY <1>6 DEF FindRooms, Typed, Rows, Hooks, Traffic, Calling, tables, hook, page, history

LEMMA FindReadsTyped == ASSUME Typed, FindReads PROVE Typed'
<1>1. fetch \in Fetches /\ fetch.step = "rooms" /\ posted' = posted
      /\ fetch' = [fetch EXCEPT !.step = "reads", !.marks = lastRead]
  BY DEF Typed, Fetching, FindReads, tables
<1>2. lastRead \in [Rooms -> Int] /\ \A r \in Rooms : lastRead[r] <= posted[r]
  BY RoomsAssumption DEF Typed, Rows, Unmarked
<1>3. fetch' \in Fetches /\ fetch'.step = "reads" /\ fetch'.marks = lastRead
      /\ fetch'.more = fetch.more /\ fetch'.found = fetch.found
  <2>1. lastRead \in Marks
    BY <1>2 DEF Marks
  <2>2. QED
    BY <1>1, <2>1 DEF Fetches
<1>4. Fetching'
  BY <1>1, <1>2, <1>3 DEF Typed, Fetching
<1>5. QED
  BY <1>4 DEF FindReads, Typed, Rows, Hooks, Traffic, Calling, tables, hook, page, history

LEMMA CountUnreadTyped == ASSUME Typed, CountUnread PROVE Typed'
<1> DEFINE counts == [r \in Range(fetch.found) |->
                        IF fetch.marks[r] = Unmarked THEN 0 ELSE posted[r] - fetch.marks[r]]
<1>1. fetch \in Fetches /\ fetch.step = "reads" /\ posted' = posted
      /\ fetch' = [fetch EXCEPT !.step = "ok", !.counts = counts]
  BY DEF Typed, Fetching, CountUnread, tables
<1>2. fetch.marks \in [Rooms -> Int] /\ \A r \in Rooms : fetch.marks[r] <= posted[r]
  BY <1>1 DEF Typed, Fetching
<1>3. Range(fetch.found) \in SUBSET Rooms
  <2>1. fetch.found \in Seq(Rooms)
    BY <1>1 DEF Fetches
  <2>2. QED
    BY <2>1 DEF Range
<1>4. counts \in [Range(fetch.found) -> Nat]
  <2>1. ASSUME NEW r \in Range(fetch.found)
        PROVE  (IF fetch.marks[r] = Unmarked THEN 0 ELSE posted[r] - fetch.marks[r]) \in Nat
    <3>1. r \in Rooms /\ posted[r] \in Nat /\ fetch.marks[r] \in Int /\ fetch.marks[r] <= posted[r]
      BY <1>2, <1>3, RoomsAssumption DEF Typed, Rows
    <3>2. QED
      BY <3>1
  <2>2. QED
    BY <2>1
<1> HIDE DEF counts
<1>5. counts \in Counts
  BY <1>3, <1>4 DEF Counts, Badges
<1>6. fetch' \in Fetches /\ fetch'.step = "ok" /\ fetch'.marks = fetch.marks
      /\ fetch'.more = fetch.more /\ fetch'.found = fetch.found /\ fetch'.counts = counts
  BY <1>1, <1>5 DEF Fetches
<1>7. Fetching'
  BY <1>1, <1>2, <1>4, <1>6 DEF Typed, Fetching
<1>8. QED
  BY <1>7 DEF CountUnread, Typed, Rows, Hooks, Traffic, Calling, tables, hook, page, history

(* A page as it comes to the list.                                          *)
ItemsOf(found) == [k \in DOMAIN found |-> [id |-> found[k], joined |-> TRUE]]
LEMMA ItemsAre ==
  ASSUME NEW q \in Seq(Rooms)
  PROVE  /\ ItemsOf(q) \in Seq(Items) /\ Len(ItemsOf(q)) = Len(q) /\ Len(q) \in Nat
         /\ \A k \in 1 .. Len(q) : ItemsOf(q)[k] = [id |-> q[k], joined |-> TRUE]
<1>1. Len(q) \in Nat /\ DOMAIN q = 1 .. Len(q) /\ \A k \in 1 .. Len(q) : q[k] \in Rooms
  OBVIOUS
<1>2. ItemsOf(q) \in [1 .. Len(q) -> Items]
  BY <1>1 DEF ItemsOf, Items
<1>3. QED
  BY <1>1, <1>2 DEF ItemsOf

LEMMA FetchedTyped == ASSUME Typed, Fetched PROVE Typed'
<1>1. fetch \in Fetches /\ fetch.step = "ok" /\ fetch.found \in Seq(Rooms)
      /\ fetch.counts \in [Range(fetch.found) -> Nat]
      /\ (fetch.more => fetch.found # <<>>) /\ fetch.select \in Places
  BY DEF Typed, Fetching, Fetched, Fetches
<1> DEFINE items == ItemsOf(fetch.found)
           count(r) == IF r \in Range(fetch.found) THEN fetch.counts[r] ELSE 0
<1>2. /\ list' = IF fetch.new THEN items ELSE AppendPage(items)
      /\ unread' = [r \in Rooms |-> IF fetch.new \/ count(r) > 0
                                    THEN count(r) ELSE unread[r]]
      /\ hasMore' = fetch.more
      /\ cursor' = IF fetch.more THEN Last(fetch.found) ELSE None
      /\ selected' = IF fetch.select = None THEN selected ELSE fetch.select
      /\ marking' = marking \union ({fetch.select} \ {None, selected})
      /\ fetch' = NoFetch
      /\ disturbed' \in BOOLEAN
      /\ UNCHANGED <<tables, working, wire, typed, timer, call, query, acts, faults>>
  BY DEF Fetched, ItemsOf, Typed, Hooks, OpenNext
<1>3. list' \in Seq(Items)
  <2>1. items \in Seq(Items)
    BY <1>1, ItemsAre
  <2> HIDE DEF items
  <2>2. \A S : Only(items, S) \in Seq(Items)
    BY <2>1, OnlyKeeps
  <2>3. AppendPage(items) \in Seq(Items)
    BY <2>2 DEF AppendPage, Typed, Hooks
  <2>4. QED
    BY <1>2, <2>1, <2>3
<1>4. unread' \in [Rooms -> Nat]
  <2>1. \A r \in Rooms : count(r) \in Nat /\ unread[r] \in Nat
    BY <1>1 DEF Typed, Hooks
  <2> HIDE DEF count
  <2>2. QED
    BY <1>2, <2>1
<1>5. cursor' \in Places
  <2>1. fetch.more => fetch.found[Len(fetch.found)] \in Rooms
    BY <1>1
  <2>2. QED
    BY <1>2, <2>1 DEF Last, Places
<1>6. marking' \in SUBSET Rooms /\ selected' \in Places
  BY <1>1, <1>2 DEF Typed, Hooks, Traffic, Places
<1>7. hasMore' \in BOOLEAN
  BY <1>1, <1>2 DEF Fetches
<1>8. Fetching'
  BY <1>2, NoFetchTyped DEF Fetching
<1>9. Hooks' /\ Traffic'
  BY <1>2, <1>3, <1>4, <1>5, <1>6, <1>7 DEF Typed, Hooks, Traffic
<1>10. QED
  BY <1>2, <1>8, <1>9 DEF Typed, Rows, Calling, tables

LEMMA FetchFailedTyped == ASSUME Typed, FetchFailed PROVE Typed'
<1>1. fetch \in Fetches /\ fetch.select \in Places
  BY DEF Typed, Fetching, Fetches
<1>2. Fetching'
  BY NoFetchTyped DEF FetchFailed, Fetching
<1>3. Hooks'
  BY <1>1 DEF FetchFailed, Typed, Hooks, hook, page, OpenNext
<1>4. Traffic'
  BY <1>1 DEF FetchFailed, Typed, Traffic, Places, OpenNext
<1>5. QED
  BY <1>2, <1>3, <1>4 DEF FetchFailed, Typed, Rows, Calling, tables

LEMMA SearchTyped == ASSUME Typed, Type \/ Debounced \/ Scroll PROVE Typed'
<1>1. CASE Type
  BY <1>1 DEF Type, Act, Typed, Rows, Hooks, Traffic, Fetching, Calling, tables, hook, history
<1>2. CASE Debounced
  <2>1. FetchNew(typed, None) /\ typed \in BOOLEAN /\ None \in Places
    BY <1>2 DEF Debounced, Typed, Hooks, Places
  <2>2. /\ timer' = FALSE
        /\ UNCHANGED <<tables, working, wire, list, unread, typed, call, marking, acts, faults>>
    BY <1>2 DEF Debounced
  <2>3. Fetching' /\ cursor' \in Places /\ selected' \in Places
        /\ query' \in BOOLEAN /\ disturbed' \in BOOLEAN
    BY <2>1, <2>2, FetchNewTyped DEF tables
  <2>4. hasMore' = hasMore
    BY <1>2 DEF Debounced
  <2>5. QED
    BY <2>2, <2>3, <2>4 DEF Typed, Rows, Hooks, Traffic, Calling, tables
<1>3. CASE Scroll
  <2>1. fetch' = [NoFetch EXCEPT !.step = "sent", !.cursor = cursor] /\ cursor \in Places
    BY <1>3 DEF Scroll, Typed, Hooks
  <2>2. fetch' \in Fetches /\ fetch'.step = "sent" /\ fetch'.more = FALSE
    BY <2>1, NoFetchTyped DEF Fetches
  <2>3. Fetching'
    BY <2>2 DEF Fetching
  <2>4. QED
    BY <1>3, <2>3 DEF Scroll, Act, Typed, Rows, Hooks, Traffic, Calling, tables, hook, page
<1>4. QED
  BY <1>1, <1>2, <1>3

LEMMA ClickTyped == ASSUME Typed, NEW r \in Rooms, Click(r) PROVE Typed'
<1>1. unread' \in [Rooms -> Nat] /\ selected' \in Places
  BY DEF Click, Typed, Hooks, Places, OpenNext
<1>2. Hooks'
  BY <1>1 DEF Click, Begin, Typed, Hooks, OpenNext
<1>3. Traffic'
  BY DEF Click, Act, Typed, Traffic
<1>4. QED
  BY <1>2, <1>3 DEF Click, Typed, Rows, Fetching, Calling, tables

LEMMA CallTyped ==
  ASSUME Typed, NEW r \in Rooms, NEW op \in {"join", "leave", "create"}, Call(op, r),
         op = "create" => r = top + 1, op = "join" => r \in 1 .. top
  PROVE  Typed'
<1>1. call' = [op |-> op, step |-> "sent", room |-> r, open |-> selected] /\ top' = top
  BY DEF Call, tables
<1>2. Calling'
  <2>1. call' \in Requests
    BY <1>1 DEF Requests, Typed, Hooks, Places
  <2>2. QED
    BY <1>1, <2>1 DEF Calling
<1>3. Hooks' /\ Traffic'
  BY DEF Call, Act, Begin, Typed, Hooks, Traffic, hook, page
<1>4. QED
  BY <1>2, <1>3 DEF Call, Typed, Rows, Fetching, tables

LEMMA UserTyped == ASSUME Typed, User PROVE Typed'
<1>1. MaxRooms \in Nat /\ top \in 0 .. MaxRooms
  BY RoomsAssumption DEF Typed, Rows
<1>2. ASSUME NEW r \in Rooms, Join(r) PROVE Typed'
  BY <1>2, CallTyped DEF Join
<1>3. ASSUME NEW r \in Rooms, Leave(r) PROVE Typed'
  BY <1>3, CallTyped DEF Leave
<1>4. CASE Create
  <2>1. top + 1 \in Rooms
    BY <1>1, <1>4 DEF Create, Rooms
  <2>2. QED
    BY <1>4, <2>1, CallTyped DEF Create
<1>5. QED
  BY <1>2, <1>3, <1>4, SearchTyped, ClickTyped DEF User

(* The request goes on.                                                     *)
LEMMA StepTyped ==
  ASSUME Calling, call.op # "none", NEW s \in {"row", "member", "ok"}, Step(s),
         top' = top \/ (call.op = "create" /\ call.step = "sent" /\ top' = top + 1),
         call.op = "create" /\ call.step = "sent" => top' = top + 1, top \in Nat
  PROVE  Calling'
<1>1. call \in Requests /\ call' = [call EXCEPT !.step = s]
  BY DEF Calling, Step
<1>2. call' \in Requests /\ call'.op = call.op /\ call'.step = s /\ call'.room = call.room
  BY <1>1 DEF Requests
<1>3. call.op = "create" => call'.room \in 1 .. top'
  BY <1>2 DEF Calling
<1>4. QED
  BY <1>2, <1>3 DEF Calling

LEMMA CallsTyped == ASSUME Typed, Calls PROVE Typed'
<1>1. MaxRooms \in Nat /\ top \in 0 .. MaxRooms /\ joined \in SUBSET (1 .. top)
      /\ call \in Requests
  BY RoomsAssumption DEF Typed, Rows, Calling
<1>2. CASE CreateRoom
  <2>1. call.op = "create" /\ call.step = "sent" /\ top' = top + 1 /\ Step("row")
        /\ top + 1 \in Rooms
        /\ UNCHANGED <<joined, posted, lastRead, working, wire, hook, page, fetch,
                       marking, history, acts, faults>>
    BY <1>2 DEF CreateRoom, Typed, Calling
  <2>2. Calling'
    BY <1>1, <2>1, StepTyped DEF Typed
  <2>3. top' \in 0 .. MaxRooms /\ joined \in SUBSET (1 .. top')
    BY <1>1, <2>1 DEF Rooms
  <2>4. QED
    BY <2>1, <2>2, <2>3 DEF Typed, Rows, Hooks, Traffic, Fetching, hook, page, history
<1>3. CASE AddUserToRoom
  <2>1. /\ <<call.op, call.step>> \in {<<"create", "row">>, <<"join", "sent">>}
        /\ joined' = joined \union {call.room} /\ Step("member")
        /\ UNCHANGED <<top, posted, lastRead, working, wire, hook, page, fetch,
                       marking, history, acts, faults>>
    BY <1>3 DEF AddUserToRoom
  <2>2. call.op \in {"create", "join"} /\ ~(call.op = "create" /\ call.step = "sent")
    BY <2>1
  <2>3. call.room \in 1 .. top
    BY <2>2 DEF Typed, Calling
  <2>4. Calling'
    BY <1>1, <2>1, <2>2, StepTyped DEF Typed
  <2>5. joined' \in SUBSET (1 .. top)
    BY <1>1, <2>1, <2>3
  <2>6. QED
    BY <2>1, <2>4, <2>5 DEF Typed, Rows, Hooks, Traffic, Fetching, hook, page, history
<1>4. CASE AddRead
  <2>1. /\ call.step = "member" /\ lastRead' = Mark(call.room) /\ Step("ok")
        /\ wire' = IF call.op = "create" /\ SameInstance
                   THEN Append(wire, [event |-> "new", room |-> call.room]) ELSE wire
        /\ UNCHANGED <<top, joined, posted, working, hook, page, fetch, marking,
                       history, acts, faults>>
    BY <1>4 DEF AddRead
  <2>2. call.op # "none" /\ call.room \in Rooms
    BY <2>1 DEF Typed, Calling, NoCall
  <2>3. Calling'
    BY <1>1, <2>1, <2>2, StepTyped DEF Typed
  <2>4. Rows'
    BY <1>1, <2>1, <2>2, MarkTyped DEF Typed
  <2>5. wire' \in Seq(Events)
    <3>1. [event |-> "new", room |-> call.room] \in Events
      BY <2>2 DEF Events
    <3>2. QED
      BY <2>1, <3>1 DEF Typed, Traffic
  <2>6. QED
    BY <2>1, <2>3, <2>4, <2>5 DEF Typed, Hooks, Traffic, Fetching, hook, page, history
<1>5. CASE RemoveUser
  <2>1. /\ call.op = "leave" /\ call.step = "sent"
        /\ joined' = joined \ {call.room} /\ Step("ok")
        /\ UNCHANGED <<top, posted, lastRead, working, wire, hook, page, fetch,
                       marking, history, acts, faults>>
    BY <1>5 DEF RemoveUser
  <2>2. Calling'
    BY <1>1, <2>1, StepTyped DEF Typed
  <2>3. joined' \in SUBSET (1 .. top)
    BY <1>1, <2>1
  <2>4. QED
    BY <2>1, <2>2, <2>3 DEF Typed, Rows, Hooks, Traffic, Fetching, hook, page, history
<1>6. CASE Joined
  <2>1. /\ call.op = "join" /\ call' = NoCall /\ FetchNew(FALSE, call.room)
        /\ marking' = IF fetch # NoFetch THEN marking \union ({call.room} \ {selected})
                      ELSE marking
        /\ UNCHANGED <<tables, working, wire, list, unread, hasMore, typed, timer,
                       acts, faults>>
    BY <1>6 DEF Joined
  <2>2. call.room \in Rooms /\ call.room \in Places
    BY <1>1, <2>1 DEF Typed, Calling, Requests
  <2>3. Fetching' /\ cursor' \in Places /\ selected' \in Places
        /\ query' \in BOOLEAN /\ disturbed' \in BOOLEAN
    BY <2>1, <2>2, FetchNewTyped DEF tables
  <2>4. Calling'
    BY <2>1, NoFetchTyped DEF Calling
  <2>5. marking' \in SUBSET Rooms
    BY <2>1, <2>2 DEF Typed, Traffic
  <2>6. QED
    BY <2>1, <2>3, <2>4, <2>5 DEF Typed, Rows, Hooks, Traffic, tables
<1>7. CASE Left
  <2>1. /\ list' = Only(list, {i \in Range(list) : i.id # call.room})
        /\ selected' = IF call.open = call.room THEN None ELSE selected
        /\ call' = NoCall
        /\ UNCHANGED <<tables, working, wire, unread, hasMore, cursor, typed, timer,
                       fetch, marking, history, acts, faults>>
    BY <1>7 DEF Left, OpenNext
  <2>2. \A S : Only(list, S) \in Seq(Items)
    BY OnlyKeeps DEF Typed, Hooks
  <2>3. list' \in Seq(Items)
    BY <2>1, <2>2
  <2>4. Calling'
    BY <2>1, NoFetchTyped DEF Calling
  <2>5. Hooks'
    BY <2>1, <2>3 DEF Typed, Hooks, Places, history
  <2>6. QED
    BY <2>1, <2>4, <2>5 DEF Typed, Rows, Traffic, Fetching, tables
<1>8. CASE Created
  <2>1. Calling'
    BY <1>8, NoFetchTyped DEF Created, Calling
  <2>2. QED
    BY <1>8, <2>1 DEF Created, Typed, Rows, Hooks, Traffic, Fetching, tables, hook, page,
       history
<1>9. QED
  BY <1>2, <1>3, <1>4, <1>5, <1>6, <1>7, <1>8 DEF Calls

LEMMA WorkTyped == ASSUME Typed, Work \/ CallFailed PROVE Typed'
<1>1. CASE CallFailed
  <2>1. Calling'
    BY <1>1, NoFetchTyped DEF CallFailed, Calling
  <2>2. QED
    BY <1>1, <2>1 DEF CallFailed, Typed, Rows, Hooks, Traffic, Fetching, tables, hook, page
<1>2. CASE Receive
  <2>1. wire \in Seq(Events) /\ wire # <<>> /\ wire' = Tail(wire)
    BY <1>2 DEF Receive, Typed, Traffic
  <2>2. Head(wire) \in Events /\ Tail(wire) \in Seq(Events)
    BY <2>1, HeadTailProperties
  <2> DEFINE r == Head(wire).room
  <2>3. r \in Rooms
    BY <2>2 DEF Events
  <2> HIDE DEF r
  <2>4. \/ list' = AddNewRoom(r) /\ unread' = unread /\ disturbed' \in BOOLEAN
        \/ unread' = IncrementUnread(r) /\ UNCHANGED <<list, disturbed>>
    BY <1>2 DEF Receive, Typed, Hooks, r
  <2>5. AddNewRoom(r) \in Seq(Items)
    <3>1. [id |-> r, joined |-> FALSE] \in Items
      BY <2>3 DEF Items
    <3>2. \A i \in Items : <<i>> \o list \in Seq(Items)
      BY DEF Typed, Hooks
    <3>3. QED
      BY <3>1, <3>2 DEF AddNewRoom, Typed, Hooks
  <2>6. IncrementUnread(r) \in [Rooms -> Nat]
    BY <2>3 DEF IncrementUnread, Typed, Hooks
  <2>7. UNCHANGED <<tables, working, hasMore, cursor, page, fetch, call, marking,
                    query, acts, faults>>
    BY <1>2 DEF Receive
  <2>8. Hooks'
    BY <2>4, <2>5, <2>6, <2>7 DEF Typed, Hooks, page
  <2>9. QED
    BY <2>1, <2>2, <2>7, <2>8 DEF Typed, Rows, Traffic, Fetching, Calling, tables
<1>3. ASSUME NEW r \in Rooms, MarkAsRead(r) PROVE Typed'
  <2>1. lastRead' = Mark(r) /\ marking' = marking \ {r}
        /\ UNCHANGED <<top, joined, posted, working, wire, hook, page, fetch, call,
                       history, acts, faults>>
    BY <1>3 DEF MarkAsRead
  <2>2. Rows'
    <3>1. top' \in 0 .. MaxRooms /\ joined' \in SUBSET (1 .. top')
      BY <2>1 DEF Typed, Rows
    <3>2. QED
      BY <2>1, <3>1, MarkTyped DEF Typed
  <2>3. QED
    BY <2>1, <2>2 DEF Typed, Hooks, Traffic, Fetching, Calling, hook, page, history
<1>4. ASSUME NEW r \in Rooms, Notify(r) PROVE Typed'
  <2>1. /\ lastRead' = Mark(r) \/ lastRead' = lastRead
        /\ working' = working \ {r}
        /\ wire' = Append(wire, [event |-> "message", room |-> r])
        /\ disturbed' \in BOOLEAN
        /\ UNCHANGED <<top, joined, posted, hook, page, fetch, call, marking, query,
                       acts, faults>>
    BY <1>4 DEF Notify, Typed, Hooks
  <2>2. Rows'
    <3>1. top' \in 0 .. MaxRooms /\ joined' \in SUBSET (1 .. top')
      BY <2>1 DEF Typed, Rows
    <3>2. CASE lastRead' = Mark(r)
      BY <2>1, <3>1, <3>2, MarkTyped DEF Typed
    <3>3. CASE lastRead' = lastRead
      BY <2>1, <3>3 DEF Typed, Rows
    <3>4. QED
      BY <2>1, <3>2, <3>3
  <2>3. Traffic'
    BY <2>1 DEF Typed, Traffic, Events
  <2>4. QED
    BY <2>1, <2>2, <2>3 DEF Typed, Hooks, Fetching, Calling, hook, page, history
<1>5. CASE Follow
  <2>1. UNCHANGED <<tables, working, wire, hook, page, fetch, call, marking, history,
                    acts, faults>>
    BY <1>5 DEF Follow
  <2>2. Rows' /\ Hooks'
    BY <2>1 DEF Typed, Rows, Hooks, tables, hook, page, history
  <2>3. QED
    BY <2>1, <2>2 DEF Typed, Traffic, Fetching, Calling, tables
<1>6. QED
  BY <1>1, <1>2, <1>3, <1>4, <1>5, SearchTyped DEF Work

LEMMA ReconnectTyped == ASSUME Typed, Reconnect PROVE Typed'
<1>1. wire' = <<>> /\ <<>> \in Seq(Events) /\ faults' = faults + 1 /\ disturbed' \in BOOLEAN
      /\ UNCHANGED <<tables, working, hook, page, fetch, call, marking, query, acts>>
  BY DEF Reconnect, Begin, Typed, Hooks
<1>2. Hooks' /\ Traffic'
  BY <1>1 DEF Typed, Hooks, Traffic, hook, page
<1>3. QED
  BY <1>1, <1>2 DEF Typed, Rows, Fetching, Calling, tables

LEMMA PostTyped == ASSUME Typed, NEW r \in Rooms, Post(r) \/ MarkFailed(r) PROVE Typed'
<1>1. CASE MarkFailed(r)
  BY <1>1 DEF MarkFailed, Typed, Rows, Hooks, Traffic, Fetching, Calling, tables, hook, page
<1>2. CASE Post(r)
  <2>1. /\ Posts < MaxPosts /\ posted' = [posted EXCEPT ![r] = @ + 1]
        /\ working' = working \union {r} /\ disturbed' \in BOOLEAN
        /\ UNCHANGED <<top, joined, lastRead, wire, hook, page, fetch, call, marking,
                       query, acts, faults>>
    BY <1>2 DEF Post, Begin, Typed, Hooks
  <2>2. posted \in [Rooms -> Nat] /\ MaxPosts \in Nat
    BY RoomsAssumption DEF Typed, Rows
  <2>3. posted[r] + 1 \in 0 .. MaxPosts
    <3>1. Posts \in Nat /\ posted[r] <= Posts
      BY <2>2, PostsBound
    <3>2. QED
      BY <2>1, <2>2, <3>1
  <2>4. \A x \in Rooms : posted[x] <= posted'[x]
    BY <2>1, <2>2
  <2>5. Rows'
    <3>1. posted' \in [Rooms -> 0 .. MaxPosts]
      BY <2>1, <2>3 DEF Typed, Rows
    <3>2. \A x \in Rooms : lastRead[x] <= posted'[x]
      <4>1. \A x \in Rooms : lastRead[x] \in Int /\ posted[x] \in Int /\ posted'[x] \in Int
                             /\ lastRead[x] <= posted[x]
        BY <2>2, <3>1 DEF Typed, Rows, Unmarked
      <4>2. QED
        BY <2>4, <4>1
    <3>3. QED
      BY <2>1, <3>1, <3>2 DEF Typed, Rows
  <2>6. Fetching'
    <3>1. ASSUME fetch.step \in {"reads", "ok"}
          PROVE  \A x \in Rooms : fetch.marks[x] <= posted'[x]
      <4>1. \A x \in Rooms : fetch.marks[x] \in Int /\ posted[x] \in Int /\ posted'[x] \in Int
                             /\ fetch.marks[x] <= posted[x]
        BY <2>1, <2>2, <3>1 DEF Typed, Fetching
      <4>2. QED
        BY <2>4, <4>1
    <3>2. QED
      BY <2>1, <3>1 DEF Typed, Fetching
  <2>7. QED
    BY <2>1, <2>5, <2>6 DEF Typed, Hooks, Traffic, Calling, hook, page
<1>3. QED
  BY <1>1, <1>2

LEMMA TypedNext == Typed /\ [Next]_vars => Typed'
<1> SUFFICES ASSUME Typed, [Next]_vars PROVE Typed'
  OBVIOUS
<1>1. CASE UNCHANGED vars
  BY <1>1 DEF Typed, Rows, Hooks, Traffic, Fetching, Calling, vars, tables, hook, page, history
<1>2. CASE Fetch
  BY <1>2, FindRoomsTyped, FindReadsTyped, CountUnreadTyped, FetchedTyped DEF Fetch
<1>3. QED
  BY <1>1, <1>2, UserTyped, CallsTyped, WorkTyped, PostTyped, FetchFailedTyped,
     ReconnectTyped DEF Next

(* The rooms that the server has for the sockets of the page.               *)
Socketed == current \in Places /\ ghosts \in SUBSET Rooms /\ asked \in Seq(Places)

LEMMA OpenNextSocketed ==
  ASSUME Socketed, Typed, NEW r \in Places, OpenNext(r)
  PROVE  asked' \in Seq(Places)
<1>1. <<>> \in Seq(Places) /\ <<None>> \in Seq(Places) /\ <<r>> \in Seq(Places)
  BY DEF Places
<1>2. \A p, q, s \in Seq(Places) : p \o q \o s \in Seq(Places)
  OBVIOUS
<1>3. QED
  BY <1>1, <1>2 DEF OpenNext, Socketed

LEMMA SocketedNext == Typed /\ Socketed /\ [Next]_vars => Socketed'
<1> SUFFICES ASSUME Typed, Socketed, [Next]_vars PROVE Socketed'
  OBVIOUS
<1>1. /\ selected \in Places /\ fetch.select \in Places /\ fetch \in Fetches
      /\ call.room \in Places /\ None \in Places /\ Rooms \subseteq Places
  BY DEF Typed, Hooks, Fetching, Fetches, Calling, Requests, Places
<1>2. ASSUME NEW text, NEW select \in Places, FetchNew(text, select)
      PROVE  asked' \in Seq(Places)
  <2>1. asked' = asked \/ OpenNext(IF select = None THEN selected ELSE select)
    BY <1>2 DEF FetchNew
  <2>2. (IF select = None THEN selected ELSE select) \in Places
    BY <1>1
  <2>3. QED
    BY <2>1, <2>2, OpenNextSocketed DEF Socketed
<1>3. CASE Debounced \/ Joined
  <2>1. asked' \in Seq(Places) /\ UNCHANGED <<current, ghosts>>
    BY <1>1, <1>2, <1>3 DEF Debounced, Joined
  <2>2. QED
    BY <2>1 DEF Socketed
<1>4. CASE Fetched \/ FetchFailed
  <2>1. OpenNext(IF fetch.select = None THEN selected ELSE fetch.select)
        /\ UNCHANGED <<current, ghosts>>
    BY <1>4 DEF Fetched, FetchFailed
  <2>2. (IF fetch.select = None THEN selected ELSE fetch.select) \in Places
    BY <1>1
  <2>3. QED
    BY <2>1, <2>2, OpenNextSocketed DEF Socketed
<1>5. ASSUME NEW r \in Rooms, Click(r) PROVE Socketed'
  <2>1. OpenNext(r) /\ UNCHANGED <<current, ghosts>>
    BY <1>5 DEF Click
  <2>2. QED
    BY <1>1, <2>1, OpenNextSocketed DEF Socketed
<1>6. CASE Left
  <2>1. OpenNext(IF call.open = call.room THEN None ELSE selected)
        /\ UNCHANGED <<current, ghosts>>
    BY <1>6 DEF Left
  <2>2. (IF call.open = call.room THEN None ELSE selected) \in Places
    BY <1>1
  <2>3. QED
    BY <2>1, <2>2, OpenNextSocketed DEF Socketed
<1>7. CASE Follow
  <2>1. Head(asked) \in Places /\ Tail(asked) \in Seq(Places)
    BY <1>7, HeadTailProperties DEF Follow, Socketed
  <2>2. QED
    BY <1>7, <2>1 DEF Follow, Socketed
<1>8. CASE Reconnect
  <2>1. PICK n \in 1 .. Len(asked) + 1 : asked' = SubSeq(asked, n, Len(asked))
    BY <1>8 DEF Reconnect
  <2>2. asked \in Seq(Places) /\ Len(asked) \in Nat
    BY DEF Socketed
  <2>3. SubSeq(asked, n, Len(asked)) \in Seq(Places)
    BY <2>1, <2>2
  <2>4. current' \in Places /\ ghosts' \in SUBSET Rooms
    BY <1>8 DEF Reconnect, Socketed, Places
  <2>5. QED
    BY <2>1, <2>3, <2>4 DEF Socketed
<1>9. CASE UNCHANGED socket
  BY <1>9 DEF socket, Socketed
<1>10. CASE UNCHANGED vars
  BY <1>9, <1>10 DEF vars
<1>11. ASSUME NEW r \in Rooms,
              Join(r) \/ Leave(r) \/ MarkAsRead(r) \/ Notify(r) \/ Post(r) \/ MarkFailed(r)
       PROVE  UNCHANGED socket
  BY <1>11 DEF Join, Leave, Call, MarkAsRead, Notify, Post, MarkFailed
<1>12. Type \/ Scroll \/ Create \/ CreateRoom \/ AddUserToRoom \/ AddRead \/ RemoveUser
         \/ Created \/ CallFailed \/ FindRooms \/ FindReads \/ CountUnread \/ Receive
         => UNCHANGED socket
  BY DEF Type, Scroll, Create, Call, CreateRoom, AddUserToRoom, AddRead, RemoveUser, Created,
     CallFailed, FindRooms, FindReads, CountUnread, Receive
<1>13. QED
  BY <1>3, <1>4, <1>5, <1>6, <1>7, <1>8, <1>9, <1>10, <1>11, <1>12
     DEF Next, User, Fetch, Calls, Work

LEMMA TypedAlways == Spec => []Typed
  BY TypedInit, TypedNext, PTL DEF Spec

(* Every variable keeps its type, for any number of rooms and messages: no  *)
(* more messages are counted than there are, no badge is negative, and an   *)
(* answer has what its handler reads.                                       *)
THEOREM TypeCorrect == Spec => []TypeOK
<1>1. ASSUME Typed, Socketed PROVE TypeOK
  <2>1. \A k \in DOMAIN wire : wire[k] \in Events
    BY <1>1 DEF Typed, Traffic
  <2>2. \A k \in DOMAIN list : list[k] \in Items
    BY <1>1 DEF Typed, Hooks
  <2>3. \A k \in DOMAIN asked : asked[k] \in Places
    BY <1>1 DEF Socketed
  <2>4. QED
    BY <1>1, <2>1, <2>2, <2>3
       DEF Typed, Socketed, Rows, Hooks, Traffic, TypeOK, Items, Events, Places
<1>2. Init => Socketed
  BY DEF Init, Socketed, Places
<1>3. Spec => []Socketed
  BY <1>2, SocketedNext, TypedAlways, PTL DEF Spec
<1>4. QED
  BY <1>1, <1>3, TypedAlways, PTL
-----------------------------------------------------------------------------
(* No room is twice in the list.                                            *)

Distinct(l) == \A j, k \in 1 .. Len(l) : l[j].id = l[k].id => j = k
Sorted(q) == \A i, j \in 1 .. Len(q) : i < j => q[j] < q[i]
Singled == Distinct(list) /\ Sorted(fetch.found)

LEMMA OnlyDistinct ==
  ASSUME NEW l \in Seq(Items), NEW S, Distinct(l)
  PROVE  /\ Distinct(Only(l, S))
         /\ \A i \in 1 .. Len(Only(l, S)) :
              Only(l, S)[i] \in S /\ \E n \in 1 .. Len(l) : l[n] = Only(l, S)[i]
         /\ \A n \in 1 .. Len(l) : l[n] \in S =>
              \E i \in 1 .. Len(Only(l, S)) : Only(l, S)[i] = l[n]
         /\ Only(l, S) \in Seq(Items) /\ Len(Only(l, S)) \in Nat
<1>1. LET o == Only(l, S) IN
        /\ o \in Seq(Items)
        /\ \A i \in 1 .. Len(o) : o[i] \in S /\ \E n \in 1 .. Len(l) : l[n] = o[i]
        /\ \A n \in 1 .. Len(l) : l[n] \in S => \E i \in 1 .. Len(o) : o[i] = l[n]
        /\ \A i, j \in 1 .. Len(o) : i < j =>
             \E n, k \in 1 .. Len(l) : n < k /\ l[n] = o[i] /\ l[k] = o[j]
  BY OnlyKeeps
<1> DEFINE o == Only(l, S)
<1>2. ASSUME NEW i \in 1 .. Len(o), NEW j \in 1 .. Len(o), i < j PROVE o[i].id # o[j].id
  <2>1. PICK n \in 1 .. Len(l), k \in 1 .. Len(l) : n < k /\ l[n] = o[i] /\ l[k] = o[j]
    BY <1>1, <1>2
  <2>2. l[n].id # l[k].id
    BY <2>1 DEF Distinct
  <2>3. QED
    BY <2>1, <2>2
<1>3. Len(o) \in Nat
  BY <1>1
<1> HIDE DEF o
<1>4. Distinct(o)
  <2>1. ASSUME NEW i \in 1 .. Len(o), NEW j \in 1 .. Len(o), o[i].id = o[j].id, i # j
        PROVE  FALSE
    <3>1. i < j \/ j < i
      BY <1>3, <2>1
    <3>2. QED
      BY <1>2, <2>1, <3>1
  <2>2. QED
    BY <2>1 DEF Distinct
<1>5. QED
  BY <1>1, <1>3, <1>4 DEF o

LEMMA ConcatDistinct ==
  ASSUME NEW l \in Seq(Items), NEW o \in Seq(Items), Distinct(l), Distinct(o),
         \A i \in 1 .. Len(l), j \in 1 .. Len(o) : l[i].id # o[j].id
  PROVE  Distinct(l \o o)
<1>1. /\ Len(l) \in Nat /\ Len(o) \in Nat /\ Len(l \o o) = Len(l) + Len(o)
      /\ \A i \in 1 .. Len(l) + Len(o) :
           (l \o o)[i] = IF i <= Len(l) THEN l[i] ELSE o[i - Len(l)]
  BY ConcatProperties
<1> SUFFICES ASSUME NEW j \in 1 .. Len(l) + Len(o), NEW k \in 1 .. Len(l) + Len(o),
                    (l \o o)[j].id = (l \o o)[k].id
             PROVE  j = k
  BY <1>1 DEF Distinct
<1>2. CASE j <= Len(l) /\ k <= Len(l)
  <2>1. j \in 1 .. Len(l) /\ k \in 1 .. Len(l) /\ l[j].id = l[k].id
    BY <1>1, <1>2
  <2>2. QED
    BY <2>1 DEF Distinct
<1>3. CASE ~(j <= Len(l)) /\ ~(k <= Len(l))
  <2>1. j - Len(l) \in 1 .. Len(o) /\ k - Len(l) \in 1 .. Len(o)
        /\ o[j - Len(l)].id = o[k - Len(l)].id
    BY <1>1, <1>3
  <2>2. j - Len(l) = k - Len(l)
    BY <2>1 DEF Distinct
  <2>3. QED
    BY <1>1, <2>2
<1>4. CASE j <= Len(l) /\ ~(k <= Len(l))
  <2>1. j \in 1 .. Len(l) /\ k - Len(l) \in 1 .. Len(o) /\ l[j].id = o[k - Len(l)].id
    BY <1>1, <1>4
  <2>2. QED
    BY <2>1
<1>5. CASE ~(j <= Len(l)) /\ k <= Len(l)
  <2>1. k \in 1 .. Len(l) /\ j - Len(l) \in 1 .. Len(o) /\ l[k].id = o[j - Len(l)].id
    BY <1>1, <1>5
  <2>2. QED
    BY <2>1
<1>6. QED
  BY <1>2, <1>3, <1>4, <1>5

(* What the page of a list brings.                                          *)
LEMMA AppendPageIs ==
  ASSUME Typed, Singled, NEW q \in Seq(Rooms), Sorted(q)
  PROVE  /\ Distinct(ItemsOf(q)) /\ Distinct(AppendPage(ItemsOf(q)))
<1>1. /\ ItemsOf(q) \in Seq(Items) /\ Len(ItemsOf(q)) = Len(q) /\ Len(q) \in Nat
      /\ \A k \in 1 .. Len(q) : ItemsOf(q)[k] = [id |-> q[k], joined |-> TRUE]
      /\ \A k \in 1 .. Len(q) : q[k] \in Int
  <2>1. \A k \in 1 .. Len(q) : q[k] \in Int
    <3>1. \A k \in 1 .. Len(q) : q[k] \in Rooms
      OBVIOUS
    <3>2. QED
      BY <3>1, RoomsAssumption DEF Rooms
  <2>2. QED
    BY <2>1, ItemsAre
<1> DEFINE items == ItemsOf(q)
           S == {i \in Range(items) : i.id \notin Ids}
           o == Only(items, S)
<1>2. Distinct(items)
  <2>1. ASSUME NEW j \in 1 .. Len(items), NEW k \in 1 .. Len(items), items[j].id = items[k].id
        PROVE  j = k
    <3>1. q[j] = q[k] /\ q[j] \in Int /\ j \in 1 .. Len(q) /\ k \in 1 .. Len(q)
      <4>1. j \in 1 .. Len(q) /\ k \in 1 .. Len(q)
        BY <1>1
      <4>2. ASSUME NEW n \in 1 .. Len(q) PROVE ItemsOf(q)[n].id = q[n]
        <5>1. ItemsOf(q)[n] = [id |-> q[n], joined |-> TRUE]
          BY <1>1
        <5>2. QED
          BY <5>1
      <4>3. QED
        BY <1>1, <2>1, <4>1, <4>2
    <3>2. ~(j < k) /\ ~(k < j)
      BY <3>1 DEF Sorted
    <3>3. QED
      BY <1>1, <3>1, <3>2
  <2>2. QED
    BY <2>1 DEF Distinct
<1>3. items \in Seq(Items)
  BY <1>1
<1>4. AppendPage(items) = list \o o
  BY DEF AppendPage
<1> HIDE DEF items
<1>5. /\ Distinct(o) /\ o \in Seq(Items)
      /\ \A i \in 1 .. Len(o) : o[i] \in S
  BY <1>2, <1>3, OnlyDistinct
<1> HIDE DEF o
<1>6. ASSUME NEW i \in 1 .. Len(list), NEW j \in 1 .. Len(o) PROVE list[i].id # o[j].id
  <2>1. list[i].id \in Ids
    BY DEF Ids, Typed, Hooks
  <2>2. QED
    BY <1>5, <2>1
<1>7. Distinct(list \o o)
  BY <1>5, <1>6, ConcatDistinct DEF Typed, Hooks, Singled
<1>8. QED
  BY <1>2, <1>4, <1>7 DEF items

LEMMA SingledInit == Init => Singled
  BY DEF Init, Singled, Distinct, Sorted, NoFetch

LEMMA SingledNext == Typed /\ Singled /\ [Next]_vars => Singled'
<1> SUFFICES ASSUME Typed, Singled, [Next]_vars PROVE Singled'
  OBVIOUS
<1>1. list \in Seq(Items) /\ Len(list) \in Nat /\ fetch \in Fetches
  BY DEF Typed, Hooks, Fetching
<1>2. Sorted(NoFetch.found)
  BY DEF Sorted, NoFetch
<1>3. ASSUME NEW text, NEW select, FetchNew(text, select)
      PROVE  Sorted(fetch'.found)
  <2>1. fetch' = fetch \/ fetch' = [NoFetch EXCEPT !.step = "sent", !.new = TRUE,
                                                   !.text = text, !.select = select]
    BY <1>3 DEF FetchNew
  <2>2. fetch'.found = fetch.found \/ fetch'.found = NoFetch.found
    BY <2>1 DEF NoFetch
  <2>3. QED
    BY <1>2, <2>2 DEF Singled
<1>4. CASE FindRooms
  <2> DEFINE rows == joined \intersect Found(fetch.text) \intersect Older(fetch.cursor)
  <2>1. fetch' = [fetch EXCEPT !.step = "rooms", !.found = Page(rows),
                               !.more = Len(Newest(rows)) > Limit] /\ list' = list
    BY <1>4 DEF FindRooms, Page, Newest, Cut, hook
  <2>2. rows \in SUBSET Rooms
    BY DEF Older
  <2> HIDE DEF rows
  <2>3. fetch'.found = Page(rows)
    BY <1>1, <2>1 DEF Fetches
  <2>4. Sorted(Page(rows))
    BY <2>2, PageIs, NewestFirst DEF Sorted
  <2>5. QED
    BY <2>1, <2>3, <2>4 DEF Singled
<1>5. CASE FindReads \/ CountUnread
  <2>1. fetch'.found = fetch.found /\ list' = list
    BY <1>1, <1>5 DEF FindReads, CountUnread, Fetches, hook
  <2>2. QED
    BY <2>1 DEF Singled
<1>6. CASE Fetched
  <2>1. fetch' = NoFetch /\ list' = IF fetch.new THEN ItemsOf(fetch.found)
                                    ELSE AppendPage(ItemsOf(fetch.found))
    BY <1>6 DEF Fetched, ItemsOf
  <2>2. fetch.found \in Seq(Rooms) /\ Sorted(fetch.found)
    BY <1>1 DEF Fetches, Singled
  <2>3. Distinct(list')
    BY <2>1, <2>2, AppendPageIs
  <2>4. QED
    BY <1>2, <2>1, <2>3 DEF Singled
<1>7. CASE FetchFailed
  BY <1>2, <1>7 DEF FetchFailed, Singled, hook
<1>8. CASE Debounced \/ Joined
  <2>1. Sorted(fetch'.found) /\ list' = list
    BY <1>3, <1>8 DEF Debounced, Joined
  <2>2. QED
    BY <2>1 DEF Singled
<1>9. CASE Scroll
  <2>1. fetch'.found = <<>> /\ list' = list
    BY <1>9 DEF Scroll, NoFetch, hook
  <2>2. QED
    BY <2>1 DEF Singled, Sorted
<1>10. CASE Left
  <2>1. Distinct(list') /\ fetch' = fetch
    BY <1>1, <1>10, OnlyDistinct DEF Left, Singled
  <2>2. QED
    BY <2>1 DEF Singled
<1>11. CASE Receive
  <2> DEFINE r == Head(wire).room
             new == [id |-> r, joined |-> FALSE]
  <2>1. fetch' = fetch /\ (list' = list \/ list' = AddNewRoom(r))
    BY <1>11 DEF Receive
  <2>2. CASE list' # list
    <3>1. list' = <<new>> \o list /\ r \notin Ids
      BY <2>1, <2>2 DEF AddNewRoom
    <3>2. new \in Items
      <4>1. wire \in Seq(Events) /\ wire # <<>>
        BY <1>11 DEF Receive, Typed, Traffic
      <4>2. Head(wire) \in Events
        BY <4>1, HeadTailProperties
      <4>3. QED
        BY <4>2 DEF Events, Items
    <3> HIDE DEF r
    <3>3. <<new>> \in Seq(Items) /\ Len(<<new>>) = 1 /\ <<new>>[1].id = r
      BY <3>2
    <3>4. Distinct(<<new>>)
      BY <3>3 DEF Distinct
    <3>5. \A i \in 1 .. Len(list) : list[i].id # r
      BY <1>1, <3>1 DEF Ids
    <3> HIDE DEF new
    <3>6. \A i \in 1 .. Len(<<new>>), j \in 1 .. Len(list) : <<new>>[i].id # list[j].id
      BY <3>3, <3>5
    <3>7. QED
      BY <1>1, <2>1, <3>1, <3>3, <3>4, <3>6, ConcatDistinct DEF Singled
  <2>3. QED
    BY <2>1, <2>2 DEF Singled
<1>12. CASE UNCHANGED vars \/ Follow \/ Reconnect
  BY <1>12 DEF Singled, Follow, Reconnect, vars, hook
<1>13. CASE Type \/ Create \/ CreateRoom \/ AddUserToRoom \/ AddRead \/ RemoveUser
            \/ Created \/ CallFailed
  BY <1>13 DEF Type, Create, Call, CreateRoom, AddUserToRoom, AddRead, RemoveUser, Created,
     CallFailed, Singled, hook
<1>14. ASSUME NEW r \in Rooms,
              Click(r) \/ Join(r) \/ Leave(r) \/ MarkAsRead(r) \/ Notify(r) \/ Post(r)
                \/ MarkFailed(r)
       PROVE  Singled'
  BY <1>14 DEF Click, Join, Leave, Call, MarkAsRead, Notify, Post, MarkFailed, Singled, hook
<1>15. QED
  BY <1>4, <1>5, <1>6, <1>7, <1>8, <1>9, <1>10, <1>11, <1>12, <1>13, <1>14
     DEF Next, User, Fetch, Calls, Work

(* Whatever overlaps, no room is twice in the list of rooms: not of a page, *)
(* of an event, or of both, for any size of page and any ids.               *)
THEOREM ListedOnce == Spec => []NoDuplicates
<1>1. Typed /\ Singled => NoDuplicates
  BY DEF Typed, Hooks, Singled, Distinct, NoDuplicates
<1>2. Init => Singled
  BY SingledInit
<1>3. Typed /\ Singled /\ [Next]_vars => Singled'
  BY SingledNext
<1>4. QED
  BY <1>1, <1>2, <1>3, TypedAlways, PTL DEF Spec
-----------------------------------------------------------------------------
(* Members and their read marks.                                            *)

LEMMA MemberNext == Typed /\ MemberHasMark /\ [Next]_vars => MemberHasMark'
<1> SUFFICES ASSUME Typed, MemberHasMark, [Next]_vars, faults' = 0,
                    NEW r \in joined', lastRead'[r] = Unmarked
             PROVE  call'.room = r /\ call'.step = "member"
  BY DEF MemberHasMark
<1>1. /\ faults \in Nat /\ call \in Requests /\ posted \in [Rooms -> Nat]
      /\ lastRead \in [Rooms -> Int] /\ joined \in SUBSET Rooms
  BY RoomsAssumption DEF Typed, Traffic, Calling, Rows, Rooms, Unmarked
<1>2. faults = 0 /\ ~FetchFailed /\ ~CallFailed /\ ~Reconnect /\ \A x \in Rooms : ~MarkFailed(x)
  <2>1. faults' \in Nat /\ (faults' = faults \/ faults' = faults + 1)
    <3>1. CASE UNCHANGED vars
      BY <3>1, <1>1 DEF vars
    <3>2. CASE Next
      BY <1>1, <3>2 DEF Next, User, Type, Scroll, Create, Click, Join, Leave, Call, Fetch,
         FindRooms, FindReads, CountUnread, Fetched, Calls, CreateRoom, AddUserToRoom, AddRead,
         RemoveUser, Joined, Left, Created, Work, Debounced, Receive, MarkAsRead, Notify,
         Follow, FetchFailed, CallFailed, Reconnect, Post, MarkFailed
    <3>3. QED
      BY <3>1, <3>2
  <2>2. faults = 0
    BY <1>1, <2>1
  <2>3. QED
    BY <1>1, <2>2 DEF FetchFailed, CallFailed, Reconnect, MarkFailed
<1>3. \A x \in joined : lastRead[x] # Unmarked \/ (call.room = x /\ call.step = "member")
  BY <1>2 DEF MemberHasMark
<1>4. CASE UNCHANGED <<joined, lastRead, call>>
  BY <1>3, <1>4
<1>5. ASSUME NEW x \in Rooms, lastRead' = Mark(x)
      PROVE  r # x /\ lastRead[r] = Unmarked
  <2>1. posted[x] # Unmarked /\ r \in Rooms
    <3>1. joined' \in SUBSET Rooms
      <4>1. Rows'
        BY TypedNext DEF Typed
      <4>2. QED
        BY <4>1, RoomsAssumption DEF Rows, Rooms
    <3>2. QED
      BY <1>1, <3>1 DEF Unmarked
  <2>2. QED
    BY <1>1, <1>5, <2>1 DEF Mark
<1>6. ASSUME NEW x \in Rooms, MarkAsRead(x) \/ Notify(x)
      PROVE  call'.room = r /\ call'.step = "member"
  <2>1. joined' = joined /\ call' = call /\ (lastRead' = Mark(x) \/ lastRead' = lastRead)
    BY <1>6 DEF MarkAsRead, Notify
  <2>2. QED
    BY <1>3, <1>5, <2>1
<1>7. CASE AddUserToRoom
  <2>1. joined' = joined \union {call.room} /\ lastRead' = lastRead
        /\ call' = [call EXCEPT !.step = "member"] /\ call.step # "member"
    BY <1>7 DEF AddUserToRoom, Step
  <2>2. call'.room = call.room /\ call'.step = "member"
    BY <1>1, <2>1 DEF Requests
  <2>3. QED
    BY <1>3, <2>1, <2>2
<1>8. CASE AddRead
  <2>1. joined' = joined /\ lastRead' = Mark(call.room) /\ call.step = "member"
    BY <1>8 DEF AddRead
  <2>2. call.room \in Rooms
    BY <2>1 DEF Typed, Calling, NoCall
  <2>3. QED
    BY <1>3, <1>5, <2>1, <2>2
<1>9. CASE CreateRoom \/ RemoveUser \/ Joined \/ Left \/ Created
  <2>1. joined' \subseteq joined /\ lastRead' = lastRead /\ call.step # "member"
    BY <1>9 DEF CreateRoom, RemoveUser, Joined, Left, Created, tables
  <2>2. QED
    BY <1>3, <2>1
<1>10. ASSUME NEW op, NEW x, Call(op, x)
       PROVE  call'.room = r /\ call'.step = "member"
  <2>1. joined' = joined /\ lastRead' = lastRead /\ call.step # "member"
    BY <1>10 DEF Call, tables, NoCall
  <2>2. QED
    BY <1>3, <2>1
<1>11. CASE UNCHANGED vars \/ Type \/ Scroll \/ Fetch \/ Debounced \/ Receive \/ Follow
            \/ \E x \in Rooms : Click(x) \/ Post(x)
  <2>1. UNCHANGED <<joined, lastRead, call>>
    BY <1>11 DEF vars, Type, Scroll, Fetch, FindRooms, FindReads, CountUnread, Fetched,
       Debounced, Receive, Follow, Click, Post, tables
  <2>2. QED
    BY <1>4, <2>1
<1>12. QED
  BY <1>2, <1>6, <1>7, <1>8, <1>9, <1>10, <1>11
     DEF Next, User, Create, Join, Leave, Calls, Work

(* Unless a query failed, a member of a room has a read mark, but for the   *)
(* one that joinRoom or create is about to write, however many rooms and    *)
(* requests there are.                                                      *)
THEOREM MembersMarked == Spec => []MemberHasMark
<1>1. Init => MemberHasMark
  <2>1. ASSUME Init, NEW r \in joined PROVE lastRead[r] # Unmarked
    <3>1. r \in Rooms
      BY <2>1, RoomsAssumption DEF Init, Rooms
    <3>2. QED
      BY <2>1, <3>1 DEF Init, Unmarked
  <2>2. QED
    BY <2>1 DEF MemberHasMark
<1>2. QED
  BY <1>1, MemberNext, TypedAlways, PTL DEF Spec
-----------------------------------------------------------------------------
(* While nothing disturbs it.  One thing happens at a time; a page that was *)
(* asked for brings what the tables hold; and but while a new list is on    *)
(* its way, the list is right, up to the event, the request or the mark     *)
(* that is under way.                                                       *)

Sought == joined \intersect Found(query)
Told(e, r) == \E k \in 1 .. Len(wire) : wire[k] = [event |-> e, room |-> r]

(* A room that was created and is still to appear in the list; one that was *)
(* left and is still in it.                                                 *)
Announced(r) == \/ Told("new", r)
                \/ call.op = "create" /\ call.step = "member" /\ call.room = r
Dropped(r) == call.op = "leave" /\ call.step = "ok" /\ call.room = r

(* A message that is stored and not yet counted in the browser.             *)
Late(r) == IF r \in working \/ (Told("message", r) /\ r # selected) THEN 1 ELSE 0
Owed(r) == IF lastRead[r] = Unmarked THEN 0 ELSE posted[r] - lastRead[r]

Alone ==
  /\ fetch # NoFetch => call = NoCall /\ ~Others
  /\ call # NoCall => working = {} /\ marking = {}
  /\ call.op = "leave" => call.step # "member"
  /\ call # NoCall => (call.op = "create" /\ call.step = "ok") \/ wire = <<>>
  /\ working # {} => marking = {} /\ wire = <<>>
  /\ \A r, s \in working : r = s
  /\ wire # <<>> => marking = {} /\ Len(wire) = 1
  /\ marking \subseteq {selected}

Listing ==
  /\ \A r \in Ids : Dropped(r) \/ r \in Sought
  /\ \A r \in Rooms : Announced(r) => r \in joined
  /\ \A r \in joined : ~Dropped(r)
  /\ call.op = "create" /\ call.step \in {"row", "member"} => call.room \notin Ids
  /\ Chronological => \A r \in Sought :
       Announced(r) \/ (hasMore /\ r < cursor) \/ r \in Ids

Counted ==
  /\ selected # None => unread[selected] = 0
  /\ \A i \in Range(list) : i.joined /\ lastRead[i.id] # Unmarked /\ i.id \notin marking =>
       unread[i.id] + Late(i.id) = Owed(i.id)
  /\ \A r \in joined : r \in Ids \/ Announced(r) \/ lastRead[r] = Unmarked
                         \/ unread[r] + Late(r) <= Owed(r)

Paging ==
  fetch # NoFetch =>
    /\ fetch.step # "none" /\ fetch.text = query
    /\ ~fetch.new => hasMore /\ fetch.cursor = cursor
    /\ fetch.new => fetch.cursor = None
    /\ fetch.step # "sent" =>
         /\ Range(fetch.found) \subseteq Sought
         /\ fetch.new \/ Chronological => \A r \in Sought :
              \/ fetch.cursor # None /\ ~(r < fetch.cursor)
              \/ fetch.more /\ r < Last(fetch.found)
              \/ r \in Range(fetch.found)
    /\ fetch.step \in {"reads", "ok"} => fetch.marks = lastRead
    /\ fetch.step = "ok" => \A r \in Range(fetch.found) : fetch.counts[r] = Owed(r)

Settled == ~fetch.new /\ call.op # "join" => Listing /\ Counted
Peace == ~disturbed => Alone /\ Paging /\ Settled

LEMMA PeaceInit == Init => Peace
<1> SUFFICES ASSUME Init PROVE Peace
  OBVIOUS
<1>1. /\ fetch = [NoFetch EXCEPT !.step = "sent", !.new = TRUE]
      /\ call = NoCall /\ marking = {} /\ working = {} /\ wire = <<>> /\ query = FALSE
  BY DEF Init
<1>2. /\ fetch.step = "sent" /\ fetch.new = TRUE /\ fetch.text = FALSE /\ fetch.cursor = None
      /\ call = NoCall
  BY <1>1 DEF NoFetch
<1>3. Alone
  BY <1>1, NoFetchTyped DEF Alone, Others
<1>4. Paging
  BY <1>1, <1>2 DEF Paging
<1>5. QED
  BY <1>2, <1>3, <1>4 DEF Peace, Settled

(* What does not depend on the fetch.                                       *)
LEMMA ListSame ==
  ASSUME UNCHANGED <<joined, posted, lastRead, working, wire, list, unread, hasMore,
                     cursor, selected, call, marking, query>>
  PROVE  /\ Sought' = Sought /\ Ids' = Ids /\ Others' = Others
         /\ Listing' = Listing /\ Counted' = Counted
         /\ \A r : Owed(r)' = Owed(r)
<1>1. Found(query)' = Found(query)
  BY DEF Found
<1>2. Sought' = Sought /\ Ids' = Ids /\ Others' = Others
  BY <1>1 DEF Sought, Ids, Others
<1>3. \A r : /\ Announced(r)' = Announced(r) /\ Dropped(r)' = Dropped(r)
             /\ Late(r)' = Late(r) /\ Owed(r)' = Owed(r)
  BY DEF Announced, Dropped, Late, Owed, Told
<1>4. Listing' = Listing
  BY <1>2, <1>3 DEF Listing
<1>5. Counted' = Counted
  BY <1>2, <1>3 DEF Counted
<1>6. QED
  BY <1>2, <1>3, <1>4, <1>5

(* Steps that touch nothing of all this.                                    *)
LEMMA PeaceSame ==
  ASSUME Peace, UNCHANGED <<joined, posted, lastRead, working, wire, list, unread, hasMore,
                            cursor, selected, fetch, call, marking, query, disturbed>>
  PROVE  Peace'
<1>1. /\ Sought' = Sought /\ Others' = Others /\ Listing' = Listing /\ Counted' = Counted
      /\ \A r : Owed(r)' = Owed(r)
  BY ListSame
<1>2. Alone' = Alone
  BY <1>1 DEF Alone
<1>3. Paging' = Paging
  BY <1>1 DEF Paging
<1>4. QED
  BY <1>1, <1>2, <1>3 DEF Peace, Settled

(* The queries of a list, while nothing else goes on.                       *)
LEMMA QueryPeace ==
  ASSUME Typed, Typed', Peace, FindRooms \/ FindReads \/ CountUnread
  PROVE  Peace'
<1> SUFFICES ASSUME ~disturbed' PROVE Alone' /\ Paging' /\ Settled'
  BY DEF Peace
<1>1. /\ UNCHANGED <<joined, posted, lastRead, working, wire, list, unread, hasMore,
                     cursor, selected, call, marking, query, disturbed>>
      /\ fetch \in Fetches /\ fetch' \in Fetches
  BY DEF FindRooms, FindReads, CountUnread, tables, hook, page, history, Typed, Fetching
<1>2. /\ Sought' = Sought /\ Others' = Others /\ Listing' = Listing /\ Counted' = Counted
      /\ \A r : Owed(r)' = Owed(r)
  BY <1>1, ListSame
<1>3. Alone /\ Paging /\ Settled
  BY <1>1 DEF Peace
<1>4. fetch'.new = fetch.new /\ fetch'.text = fetch.text /\ fetch'.cursor = fetch.cursor
      /\ fetch'.step \in {"rooms", "reads", "ok"} /\ fetch.step # "none"
  BY <1>1 DEF FindRooms, FindReads, CountUnread, Fetches
<1>5. fetch # NoFetch /\ fetch' # NoFetch
  BY <1>4, NoFetchTyped
<1>6. Alone'
  BY <1>1, <1>2, <1>3, <1>5 DEF Alone
<1>7. Settled'
  BY <1>1, <1>2, <1>3, <1>4 DEF Settled
<1>8. CASE FindRooms
  <2> DEFINE rows == joined \intersect Found(fetch.text) \intersect Older(fetch.cursor)
             q == Newest(rows)
             p == Page(rows)
  <2>1. fetch' = [fetch EXCEPT !.step = "rooms", !.found = p, !.more = Len(q) > Limit]
    BY <1>8 DEF FindRooms, Page, Newest, Cut
  <2>2. fetch'.found = p /\ fetch'.more = (Len(q) > Limit) /\ fetch'.step = "rooms"
    BY <1>1, <2>1 DEF Fetches
  <2>3. rows \in SUBSET Rooms
    BY DEF Older
  <2>4. rows \subseteq Sought /\ fetch.text = query
    BY <1>3, <1>5 DEF Paging, Sought
  <2> HIDE DEF rows
  <2>5. /\ q \in Seq(Rooms) /\ Len(q) \in Nat /\ Limit \in Nat \ {0}
        /\ \A r \in rows : \E i \in 1 .. Len(q) : q[i] = r
        /\ \A i, j \in 1 .. Len(q) : i < j => q[j] < q[i]
    BY <2>3, NewestFirst, RoomsAssumption
  <2>6. /\ p \in Seq(Rooms) /\ Len(p) = Cut(q) /\ Cut(q) \in Nat
        /\ \A i \in 1 .. Len(p) : i \in 1 .. Len(q) /\ p[i] = q[i] /\ p[i] \in rows
    BY <2>3, PageIs
  <2> HIDE DEF q, p
  <2>7. Range(p) \subseteq Sought
    BY <2>4, <2>6 DEF Range
  <2>8. ASSUME NEW r \in rows, r \notin Range(p) PROVE Len(q) > Limit /\ r < Last(p)
    <3>1. PICK i \in 1 .. Len(q) : q[i] = r
      BY <2>5
    <3>2. ~(i <= Len(p))
      <4>1. ASSUME i <= Len(p) PROVE FALSE
        <5>1. i \in 1 .. Len(p) /\ p[i] = r
          BY <2>5, <2>6, <3>1, <4>1
        <5>2. r \in Range(p)
          BY <2>6, <5>1 DEF Range
        <5>3. QED
          BY <2>8, <5>2
      <4>2. QED
        BY <4>1
    <3>3. Len(q) > Limit /\ Len(p) = Limit
      BY <2>5, <2>6, <3>2 DEF Cut
    <3>4. Len(p) \in 1 .. Len(p) /\ Len(p) < i /\ Len(p) \in 1 .. Len(q)
      BY <2>5, <2>6, <3>1, <3>2, <3>3
    <3>5. q[i] < q[Len(p)] /\ p[Len(p)] = q[Len(p)]
      BY <2>5, <2>6, <3>4
    <3>6. QED
      BY <3>1, <3>3, <3>5 DEF Last
  <2>9. ASSUME fetch.new \/ Chronological, NEW r \in Sought
        PROVE  r \in rows \/ (fetch.cursor # None /\ ~(r < fetch.cursor))
    <3>1. r \in Rooms /\ fetch.cursor \in Places /\ r \in joined \intersect Found(fetch.text)
      <4>1. joined \in SUBSET Rooms
        BY RoomsAssumption DEF Typed, Rows, Rooms
      <4>2. QED
        BY <1>1, <2>4, <4>1 DEF Fetches, Sought
    <3>2. CASE fetch.cursor = None
      BY <3>1, <3>2 DEF rows, Older
    <3>3. CASE fetch.cursor # None
      <4>1. fetch.cursor \in Rooms /\ Chronological
        BY <1>3, <1>5, <2>9, <3>1, <3>3 DEF Paging, Places
      <4>2. r < fetch.cursor => IdOf[r] < IdOf[fetch.cursor]
        BY <3>1, <4>1 DEF Chronological
      <4>3. QED
        BY <3>1, <4>2 DEF rows, Older
    <3>4. QED
      BY <3>2, <3>3
  <2>10. Paging'
    BY <1>1, <1>2, <1>3, <1>4, <1>5, <2>2, <2>7, <2>8, <2>9 DEF Paging, Chronological
  <2>11. QED
    BY <1>6, <1>7, <2>10
<1>9. CASE FindReads
  <2>1. fetch' = [fetch EXCEPT !.step = "reads", !.marks = lastRead] /\ fetch.step = "rooms"
    BY <1>9 DEF FindReads
  <2>2. fetch'.found = fetch.found /\ fetch'.more = fetch.more /\ fetch'.marks = lastRead
        /\ fetch'.step = "reads"
    BY <1>1, <2>1 DEF Fetches
  <2>3. Paging'
    BY <1>1, <1>2, <1>3, <1>4, <1>5, <2>1, <2>2 DEF Paging, Chronological
  <2>4. QED
    BY <1>6, <1>7, <2>3
<1>10. CASE CountUnread
  <2> DEFINE counts == [r \in Range(fetch.found) |->
                          IF fetch.marks[r] = Unmarked THEN 0 ELSE posted[r] - fetch.marks[r]]
  <2>1. fetch' = [fetch EXCEPT !.step = "ok", !.counts = counts] /\ fetch.step = "reads"
    BY <1>10 DEF CountUnread
  <2>2. fetch.marks = lastRead
    BY <1>3, <1>5, <2>1 DEF Paging
  <2>3. \A r \in Range(fetch.found) : counts[r] = Owed(r)
    BY <2>2 DEF Owed
  <2> HIDE DEF counts
  <2>4. fetch'.found = fetch.found /\ fetch'.more = fetch.more /\ fetch'.marks = fetch.marks
        /\ fetch'.step = "ok" /\ fetch'.counts = counts
    BY <1>1, <2>1 DEF Fetches
  <2>5. Paging'
    BY <1>1, <1>2, <1>3, <1>4, <1>5, <2>1, <2>2, <2>3, <2>4 DEF Paging, Chronological
  <2>6. QED
    BY <1>6, <1>7, <2>5
<1>11. QED
  BY <1>8, <1>9, <1>10

(* The entries of the list, without their order.                            *)
LEMMA EntriesIds ==
  ASSUME list \in Seq(Items)
  PROVE  /\ Ids = {i.id : i \in Range(list)} /\ Range(list) \subseteq Items
         /\ \A i \in Range(list) : i.id \in Ids /\ i.id \in Rooms
         /\ \A r \in Ids : r \in Rooms /\ \E i \in Range(list) : i.id = r
<1>1. Ids = {i.id : i \in Range(list)} /\ Range(list) \subseteq Items
  BY DEF Ids, Range
<1>2. QED
  BY <1>1 DEF Items

LEMMA OnlyEntries ==
  ASSUME NEW T, NEW s \in Seq(T), NEW S
  PROVE  Range(Only(s, S)) = Range(s) \intersect S
<1>1. LET o == Only(s, S) IN
        /\ o \in Seq(T)
        /\ \A i \in 1 .. Len(o) : o[i] \in S /\ \E n \in 1 .. Len(s) : s[n] = o[i]
        /\ \A n \in 1 .. Len(s) : s[n] \in S => \E i \in 1 .. Len(o) : o[i] = s[n]
  BY OnlyKeeps
<1> DEFINE o == Only(s, S)
<1>2. /\ DOMAIN o = 1 .. Len(o) /\ DOMAIN s = 1 .. Len(s)
      /\ \A i \in 1 .. Len(o) : o[i] \in S /\ \E n \in 1 .. Len(s) : s[n] = o[i]
      /\ \A n \in 1 .. Len(s) : s[n] \in S => \E i \in 1 .. Len(o) : o[i] = s[n]
  BY <1>1
<1> HIDE DEF o
<1>3. /\ Range(o) = {o[i] : i \in 1 .. Len(o)}
      /\ Range(s) = {s[n] : n \in 1 .. Len(s)}
  BY <1>2 DEF Range
<1>4. Range(o) = Range(s) \intersect S
  BY <1>2, <1>3
<1>5. QED
  BY <1>4 DEF o

LEMMA ConcatEntries ==
  ASSUME NEW T, NEW l \in Seq(T), NEW o \in Seq(T)
  PROVE  Range(l \o o) = Range(l) \union Range(o)
<1>1. /\ Len(l) \in Nat /\ Len(o) \in Nat /\ Len(l \o o) = Len(l) + Len(o)
      /\ l \o o \in Seq(T)
      /\ \A i \in 1 .. Len(l) + Len(o) :
           (l \o o)[i] = IF i <= Len(l) THEN l[i] ELSE o[i - Len(l)]
  BY ConcatProperties
<1>2. ASSUME NEW x \in Range(l \o o) PROVE x \in Range(l) \union Range(o)
  <2>1. PICK i \in 1 .. Len(l) + Len(o) : (l \o o)[i] = x
    BY <1>1 DEF Range
  <2>2. i \in 1 .. Len(l) \/ i - Len(l) \in 1 .. Len(o)
    BY <1>1
  <2>3. QED
    BY <1>1, <2>1, <2>2 DEF Range
<1>3. ASSUME NEW x \in Range(l) PROVE x \in Range(l \o o)
  <2>1. PICK i \in 1 .. Len(l) : l[i] = x
    BY DEF Range
  <2>2. i \in 1 .. Len(l) + Len(o) /\ (l \o o)[i] = x
    BY <1>1, <2>1
  <2>3. QED
    BY <1>1, <2>2 DEF Range
<1>4. ASSUME NEW x \in Range(o) PROVE x \in Range(l \o o)
  <2>1. PICK i \in 1 .. Len(o) : o[i] = x
    BY DEF Range
  <2>2. i + Len(l) \in 1 .. Len(l) + Len(o) /\ ~(i + Len(l) <= Len(l)) /\ i + Len(l) - Len(l) = i
    BY <1>1
  <2>3. (l \o o)[i + Len(l)] = x
    BY <1>1, <2>1, <2>2
  <2>4. QED
    BY <1>1, <2>2, <2>3 DEF Range
<1>5. QED
  BY <1>2, <1>3, <1>4

(* What the list holds when a page has come.                                *)
LEMMA PageEntries ==
  ASSUME Typed, NEW q \in Seq(Rooms)
  PROVE  /\ Range(ItemsOf(q)) = {[id |-> r, joined |-> TRUE] : r \in Range(q)}
         /\ Range(AppendPage(ItemsOf(q))) = Range(list) \union
              {[id |-> r, joined |-> TRUE] : r \in Range(q) \ Ids}
         /\ AppendPage(ItemsOf(q)) \in Seq(Items)
<1>1. /\ ItemsOf(q) \in Seq(Items) /\ Len(ItemsOf(q)) = Len(q) /\ Len(q) \in Nat
      /\ \A k \in 1 .. Len(q) : ItemsOf(q)[k] = [id |-> q[k], joined |-> TRUE]
  BY ItemsAre
<1>2. Range(ItemsOf(q)) = {[id |-> r, joined |-> TRUE] : r \in Range(q)}
  <2>1. DOMAIN ItemsOf(q) = 1 .. Len(q) /\ DOMAIN q = 1 .. Len(q)
    BY <1>1
  <2>2. QED
    BY <1>1, <2>1 DEF Range
<1> DEFINE S == {i \in Range(ItemsOf(q)) : i.id \notin Ids}
<1>3. S = {[id |-> r, joined |-> TRUE] : r \in Range(q) \ Ids}
  <2>1. \A r : [id |-> r, joined |-> TRUE].id = r
    OBVIOUS
  <2>2. QED
    BY <1>2, <2>1
<1>4. Range(Only(ItemsOf(q), S)) = S /\ Only(ItemsOf(q), S) \in Seq(Items)
  <2>1. \A X : Only(ItemsOf(q), X) \in Seq(Items)
    BY <1>1, OnlyKeeps
  <2>2. \A X : Range(Only(ItemsOf(q), X)) = Range(ItemsOf(q)) \intersect X
    BY <1>1, OnlyEntries
  <2>3. QED
    BY <2>1, <2>2
<1>5. AppendPage(ItemsOf(q)) = list \o Only(ItemsOf(q), S) /\ list \in Seq(Items)
  BY DEF AppendPage, Typed, Hooks
<1> HIDE DEF S
<1>6. Range(AppendPage(ItemsOf(q))) = Range(list) \union S
  BY <1>4, <1>5, ConcatEntries
<1>7. AppendPage(ItemsOf(q)) \in Seq(Items)
  BY <1>4, <1>5, ConcatProperties
<1>8. QED
  BY <1>2, <1>3, <1>6, <1>7

LEMMA FetchedPeace ==
  ASSUME Typed, Typed', Peace, Fetched
  PROVE  Peace'
<1> SUFFICES ASSUME ~disturbed' PROVE Alone' /\ Paging' /\ Listing' /\ Counted'
  BY DEF Peace, Settled
<1> DEFINE q == fetch.found
           count(r) == IF r \in Range(q) THEN fetch.counts[r] ELSE 0
<1>1. /\ fetch \in Fetches /\ fetch.step = "ok" /\ q \in Seq(Rooms) /\ fetch.select \in Places
      /\ fetch.new \in BOOLEAN
      /\ list \in Seq(Items) /\ list' \in Seq(Items) /\ fetch.counts \in [Range(q) -> Nat]
      /\ unread \in [Rooms -> Nat] /\ unread' \in [Rooms -> Nat] /\ selected' \in Places
      /\ lastRead \in [Rooms -> Int] /\ posted \in [Rooms -> Nat]
      /\ \A r \in Rooms : lastRead[r] <= posted[r]
  <2>1. fetch \in Fetches /\ fetch.step = "ok" /\ fetch.counts \in [Range(q) -> Nat]
    BY DEF Fetched, Typed, Fetching
  <2>2. q \in Seq(Rooms) /\ fetch.select \in Places /\ fetch.new \in BOOLEAN
    BY <2>1 DEF Fetches
  <2>3. /\ list \in Seq(Items) /\ list' \in Seq(Items)
        /\ unread \in [Rooms -> Nat] /\ unread' \in [Rooms -> Nat] /\ selected' \in Places
    BY DEF Typed, Hooks
  <2>4. /\ lastRead \in [Rooms -> Int] /\ posted \in [Rooms -> Nat]
        /\ \A r \in Rooms : lastRead[r] <= posted[r]
    BY RoomsAssumption DEF Typed, Rows, Unmarked
  <2>5. QED
    BY <2>1, <2>2, <2>3, <2>4
<1>2. /\ list' = IF fetch.new THEN ItemsOf(q) ELSE AppendPage(ItemsOf(q))
      /\ unread' = [r \in Rooms |-> IF fetch.new \/ count(r) > 0
                                    THEN count(r) ELSE unread[r]]
      /\ hasMore' = fetch.more
      /\ cursor' = IF fetch.more THEN Last(q) ELSE None
      /\ selected' = IF fetch.select = None THEN selected ELSE fetch.select
      /\ marking' = marking \union ({fetch.select} \ {None, selected})
      /\ fetch' = NoFetch
      /\ UNCHANGED <<top, joined, posted, lastRead, working, wire, call, query>>
  BY DEF Fetched, ItemsOf, tables, OpenNext
<1>3. ~disturbed /\ (selected' # None => ~(unread'[selected'] > 0))
  BY DEF Fetched, Typed, Hooks, OpenNext
<1>4. Alone /\ Paging /\ Settled
  BY <1>3 DEF Peace
<1>5. fetch # NoFetch
  BY <1>1, NoFetchTyped
<1>6. call = NoCall /\ marking = {} /\ working = {} /\ wire = <<>>
  BY <1>4, <1>5 DEF Alone, Others
<1>7. ~fetch.new => Listing /\ Counted
  BY <1>4, <1>6, NoFetchTyped DEF Settled
<1>8. /\ Range(q) \subseteq Sought /\ (~fetch.new => hasMore /\ fetch.cursor = cursor)
      /\ (fetch.new => fetch.cursor = None)
      /\ fetch.new \/ Chronological => \A r \in Sought :
           \/ fetch.cursor # None /\ ~(r < fetch.cursor)
           \/ fetch.more /\ r < Last(q)
           \/ r \in Range(q)
      /\ \A r \in Range(q) : fetch.counts[r] = Owed(r)
  BY <1>1, <1>4, <1>5 DEF Paging
<1>9. /\ Sought' = Sought /\ Sought \subseteq joined /\ joined \in SUBSET Rooms
      /\ \A r : Owed(r)' = Owed(r)
  <2>1. Found(query)' = Found(query) /\ joined \in SUBSET Rooms
    BY <1>2, RoomsAssumption DEF Found, Typed, Rows, Rooms
  <2>2. QED
    BY <1>2, <2>1 DEF Sought, Owed
<1>10. \A r : /\ ~Announced(r) /\ ~Announced(r)' /\ ~Dropped(r) /\ ~Dropped(r)'
              /\ Late(r) = 0 /\ Late(r)' = 0
  <2>1. \A e, r : ~Told(e, r) /\ ~Told(e, r)'
    BY <1>2, <1>6 DEF Told
  <2>2. call.op = "none" /\ call'.op = "none"
    BY <1>2, <1>6, NoFetchTyped
  <2>3. QED
    BY <1>2, <1>6, <2>1, <2>2 DEF Announced, Dropped, Late
<1>11. Alone'
  BY <1>2, <1>6, NoFetchTyped DEF Alone
<1>12. Paging'
  BY <1>2 DEF Paging
<1> HIDE DEF q
<1> DEFINE fresh == {[id |-> r, joined |-> TRUE] : r \in Range(q) \ Ids}
           page1 == {[id |-> r, joined |-> TRUE] : r \in Range(q)}
<1>13. Range(list') = IF fetch.new THEN page1 ELSE Range(list) \union fresh
  BY <1>1, <1>2, PageEntries
<1>14. /\ \A i \in Range(list) : i.id \in Ids /\ i.id \in Rooms
       /\ \A r \in Ids : r \in Rooms /\ \E i \in Range(list) : i.id = r
       /\ Ids' = {i.id : i \in Range(list')}
  <2>1. list \in Seq(Items) => /\ \A i \in Range(list) : i.id \in Ids /\ i.id \in Rooms
                               /\ \A r \in Ids : r \in Rooms /\ \E i \in Range(list) : i.id = r
                               /\ Ids = {i.id : i \in Range(list)}
    BY EntriesIds
  <2>2. (list \in Seq(Items) => Ids = {i.id : i \in Range(list)})'
    BY EntriesIds, PTL
  <2>3. QED
    BY <1>1, <2>1, <2>2
<1>15. Ids' = IF fetch.new THEN Range(q) ELSE Ids \union Range(q)
  <2>1. \A r : [id |-> r, joined |-> TRUE].id = r
    OBVIOUS
  <2>2. \A r : r \in Ids' <=> \E i \in Range(list') : i.id = r
    BY <1>14
  <2>3. \A i \in fresh : i.id \in Range(q)
    BY <2>1
  <2>4. \A i \in page1 : i.id \in Range(q)
    BY <2>1
  <2>5. \A r \in Range(q) : [id |-> r, joined |-> TRUE] \in page1
    OBVIOUS
  <2>6. \A r \in Range(q) \ Ids : [id |-> r, joined |-> TRUE] \in fresh
    OBVIOUS
  <2> HIDE DEF fresh, page1
  <2>7. CASE fetch.new
    <3>1. Range(list') = page1
      BY <1>13, <2>7
    <3>2. \A r : r \in Ids' <=> r \in Range(q)
      BY <2>1, <2>2, <2>4, <2>5, <3>1
    <3>3. QED
      BY <2>7, <3>2
  <2>8. CASE ~fetch.new
    <3>1. Range(list') = Range(list) \union fresh
      BY <1>13, <2>8
    <3>2. \A r \in Ids' : r \in Ids \/ r \in Range(q)
      BY <1>14, <2>2, <2>3, <3>1
    <3>3. \A r \in Ids : r \in Ids'
      BY <1>14, <2>2, <3>1
    <3>4. \A r \in Range(q) \ Ids : r \in Ids'
      BY <2>1, <2>2, <2>6, <3>1
    <3>5. QED
      BY <2>8, <3>2, <3>3, <3>4
  <2>9. QED
    BY <2>7, <2>8
<1>16. Listing'
  <2>1. \A r \in Ids' : r \in Sought
    BY <1>7, <1>8, <1>10, <1>15 DEF Listing
  <2>2. ASSUME Chronological, NEW r \in Sought
        PROVE  (hasMore' /\ r < cursor') \/ r \in Ids'
    BY <1>2, <1>7, <1>8, <1>10, <1>15, <2>2 DEF Listing
  <2>3. QED
    BY <1>2, <1>6, <1>9, <1>10, <2>1, <2>2, NoFetchTyped DEF Listing, Chronological
<1>17. \A r \in Rooms : /\ count(r) \in Nat /\ unread[r] \in Nat /\ Owed(r) \in Nat
                        /\ (r \in Range(q) => count(r) = Owed(r))
                        /\ (r \notin Range(q) => count(r) = 0)
                        /\ unread'[r] = IF fetch.new \/ count(r) > 0 THEN count(r) ELSE unread[r]
  <2>1. \A r \in Rooms : Owed(r) \in Nat
    BY <1>1 DEF Owed, Unmarked
  <2>2. \A r \in Rooms : unread'[r] = IF fetch.new \/ count(r) > 0 THEN count(r) ELSE unread[r]
    <3> HIDE DEF count
    <3>1. QED
      BY <1>2
  <2>3. QED
    BY <1>1, <1>8, <2>1, <2>2
<1> HIDE DEF count
<1>18. ASSUME selected' # None PROVE unread'[selected'] = 0
  <2>1. unread'[selected'] \in Nat
    BY <1>1, <1>18 DEF Places
  <2>2. QED
    BY <1>3, <1>18, <2>1
<1>19. ASSUME NEW i \in Range(list'), i.joined, lastRead[i.id] # Unmarked
       PROVE  unread'[i.id] = Owed(i.id)
  <2>1. CASE i.id \in Range(q) /\ (fetch.new \/ i.id \notin Ids)
    <3>1. i.id \in Rooms /\ i.id \in joined
      BY <1>8, <1>9, <2>1
    <3>2. ~fetch.new => unread[i.id] + 0 <= Owed(i.id)
      BY <1>7, <1>10, <1>19, <2>1, <3>1 DEF Counted
    <3>3. QED
      BY <1>17, <2>1, <3>1, <3>2
  <2>2. CASE ~fetch.new /\ i \in Range(list)
    <3>1. i.id \in Rooms /\ unread[i.id] + 0 = Owed(i.id)
      BY <1>6, <1>7, <1>10, <1>14, <1>19, <2>2 DEF Counted
    <3>2. QED
      BY <1>17, <2>2, <3>1
  <2>3. QED
    BY <1>13, <1>19, <2>1, <2>2
<1>20. ASSUME NEW r \in joined, r \notin Ids', lastRead[r] # Unmarked
       PROVE  unread'[r] <= Owed(r)
  <2>1. r \in Rooms /\ r \notin Range(q)
    BY <1>9, <1>15, <1>20
  <2>2. ~fetch.new => unread[r] + 0 <= Owed(r)
    BY <1>7, <1>10, <1>15, <1>20 DEF Counted
  <2>3. QED
    BY <1>17, <2>1, <2>2
<1>21. Counted'
  <2>1. \A r \in Rooms : unread'[r] \in Nat
    BY <1>1
  <2>2. \A i \in Range(list') : i.id \in Rooms
    BY <1>8, <1>9, <1>13, <1>14
  <2>3. \A i \in Range(list') : i.joined /\ lastRead'[i.id] # Unmarked =>
          unread'[i.id] + Late(i.id)' = Owed(i.id)'
    BY <1>2, <1>9, <1>10, <1>19, <2>1, <2>2
  <2>4. \A r \in joined' : r \in Ids' \/ lastRead'[r] = Unmarked
                              \/ unread'[r] + Late(r)' <= Owed(r)'
    BY <1>2, <1>9, <1>10, <1>20, <2>1
  <2>5. QED
    BY <1>18, <2>3, <2>4 DEF Counted
<1>22. QED
  BY <1>11, <1>12, <1>16, <1>21

(* A new list is asked for: the list that is there no longer matters.       *)
LEMMA NewListPeace ==
  ASSUME Typed, Peace, NEW text \in BOOLEAN, NEW select \in Places, FetchNew(text, select),
         disturbed' \/ call' = NoCall, fetch # NoFetch \/ marking' = marking,
         UNCHANGED <<working, wire>>
  PROVE  Peace'
<1> SUFFICES ASSUME ~disturbed' PROVE Alone' /\ Paging' /\ Settled'
  BY DEF Peace
<1>1. /\ fetch = NoFetch
      /\ fetch' = [NoFetch EXCEPT !.step = "sent", !.new = TRUE, !.text = text,
                                  !.select = select]
      /\ cursor' = None /\ query' = text /\ ~Others /\ call' = NoCall /\ marking' = marking
  BY DEF FetchNew, OpenNext
<1>2. /\ fetch'.step = "sent" /\ fetch'.new = TRUE /\ fetch'.text = text
      /\ fetch'.cursor = None
  BY <1>1 DEF NoFetch
<1>3. marking' = {} /\ working' = {} /\ wire' = <<>>
  BY <1>1 DEF Others
<1>4. Alone'
  BY <1>1, <1>3, NoFetchTyped DEF Alone, Others
<1>5. Paging'
  BY <1>1, <1>2 DEF Paging
<1>6. Settled'
  BY <1>2 DEF Settled
<1>7. QED
  BY <1>4, <1>5, <1>6

LEMMA SearchPeace ==
  ASSUME Typed, Peace, Debounced \/ Joined
  PROVE  Peace'
<1>1. CASE Debounced
  <2>1. /\ FetchNew(typed, None) /\ typed \in BOOLEAN /\ None \in Places
        /\ UNCHANGED <<working, wire, call, marking>>
    BY <1>1 DEF Debounced, Typed, Hooks, Places
  <2>2. disturbed' \/ call' = NoCall
    BY <2>1 DEF FetchNew, OpenNext
  <2>3. QED
    BY <2>1, <2>2, NewListPeace
<1>2. CASE Joined
  <2>1. /\ FetchNew(FALSE, call.room) /\ call.room \in Places /\ call' = NoCall
        /\ fetch # NoFetch \/ marking' = marking
        /\ UNCHANGED <<working, wire>>
    BY <1>2 DEF Joined, Typed, Calling, Requests
  <2>2. QED
    BY <2>1, NewListPeace
<1>3. QED
  BY <1>1, <1>2

(* What is left when nothing goes on.                                       *)
LEMMA Silence ==
  ASSUME Peace, ~disturbed, ~Busy
  PROVE  /\ fetch = NoFetch /\ call = NoCall /\ marking = {} /\ working = {} /\ wire = <<>>
         /\ ~fetch.new /\ fetch.step = "none" /\ call.op = "none" /\ call.step = "none"
         /\ Listing /\ Counted
         /\ \A r : ~Announced(r) /\ ~Dropped(r) /\ Late(r) = 0
<1>1. fetch = NoFetch /\ call = NoCall /\ marking = {} /\ working = {} /\ wire = <<>>
  BY DEF Busy, Others
<1>2. ~fetch.new /\ fetch.step = "none" /\ call.op = "none" /\ call.step = "none"
  BY <1>1 DEF NoFetch, NoCall
<1>3. Listing /\ Counted
  BY <1>2 DEF Peace, Settled
<1>4. \A e, r : ~Told(e, r)
  BY <1>1 DEF Told
<1>5. QED
  BY <1>1, <1>2, <1>3, <1>4 DEF Announced, Dropped, Late

LEMMA ScrollPeace == ASSUME Typed, Peace, Scroll PROVE Peace'
<1> SUFFICES ASSUME ~disturbed' PROVE Alone' /\ Paging' /\ Settled'
  BY DEF Peace
<1>1. /\ ~disturbed /\ ~Busy /\ query = FALSE /\ hasMore
      /\ fetch' = [NoFetch EXCEPT !.step = "sent", !.cursor = cursor]
      /\ UNCHANGED <<joined, posted, lastRead, working, wire, list, unread, hasMore, cursor,
                     selected, call, marking, query>>
  BY DEF Scroll, tables, hook, page, Typed, Hooks
<1>2. /\ fetch'.step = "sent" /\ fetch'.new = FALSE /\ fetch'.text = FALSE
      /\ fetch'.cursor = cursor
  BY <1>1 DEF NoFetch
<1>3. /\ call = NoCall /\ marking = {} /\ working = {} /\ wire = <<>> /\ Listing /\ Counted
  BY <1>1, Silence
<1>4. Listing' /\ Counted'
  BY <1>1, <1>3, ListSame
<1>5. Alone'
  BY <1>1, <1>3, NoFetchTyped DEF Alone, Others
<1>6. Paging'
  BY <1>1, <1>2 DEF Paging
<1>7. QED
  BY <1>4, <1>5, <1>6 DEF Settled

LEMMA ClickPeace == ASSUME Typed, Peace, NEW r \in Rooms, Click(r) PROVE Peace'
<1> SUFFICES ASSUME ~disturbed' PROVE Alone' /\ Paging' /\ Settled'
  BY DEF Peace
<1>1. /\ ~disturbed /\ ~Busy /\ selected' = r
      /\ unread' = [unread EXCEPT ![r] = 0] /\ marking' = marking \union ({r} \ {selected})
      /\ UNCHANGED <<joined, posted, lastRead, working, wire, list, hasMore, cursor, fetch,
                     call, query>>
  BY DEF Click, Begin, tables, OpenNext
<1>2. /\ fetch = NoFetch /\ call = NoCall /\ marking = {} /\ working = {} /\ wire = <<>>
      /\ Listing /\ Counted
      /\ \A x : ~Announced(x) /\ ~Dropped(x) /\ Late(x) = 0
  BY <1>1, Silence
<1>3. /\ Sought' = Sought /\ Ids' = Ids
      /\ \A x : Owed(x)' = Owed(x)
  BY <1>1 DEF Sought, Ids, Owed, Found
<1>4. \A x : ~Announced(x)' /\ ~Dropped(x)' /\ Late(x)' = 0
  <2>1. \A e, x : ~Told(e, x)'
    BY <1>1, <1>2 DEF Told
  <2>2. QED
    BY <1>1, <1>2, <2>1, NoFetchTyped DEF Announced, Dropped, Late
<1>5. Alone'
  BY <1>1, <1>2, NoFetchTyped DEF Alone
<1>6. Paging'
  BY <1>1, <1>2 DEF Paging
<1>7. Listing'
  BY <1>1, <1>2, <1>3, <1>4, NoFetchTyped DEF Listing, Chronological
<1>8. /\ unread \in [Rooms -> Nat]
      /\ \A x \in Rooms : unread'[x] = IF x = r THEN 0 ELSE unread[x]
      /\ \A x \in Rooms : Owed(x) \in Nat
      /\ \A i \in Range(list) : i.id \in Rooms
      /\ joined \in SUBSET Rooms
  <2>1. \A x \in Rooms : Owed(x) \in Nat
    BY RoomsAssumption DEF Typed, Rows, Owed, Unmarked
  <2>2. joined \in SUBSET Rooms
    BY RoomsAssumption DEF Typed, Rows, Rooms
  <2>3. list \in Seq(Items) /\ unread \in [Rooms -> Nat]
    BY DEF Typed, Hooks
  <2>4. QED
    BY <1>1, <2>1, <2>2, <2>3, EntriesIds
<1>9. ASSUME NEW i \in Range(list), i.joined, lastRead[i.id] # Unmarked, i.id \notin marking'
      PROVE  unread'[i.id] = Owed(i.id)
  <2>1. i.id \in Rooms /\ unread[i.id] \in Nat /\ unread[i.id] + 0 = Owed(i.id)
    BY <1>2, <1>8, <1>9 DEF Counted
  <2>2. i.id = r => unread[r] = 0
    <3>1. ASSUME i.id = r PROVE r = selected /\ r # None
      BY <1>1, <1>9, <3>1 DEF Rooms, None
    <3>2. QED
      BY <1>2, <3>1 DEF Counted
  <2>3. QED
    BY <1>8, <2>1, <2>2
<1>10. ASSUME NEW x \in joined, x \notin Ids, lastRead[x] # Unmarked
       PROVE  unread'[x] <= Owed(x)
  <2>1. x \in Rooms /\ unread[x] \in Nat /\ Owed(x) \in Nat /\ unread[x] + 0 <= Owed(x)
    BY <1>2, <1>8, <1>10 DEF Counted
  <2>2. QED
    BY <1>8, <2>1
<1>11. Counted'
  <2>1. \A i \in Range(list') : i.joined /\ lastRead'[i.id] # Unmarked /\ i.id \notin marking'
          => unread'[i.id] + Late(i.id)' = Owed(i.id)'
    <3>1. \A x \in Rooms : unread'[x] \in Nat
      BY <1>8
    <3>2. QED
      BY <1>1, <1>3, <1>4, <1>8, <1>9, <3>1
  <2>2. \A x \in joined' : x \in Ids' \/ Announced(x)' \/ lastRead'[x] = Unmarked
                             \/ unread'[x] + Late(x)' <= Owed(x)'
    <3>1. \A x \in joined : unread'[x] \in Nat
      BY <1>8
    <3>2. QED
      BY <1>1, <1>3, <1>4, <1>10, <3>1
  <2>3. unread'[selected'] = 0
    BY <1>1, <1>8
  <2>4. QED
    BY <2>1, <2>2, <2>3 DEF Counted
<1>12. QED
  BY <1>5, <1>6, <1>7, <1>11 DEF Settled

LEMMA Numbers ==
  ASSUME Typed
  PROVE  /\ unread \in [Rooms -> Nat] /\ \A r \in Rooms : Owed(r) \in Nat
         /\ \A i \in Range(list) : i.id \in Rooms
         /\ joined \in SUBSET Rooms
<1>1. \A r \in Rooms : Owed(r) \in Nat
  BY RoomsAssumption DEF Typed, Rows, Owed, Unmarked
<1>2. joined \in SUBSET Rooms
  BY RoomsAssumption DEF Typed, Rows, Rooms
<1>3. list \in Seq(Items) /\ unread \in [Rooms -> Nat]
  BY DEF Typed, Hooks
<1>4. QED
  BY <1>1, <1>2, <1>3, EntriesIds

(* The room that is open has been read.                                     *)
LEMMA MarkPeace == ASSUME Typed, Typed', Peace, NEW r \in Rooms, MarkAsRead(r) PROVE Peace'
<1> SUFFICES ASSUME ~disturbed' PROVE Alone' /\ Paging' /\ Settled'
  BY DEF Peace
<1>1. /\ ~disturbed /\ r \in marking /\ marking' = marking \ {r} /\ lastRead' = Mark(r)
      /\ UNCHANGED <<joined, posted, working, wire, list, unread, hasMore, cursor, fetch,
                     selected, call, query>>
  BY DEF MarkAsRead, hook, page, history
<1>2. Alone /\ Paging /\ Settled
  BY <1>1 DEF Peace
<1>3. /\ call = NoCall /\ working = {} /\ wire = <<>> /\ fetch = NoFetch
      /\ marking = {r} /\ selected = r
  <2>1. call = NoCall /\ working = {} /\ wire = <<>> /\ marking \subseteq {selected}
    BY <1>1, <1>2 DEF Alone
  <2>2. fetch = NoFetch
    BY <1>1, <1>2 DEF Alone, Others
  <2>3. QED
    BY <1>1, <2>1, <2>2
<1>4. Listing /\ Counted
  BY <1>2, <1>3, NoFetchTyped DEF Settled, NoFetch
<1>5. \A x : /\ ~Announced(x) /\ ~Announced(x)' /\ ~Dropped(x) /\ ~Dropped(x)'
             /\ Late(x) = 0 /\ Late(x)' = 0
  <2>1. \A e, x : ~Told(e, x) /\ ~Told(e, x)'
    BY <1>1, <1>3 DEF Told
  <2>2. QED
    BY <1>1, <1>3, <2>1, NoFetchTyped DEF Announced, Dropped, Late
<1>6. Sought' = Sought /\ Ids' = Ids
  BY <1>1 DEF Sought, Ids, Found
<1>7. Alone'
  BY <1>1, <1>2, <1>3, NoFetchTyped DEF Alone
<1>8. Paging'
  BY <1>1, <1>3 DEF Paging
<1>9. Listing'
  BY <1>1, <1>3, <1>4, <1>5, <1>6, NoFetchTyped DEF Listing, Chronological
<1>10. /\ \A x \in Rooms : x # r => Owed(x)' = Owed(x) /\ lastRead'[x] = lastRead[x]
       /\ Owed(r)' = 0 /\ unread[r] = 0
  <2>1. /\ lastRead \in [Rooms -> Int] /\ posted \in [Rooms -> Nat]
    BY RoomsAssumption DEF Typed, Rows, Unmarked
  <2>2. /\ \A x \in Rooms : x # r => lastRead'[x] = lastRead[x]
        /\ lastRead'[r] = posted[r]
    BY <1>1, <2>1 DEF Mark
  <2>3. posted[r] \in Nat
    BY <2>1
  <2>4. unread[r] = 0
    BY <1>3, <1>4 DEF Counted, Rooms, None
  <2>5. QED
    BY <1>1, <2>2, <2>3, <2>4 DEF Owed, Unmarked
<1>11. Counted'
  <2>1. ASSUME NEW i \in Range(list), i.joined, lastRead'[i.id] # Unmarked
        PROVE  unread[i.id] + 0 = Owed(i.id)'
    BY <1>3, <1>4, <1>5, <1>10, <2>1, Numbers DEF Counted
  <2>2. ASSUME NEW x \in joined, x \notin Ids, lastRead'[x] # Unmarked
        PROVE  unread[x] + 0 <= Owed(x)'
    BY <1>3, <1>4, <1>5, <1>10, <2>2, Numbers DEF Counted
  <2>3. QED
    BY <1>1, <1>4, <1>5, <1>6, <2>1, <2>2 DEF Counted
<1>12. QED
  BY <1>7, <1>8, <1>9, <1>11 DEF Settled

(* A message is stored, ...                                                 *)
LEMMA PostPeace == ASSUME Typed, Typed', Peace, NEW r \in Rooms, Post(r) PROVE Peace'
<1> SUFFICES ASSUME ~disturbed' PROVE Alone' /\ Paging' /\ Settled'
  BY DEF Peace
<1>1. /\ ~disturbed /\ ~Busy
      /\ posted' = [posted EXCEPT ![r] = @ + 1] /\ working' = working \union {r}
      /\ UNCHANGED <<joined, lastRead, marking, wire, list, unread, hasMore, cursor, fetch,
                     selected, call, query>>
  BY DEF Post, Begin, hook, page
<1>2. /\ fetch = NoFetch /\ call = NoCall /\ marking = {} /\ working = {} /\ wire = <<>>
      /\ Listing /\ Counted
      /\ \A x : ~Announced(x) /\ ~Dropped(x) /\ Late(x) = 0
  BY <1>1, Silence
<1>3. Sought' = Sought /\ Ids' = Ids
  BY <1>1 DEF Sought, Ids, Found
<1>4. \A x : /\ ~Announced(x)' /\ ~Dropped(x)'
             /\ Late(x)' = IF x = r THEN 1 ELSE 0
  <2>1. \A e, x : ~Told(e, x)'
    BY <1>1, <1>2 DEF Told
  <2>2. QED
    BY <1>1, <1>2, <2>1, NoFetchTyped DEF Announced, Dropped, Late
<1>5. Alone'
  BY <1>1, <1>2, NoFetchTyped DEF Alone
<1>6. Paging'
  BY <1>1, <1>2 DEF Paging
<1>7. Listing'
  BY <1>1, <1>2, <1>3, <1>4, NoFetchTyped DEF Listing, Chronological
<1>8. ASSUME NEW x \in Rooms, lastRead[x] # Unmarked PROVE Owed(x)' = Owed(x) + Late(x)'
  <2>1. lastRead[x] \in Int /\ posted[x] \in Nat /\ lastRead'[x] = lastRead[x]
        /\ posted'[x] = IF x = r THEN posted[x] + 1 ELSE posted[x]
    BY <1>1, RoomsAssumption DEF Typed, Rows, Unmarked
  <2>2. QED
    BY <1>4, <1>8, <2>1 DEF Owed
<1>9. Counted'
  <2>1. ASSUME NEW i \in Range(list), i.joined, lastRead[i.id] # Unmarked
        PROVE  unread[i.id] + Late(i.id)' = Owed(i.id)'
    <3>1. i.id \in Rooms /\ unread[i.id] \in Nat /\ unread[i.id] + 0 = Owed(i.id)
      BY <1>2, <2>1, Numbers DEF Counted
    <3>2. QED
      BY <1>4, <1>8, <2>1, <3>1
  <2>2. ASSUME NEW x \in joined, x \notin Ids, lastRead[x] # Unmarked
        PROVE  unread[x] + Late(x)' <= Owed(x)'
    <3>1. x \in Rooms /\ unread[x] \in Nat /\ Owed(x) \in Nat /\ unread[x] + 0 <= Owed(x)
      BY <1>2, <2>2, Numbers DEF Counted
    <3>2. QED
      BY <1>4, <1>8, <2>2, <3>1
  <2>3. QED
    BY <1>1, <1>2, <1>3, <2>1, <2>2 DEF Counted
<1>10. QED
  BY <1>5, <1>6, <1>7, <1>9 DEF Settled

(* ... and everybody is told of it.                                         *)
LEMMA NotifyPeace ==
  ASSUME Typed, Typed', Peace, NEW r \in Rooms, Notify(r)
  PROVE  Peace'
<1> SUFFICES ASSUME ~disturbed' PROVE Alone' /\ Paging' /\ Settled'
  BY DEF Peace
<1>1. /\ ~disturbed /\ r \in working /\ working' = working \ {r}
      /\ lastRead' = IF selected = r THEN Mark(r) ELSE lastRead
      /\ wire' = Append(wire, [event |-> "message", room |-> r])
      /\ UNCHANGED <<joined, posted, marking, list, unread, hasMore, cursor, fetch,
                     selected, call, query>>
  BY DEF Notify, hook, page
<1>2. Alone /\ Paging /\ Settled
  BY <1>1 DEF Peace
<1>3. /\ call = NoCall /\ working = {r} /\ wire = <<>> /\ fetch = NoFetch /\ marking = {}
  BY <1>1, <1>2 DEF Alone, Others
<1>4. Listing /\ Counted
  BY <1>2, <1>3, NoFetchTyped DEF Settled, NoFetch
<1>5. wire' = <<[event |-> "message", room |-> r]>> /\ working' = {}
  BY <1>1, <1>3
<1>6. \A x : /\ ~Announced(x) /\ ~Announced(x)' /\ ~Dropped(x) /\ ~Dropped(x)'
             /\ Late(x) = IF x = r THEN 1 ELSE 0
             /\ Late(x)' = IF x = r /\ r # selected THEN 1 ELSE 0
  <2>1. \A e, x : ~Told(e, x)
    BY <1>3 DEF Told
  <2>2. \A e, x : Told(e, x)' <=> e = "message" /\ x = r
    BY <1>5 DEF Told
  <2>3. QED
    BY <1>1, <1>3, <1>5, <2>1, <2>2, NoFetchTyped DEF Announced, Dropped, Late
<1>7. Sought' = Sought /\ Ids' = Ids
  BY <1>1 DEF Sought, Ids, Found
<1>8. Alone'
  <2>1. Len(wire') = 1
    BY <1>5
  <2>2. QED
    BY <1>1, <1>3, <1>5, <2>1, NoFetchTyped DEF Alone
<1>9. Paging'
  BY <1>1, <1>3 DEF Paging
<1>10. Listing'
  BY <1>1, <1>3, <1>4, <1>6, <1>7, NoFetchTyped DEF Listing, Chronological
<1>11. ASSUME NEW x \in Rooms
       PROVE  \/ lastRead'[x] = lastRead[x] /\ Owed(x)' = Owed(x) /\ Late(x)' = Late(x)
              \/ Owed(x)' = 0 /\ unread[x] = 0 /\ Late(x)' = 0
  <2>1. lastRead \in [Rooms -> Int] /\ posted[x] \in Nat
    BY RoomsAssumption DEF Typed, Rows, Unmarked
  <2>2. CASE selected = r /\ x = r
    <3>1. lastRead'[x] = posted[x]
      BY <1>1, <2>1, <2>2 DEF Mark
    <3>2. unread[x] = 0
      BY <1>4, <2>2 DEF Counted, Rooms, None
    <3>3. QED
      BY <1>1, <1>6, <2>1, <2>2, <3>1, <3>2 DEF Owed, Unmarked
  <2>3. CASE ~(selected = r /\ x = r)
    <3>1. lastRead'[x] = lastRead[x]
      BY <1>1, <2>1, <2>3 DEF Mark
    <3>2. QED
      BY <1>1, <1>6, <2>3, <3>1 DEF Owed
  <2>4. QED
    BY <2>2, <2>3
<1>12. Counted'
  <2>1. ASSUME NEW i \in Range(list), i.joined, lastRead'[i.id] # Unmarked
        PROVE  unread[i.id] + Late(i.id)' = Owed(i.id)'
    <3>1. i.id \in Rooms
      BY Numbers
    <3>2. lastRead[i.id] # Unmarked => unread[i.id] + Late(i.id) = Owed(i.id)
      BY <1>3, <1>4, <2>1 DEF Counted
    <3>3. QED
      BY <1>11, <2>1, <3>1, <3>2
  <2>2. ASSUME NEW x \in joined, x \notin Ids, lastRead'[x] # Unmarked
        PROVE  unread[x] + Late(x)' <= Owed(x)'
    <3>1. x \in Rooms
      BY Numbers
    <3>2. lastRead[x] # Unmarked => unread[x] + Late(x) <= Owed(x)
      BY <1>4, <1>6, <2>2 DEF Counted
    <3>3. QED
      BY <1>11, <2>2, <3>1, <3>2
  <2>3. QED
    BY <1>1, <1>4, <1>7, <2>1, <2>2 DEF Counted
<1>13. QED
  BY <1>8, <1>9, <1>10, <1>12 DEF Settled

(* The requests to join, leave and create.                                  *)
LEMMA InCall ==
  ASSUME Peace, ~disturbed, call # NoCall
  PROVE  /\ Alone /\ fetch = NoFetch /\ working = {} /\ marking = {}
         /\ call.op # "join" => Listing /\ Counted
         /\ ~(call.op = "create" /\ call.step = "ok") =>
              wire = <<>> /\ \A e, r : ~Told(e, r)
<1>1. Alone /\ fetch = NoFetch /\ working = {} /\ marking = {}
  BY DEF Peace, Alone
<1>2. fetch.new = FALSE
  BY <1>1 DEF NoFetch
<1>3. QED
  BY <1>1, <1>2 DEF Peace, Settled, Alone, Told

LEMMA StepIs ==
  ASSUME Typed, NEW s \in {"row", "member", "ok"}, Step(s)
  PROVE  /\ call'.op = call.op /\ call'.room = call.room /\ call'.open = call.open
         /\ call'.step = s /\ call' # NoCall
<1>1. call \in Requests
  BY DEF Typed, Calling
<1>2. QED
  BY <1>1 DEF Step, Requests, NoCall

LEMMA CallPeace ==
  ASSUME Typed, Peace, NEW op \in {"join", "leave", "create"}, NEW r, Call(op, r),
         op = "create" => r \notin Ids
  PROVE  Peace'
<1> SUFFICES ASSUME ~disturbed' PROVE Alone' /\ Paging' /\ Settled'
  BY DEF Peace
<1>1. /\ ~disturbed /\ ~Busy
      /\ call' = [op |-> op, step |-> "sent", room |-> r, open |-> selected]
      /\ UNCHANGED <<joined, posted, lastRead, working, wire, list, unread, hasMore, cursor,
                     fetch, selected, marking, query>>
  BY DEF Call, Begin, tables, hook, page
<1>2. /\ fetch = NoFetch /\ call = NoCall /\ marking = {} /\ working = {} /\ wire = <<>>
      /\ Listing /\ Counted
      /\ \A x : ~Announced(x) /\ ~Dropped(x) /\ Late(x) = 0
  BY <1>1, Silence
<1>3. Sought' = Sought /\ Ids' = Ids /\ \A x : Owed(x)' = Owed(x)
  BY <1>1 DEF Sought, Ids, Found, Owed
<1>4. call'.op = op /\ call'.step = "sent" /\ call'.room = r
  BY <1>1
<1>5. \A x : /\ ~Announced(x)' /\ ~Dropped(x)' /\ Late(x)' = 0
  <2>1. \A e, x : ~Told(e, x)'
    BY <1>1, <1>2 DEF Told
  <2>2. QED
    BY <1>1, <1>2, <1>4, <2>1 DEF Announced, Dropped, Late
<1>6. Alone'
  BY <1>1, <1>2, <1>4 DEF Alone
<1>7. Paging'
  BY <1>1, <1>2 DEF Paging
<1>8. Listing'
  BY <1>1, <1>2, <1>3, <1>4, <1>5 DEF Listing, Chronological
<1>9. Counted'
  BY <1>1, <1>2, <1>3, <1>5 DEF Counted
<1>10. QED
  BY <1>6, <1>7, <1>8, <1>9 DEF Settled

LEMMA CreateRoomPeace == ASSUME Typed, Peace, CreateRoom PROVE Peace'
<1> SUFFICES ASSUME ~disturbed' PROVE Alone' /\ Paging' /\ Settled'
  BY DEF Peace
<1>1. /\ ~disturbed /\ call.op = "create" /\ call.step = "sent" /\ Step("row")
      /\ UNCHANGED <<joined, posted, lastRead, working, wire, list, unread, hasMore, cursor,
                     fetch, selected, marking, query>>
  BY DEF CreateRoom, hook, page, history
<1>2. call # NoCall
  BY <1>1, NoFetchTyped
<1>3. /\ Alone /\ fetch = NoFetch /\ working = {} /\ marking = {} /\ wire = <<>>
      /\ Listing /\ Counted /\ \A e, x : ~Told(e, x)
  BY <1>1, <1>2, InCall
<1>4. call'.op = "create" /\ call'.room = call.room /\ call'.step = "row" /\ call' # NoCall
  BY <1>1, StepIs
<1>5. Sought' = Sought /\ Ids' = Ids /\ \A x : Owed(x)' = Owed(x)
  BY <1>1 DEF Sought, Ids, Found, Owed
<1>6. \A x : /\ ~Announced(x) /\ ~Announced(x)' /\ ~Dropped(x) /\ ~Dropped(x)'
             /\ Late(x)' = Late(x)
  <2>1. \A e, x : ~Told(e, x)'
    BY <1>1, <1>3 DEF Told
  <2>2. QED
    BY <1>1, <1>3, <1>4, <2>1 DEF Announced, Dropped, Late
<1>7. Alone'
  BY <1>1, <1>3, <1>4 DEF Alone
<1>8. Paging'
  BY <1>1, <1>3 DEF Paging
<1>9. call.room \notin Ids
  <2>1. call.room = top + 1 /\ joined \in SUBSET (1 .. top) /\ top \in Nat
    BY <1>1, RoomsAssumption DEF Typed, Calling, Rows
  <2>2. Ids \subseteq joined
    BY <1>3, <1>6 DEF Listing, Sought
  <2>3. QED
    BY <2>1, <2>2
<1>10. Listing'
  BY <1>1, <1>3, <1>4, <1>5, <1>6, <1>9 DEF Listing, Chronological
<1>11. Counted'
  BY <1>1, <1>3, <1>5, <1>6 DEF Counted
<1>12. QED
  BY <1>7, <1>8, <1>10, <1>11 DEF Settled

LEMMA AddUserPeace == ASSUME Typed, Peace, AddUserToRoom PROVE Peace'
<1> SUFFICES ASSUME ~disturbed' PROVE Alone' /\ Paging' /\ Settled'
  BY DEF Peace
<1>1. /\ ~disturbed /\ <<call.op, call.step>> \in {<<"create", "row">>, <<"join", "sent">>}
      /\ joined' = joined \union {call.room} /\ Step("member")
      /\ UNCHANGED <<posted, lastRead, working, wire, list, unread, hasMore, cursor,
                     fetch, selected, marking, query>>
  BY DEF AddUserToRoom, hook, page, history
<1>2. call # NoCall /\ ((call.op = "create" /\ call.step = "row") \/ call.op = "join")
  BY <1>1, NoFetchTyped
<1>3. /\ Alone /\ fetch = NoFetch /\ working = {} /\ marking = {} /\ wire = <<>>
      /\ call.op # "join" => Listing /\ Counted
      /\ \A e, x : ~Told(e, x)
  BY <1>1, <1>2, InCall, NoFetchTyped
<1>4. call'.op = call.op /\ call'.room = call.room /\ call'.step = "member" /\ call' # NoCall
  BY <1>1, StepIs
<1>5. Alone'
  BY <1>1, <1>2, <1>3, <1>4 DEF Alone
<1>6. Paging'
  BY <1>1, <1>3 DEF Paging
<1>7. SUFFICES ASSUME call.op = "create" PROVE Listing' /\ Counted'
  BY <1>2, <1>4, <1>5, <1>6 DEF Settled
<1>8. Sought' \subseteq Sought \union {call.room} /\ Sought \subseteq Sought'
      /\ Ids' = Ids /\ \A x : Owed(x)' = Owed(x)
  <2>1. Found(query)' = Found(query)
    BY <1>1 DEF Found
  <2>2. QED
    BY <1>1, <2>1 DEF Sought, Ids, Owed
<1>9. \A x : /\ ~Announced(x) /\ (Announced(x)' <=> x = call.room)
             /\ ~Dropped(x) /\ ~Dropped(x)' /\ Late(x)' = Late(x)
  <2>1. \A e, x : ~Told(e, x)'
    BY <1>1, <1>3 DEF Told
  <2>2. QED
    BY <1>1, <1>2, <1>3, <1>4, <1>7, <2>1 DEF Announced, Dropped, Late
<1>10. Listing'
  BY <1>1, <1>2, <1>3, <1>4, <1>7, <1>8, <1>9 DEF Listing, Chronological
<1>11. Counted'
  BY <1>1, <1>3, <1>7, <1>8, <1>9 DEF Counted
<1>12. QED
  BY <1>10, <1>11

LEMMA AddReadPeace == ASSUME SameInstance, Typed, Peace, AddRead PROVE Peace'
<1> SUFFICES ASSUME ~disturbed' PROVE Alone' /\ Paging' /\ Settled'
  BY DEF Peace
<1>1. /\ ~disturbed /\ call.step = "member" /\ lastRead' = Mark(call.room) /\ Step("ok")
      /\ wire' = IF call.op = "create" THEN Append(wire, [event |-> "new", room |-> call.room])
                 ELSE wire
      /\ UNCHANGED <<joined, posted, working, list, unread, hasMore, cursor,
                     fetch, selected, marking, query>>
  <2>1. SameInstance = TRUE
    BY RoomsAssumption
  <2>2. QED
    BY <2>1 DEF AddRead, hook, page, history
<1>2. call # NoCall
  BY <1>1, NoFetchTyped
<1>3. /\ Alone /\ fetch = NoFetch /\ working = {} /\ marking = {} /\ wire = <<>>
      /\ call.op # "join" => Listing /\ Counted
      /\ \A e, x : ~Told(e, x)
  BY <1>1, <1>2, InCall
<1>4. call'.op = call.op /\ call'.room = call.room /\ call'.step = "ok" /\ call' # NoCall
  BY <1>1, StepIs
<1>5. call.op \in {"join", "create"} /\ call.room \in Rooms
  <2>1. call.op \in {"none", "join", "leave", "create"}
    BY DEF Typed, Calling, Requests
  <2>2. call.op # "none" /\ call.op # "leave"
    BY <1>1, <1>2, <1>3 DEF Typed, Calling, Alone
  <2>3. QED
    BY <2>1, <2>2 DEF Typed, Calling
<1>6. wire' = IF call.op = "create" THEN <<[event |-> "new", room |-> call.room]>> ELSE <<>>
  BY <1>1, <1>3
<1>7. Alone'
  <2>1. wire' # <<>> => Len(wire') = 1 /\ call.op = "create"
    BY <1>6
  <2>2. QED
    BY <1>1, <1>3, <1>4, <1>5, <2>1 DEF Alone
<1>8. Paging'
  BY <1>1, <1>3 DEF Paging
<1>9. SUFFICES ASSUME call.op = "create" PROVE Listing' /\ Counted'
  BY <1>4, <1>5, <1>7, <1>8 DEF Settled
<1>10. Sought' = Sought /\ Ids' = Ids
  BY <1>1 DEF Sought, Ids, Found
<1>11. \A x : /\ (Announced(x) <=> x = call.room) /\ (Announced(x)' <=> x = call.room)
              /\ ~Dropped(x) /\ ~Dropped(x)' /\ Late(x) = 0 /\ Late(x)' = 0
  <2>1. \A e, x : Told(e, x)' <=> e = "new" /\ x = call.room
    BY <1>6, <1>9 DEF Told
  <2>2. QED
    BY <1>1, <1>3, <1>4, <1>9, <2>1 DEF Announced, Dropped, Late
<1>12. Listing'
  BY <1>1, <1>3, <1>4, <1>9, <1>10, <1>11 DEF Listing, Chronological
<1>13. \A x \in Rooms : x # call.room => lastRead'[x] = lastRead[x] /\ Owed(x)' = Owed(x)
  <2>1. \A x \in Rooms : x # call.room => lastRead'[x] = lastRead[x]
    BY <1>1, <1>5 DEF Mark, Typed, Rows
  <2>2. QED
    BY <1>1, <2>1 DEF Owed
<1>14. call.room \notin Ids
  BY <1>1, <1>3, <1>9 DEF Listing
<1>15. \A i \in Range(list) : i.id \in Ids /\ i.id \in Rooms /\ i.id # call.room
  BY <1>14, EntriesIds DEF Typed, Hooks
<1>16. Counted'
  <2>1. ASSUME NEW i \in Range(list), i.joined, lastRead'[i.id] # Unmarked
        PROVE  unread[i.id] + Late(i.id)' = Owed(i.id)'
    BY <1>3, <1>9, <1>11, <1>13, <1>15, <2>1 DEF Counted
  <2>2. ASSUME NEW x \in joined, x \notin Ids, x # call.room, lastRead'[x] # Unmarked
        PROVE  unread[x] + Late(x)' <= Owed(x)'
    BY <1>3, <1>9, <1>11, <1>13, <2>2, Numbers DEF Counted
  <2>3. QED
    BY <1>1, <1>3, <1>9, <1>10, <1>11, <2>1, <2>2 DEF Counted
<1>17. QED
  BY <1>12, <1>16

LEMMA RemovePeace == ASSUME Typed, Peace, RemoveUser PROVE Peace'
<1> SUFFICES ASSUME ~disturbed' PROVE Alone' /\ Paging' /\ Settled'
  BY DEF Peace
<1>1. /\ ~disturbed /\ call.op = "leave" /\ call.step = "sent" /\ Step("ok")
      /\ joined' = joined \ {call.room}
      /\ UNCHANGED <<posted, lastRead, working, wire, list, unread, hasMore, cursor,
                     fetch, selected, marking, query>>
  BY DEF RemoveUser, hook, page, history
<1>2. call # NoCall
  BY <1>1, NoFetchTyped
<1>3. /\ Alone /\ fetch = NoFetch /\ working = {} /\ marking = {} /\ wire = <<>>
      /\ Listing /\ Counted /\ \A e, x : ~Told(e, x)
  BY <1>1, <1>2, InCall
<1>4. call'.op = "leave" /\ call'.room = call.room /\ call'.step = "ok" /\ call' # NoCall
  BY <1>1, StepIs
<1>5. Alone'
  BY <1>1, <1>3, <1>4 DEF Alone
<1>6. Paging'
  BY <1>1, <1>3 DEF Paging
<1>7. Sought' = Sought \ {call.room} /\ Ids' = Ids /\ \A x : Owed(x)' = Owed(x)
  <2>1. Found(query)' = Found(query)
    BY <1>1 DEF Found
  <2>2. QED
    BY <1>1, <2>1 DEF Sought, Ids, Owed
<1>8. \A x : /\ ~Announced(x) /\ ~Announced(x)' /\ ~Dropped(x)
             /\ (Dropped(x)' <=> x = call.room) /\ Late(x)' = Late(x)
  <2>1. \A e, x : ~Told(e, x)'
    BY <1>1, <1>3 DEF Told
  <2>2. QED
    BY <1>1, <1>3, <1>4, <2>1 DEF Announced, Dropped, Late
<1>9. Listing'
  BY <1>1, <1>3, <1>4, <1>7, <1>8 DEF Listing, Chronological
<1>10. Counted'
  BY <1>1, <1>3, <1>7, <1>8 DEF Counted
<1>11. QED
  BY <1>5, <1>6, <1>9, <1>10 DEF Settled

LEMMA LeftPeace == ASSUME Typed, Typed', Peace, Left PROVE Peace'
<1> SUFFICES ASSUME ~disturbed' PROVE Alone' /\ Paging' /\ Settled'
  BY DEF Peace
<1> DEFINE kept == {i \in Range(list) : i.id # call.room}
<1>1. /\ ~disturbed /\ call.op = "leave" /\ call.step = "ok"
      /\ list' = Only(list, kept) /\ call' = NoCall
      /\ selected' = IF call.open = call.room THEN None ELSE selected
      /\ UNCHANGED <<joined, posted, lastRead, working, wire, unread, hasMore, cursor,
                     fetch, marking, query>>
  BY DEF Left, tables, history, OpenNext
<1>2. call # NoCall
  BY <1>1, NoFetchTyped
<1>3. /\ Alone /\ fetch = NoFetch /\ working = {} /\ marking = {} /\ wire = <<>>
      /\ Listing /\ Counted /\ \A e, x : ~Told(e, x)
  BY <1>1, <1>2, InCall
<1>4. Range(list') = kept
  <2>1. list \in Seq(Items)
    BY DEF Typed, Hooks
  <2>2. \A S : Range(Only(list, S)) = Range(list) \intersect S
    BY <2>1, OnlyEntries
  <2>3. QED
    BY <1>1, <2>2
<1>5. Ids' = Ids \ {call.room}
  <2>1. list \in Seq(Items) => Ids = {i.id : i \in Range(list)}
    BY EntriesIds
  <2>2. (list \in Seq(Items) => Ids = {i.id : i \in Range(list)})'
    BY EntriesIds, PTL
  <2>3. QED
    BY <1>4, <2>1, <2>2 DEF Typed, Hooks
<1>6. Sought' = Sought /\ \A x : Owed(x)' = Owed(x)
  BY <1>1 DEF Sought, Owed, Found
<1>7. \A x : /\ ~Announced(x) /\ ~Announced(x)' /\ (Dropped(x) <=> x = call.room)
             /\ ~Dropped(x)' /\ Late(x) = 0 /\ Late(x)' = 0
  <2>1. \A e, x : ~Told(e, x)'
    BY <1>1, <1>3 DEF Told
  <2>2. QED
    BY <1>1, <1>3, <2>1, NoFetchTyped DEF Announced, Dropped, Late
<1>8. Alone'
  BY <1>1, <1>3, NoFetchTyped DEF Alone
<1>9. Paging'
  BY <1>1, <1>3 DEF Paging
<1>10. call.room \notin Sought
  BY <1>3, <1>7 DEF Listing, Sought
<1>11. Listing'
  BY <1>1, <1>3, <1>5, <1>6, <1>7, <1>10, NoFetchTyped DEF Listing, Chronological
<1>12. call.room \notin joined
  BY <1>3, <1>7 DEF Listing
<1>13. Counted'
  <2>1. \A i \in Range(list') : i \in Range(list)
    BY <1>4
  <2>2. \A i \in Range(list') : i.joined /\ lastRead[i.id] # Unmarked =>
          unread[i.id] + Late(i.id)' = Owed(i.id)'
    BY <1>3, <1>6, <1>7, <2>1 DEF Counted
  <2>3. \A x \in joined : x \in Ids' \/ lastRead[x] = Unmarked
                            \/ unread[x] + Late(x)' <= Owed(x)'
    BY <1>3, <1>5, <1>6, <1>7, <1>12 DEF Counted
  <2>4. selected' # None => unread[selected'] = 0
    BY <1>1, <1>3 DEF Counted
  <2>5. QED
    BY <1>1, <2>2, <2>3, <2>4 DEF Counted
<1>14. QED
  BY <1>8, <1>9, <1>11, <1>13 DEF Settled

LEMMA CreatedPeace == ASSUME Typed, Peace, Created PROVE Peace'
<1> SUFFICES ASSUME ~disturbed' PROVE Alone' /\ Paging' /\ Settled'
  BY DEF Peace
<1>1. /\ ~disturbed /\ call.op = "create" /\ call.step = "ok" /\ call' = NoCall
      /\ UNCHANGED <<joined, posted, lastRead, working, wire, list, unread, hasMore, cursor,
                     fetch, selected, marking, query>>
  BY DEF Created, tables, hook, page, history
<1>2. call # NoCall
  BY <1>1, NoFetchTyped
<1>3. /\ Alone /\ fetch = NoFetch /\ working = {} /\ marking = {} /\ Listing /\ Counted
  BY <1>1, <1>2, InCall
<1>4. Sought' = Sought /\ Ids' = Ids /\ \A x : Owed(x)' = Owed(x)
  BY <1>1 DEF Sought, Ids, Found, Owed
<1>5. \A x : /\ Announced(x)' = Announced(x) /\ Dropped(x)' = Dropped(x) /\ ~Dropped(x)
             /\ Late(x)' = Late(x)
  <2>1. \A e, x : Told(e, x)' = Told(e, x)
    BY <1>1 DEF Told
  <2>2. QED
    BY <1>1, <1>3, <2>1, NoFetchTyped DEF Announced, Dropped, Late
<1>6. Alone'
  BY <1>1, <1>3, NoFetchTyped DEF Alone
<1>7. Paging'
  BY <1>1, <1>3 DEF Paging
<1>8. Listing'
  BY <1>1, <1>3, <1>4, <1>5, NoFetchTyped DEF Listing, Chronological
<1>9. Counted'
  BY <1>1, <1>3, <1>4, <1>5 DEF Counted
<1>10. QED
  BY <1>6, <1>7, <1>8, <1>9 DEF Settled

LEMMA ReceivePeace == ASSUME Typed, Typed', Peace, Receive PROVE Peace'
<1> SUFFICES ASSUME ~disturbed' PROVE Alone' /\ Paging' /\ Settled'
  BY DEF Peace
<1> DEFINE r == Head(wire).room
<1>1. /\ wire # <<>> /\ wire' = Tail(wire)
      /\ UNCHANGED <<joined, posted, lastRead, working, hasMore, cursor, fetch, selected,
                     call, marking, query>>
      /\ \/ /\ Head(wire).event = "new" /\ list' = AddNewRoom(r) /\ unread' = unread
            /\ disturbed' = (disturbed \/ r \notin Found(query))
         \/ /\ Head(wire).event # "new" /\ list' = list /\ unread' = IncrementUnread(r)
            /\ disturbed' = disturbed
  BY DEF Receive, tables, page
<1>2. ~disturbed /\ (Head(wire).event = "new" => r \in Found(query))
  BY <1>1 DEF Typed, Hooks
<1>3. Alone /\ Paging /\ Settled
  BY <1>2 DEF Peace
<1>4. /\ marking = {} /\ working = {} /\ fetch = NoFetch /\ Len(wire) = 1
      /\ call = NoCall \/ (call.op = "create" /\ call.step = "ok")
  BY <1>1, <1>3 DEF Alone, Others
<1>5. Listing /\ Counted
  BY <1>3, <1>4, NoFetchTyped DEF Settled, NoFetch
<1>6. /\ wire \in Seq(Events) /\ Head(wire) = wire[1] /\ wire[1] \in Events
      /\ wire' = <<>>
  <2>1. wire \in Seq(Events)
    BY DEF Typed, Traffic
  <2>2. Tail(wire) \in Seq(Events) /\ Len(Tail(wire)) = 0
    BY <1>1, <1>4, <2>1
  <2>3. QED
    BY <1>1, <1>4, <2>1, <2>2
<1>7. \A e, x : /\ ~Told(e, x)'
                /\ Told(e, x) <=> e = Head(wire).event /\ x = r
  <2>1. \A e, x : Told(e, x) <=> wire[1] = [event |-> e, room |-> x]
    <3>1. 1 .. Len(wire) = {1}
      BY <1>4
    <3>2. QED
      BY <3>1 DEF Told
  <2>2. \A e, x : wire[1] = [event |-> e, room |-> x] <=> e = wire[1].event /\ x = wire[1].room
    BY <1>6 DEF Events
  <2>3. \A e, x : ~Told(e, x)'
    BY <1>6 DEF Told
  <2>4. QED
    BY <1>6, <2>1, <2>2, <2>3
<1>8. r \in Rooms /\ Head(wire).event \in {"new", "message"}
  BY <1>6 DEF Events
<1> HIDE DEF r
<1>9. \A x : /\ ~Announced(x)' /\ ~Dropped(x)' /\ ~Dropped(x) /\ Late(x)' = 0
             /\ (Announced(x) <=> Head(wire).event = "new" /\ x = r)
             /\ Late(x) = IF Head(wire).event = "message" /\ x = r /\ r # selected
                          THEN 1 ELSE 0
  BY <1>1, <1>4, <1>7, NoFetchTyped DEF Announced, Dropped, Late
<1>10. Sought' = Sought /\ \A x : Owed(x)' = Owed(x)
  BY <1>1 DEF Sought, Owed, Found
<1>11. Alone'
  BY <1>1, <1>3, <1>4, <1>6, NoFetchTyped DEF Alone
<1>12. Paging'
  BY <1>1, <1>4 DEF Paging
<1>13. CASE Head(wire).event = "new"
  <2>1. unread' = unread /\ list' = AddNewRoom(r) /\ r \in Found(query) /\ r \in joined
    BY <1>1, <1>2, <1>5, <1>8, <1>9, <1>13 DEF Listing
  <2>2. /\ \A i \in Range(list') : i \in Range(list) \/ ~i.joined
        /\ Ids' = Ids \union {r}
    <3>1. CASE r \in Ids
      <4>1. list' = list
        BY <2>1, <3>1 DEF AddNewRoom
      <4>2. QED
        BY <3>1, <4>1 DEF Ids
    <3>2. CASE r \notin Ids
      <4> DEFINE new == [id |-> r, joined |-> FALSE]
      <4>1. new \in Items /\ <<new>> \in Seq(Items) /\ list \in Seq(Items)
            /\ Range(<<new>>) = {new}
        <5>1. new \in Items /\ <<new>> \in Seq(Items) /\ list \in Seq(Items)
          BY <1>8 DEF Items, Typed, Hooks
        <5> HIDE DEF new
        <5>2. Range(<<new>>) = {new}
          <6>1. DOMAIN <<new>> = {1} /\ <<new>>[1] = new
            OBVIOUS
          <6>2. QED
            BY <6>1 DEF Range
        <5>3. QED
          BY <5>1, <5>2
      <4>2. Range(list') = {new} \union Range(list)
        <5>1. list' = <<new>> \o list
          BY <2>1, <3>2 DEF AddNewRoom
        <5> HIDE DEF new
        <5>2. \A l, o \in Seq(Items) : Range(l \o o) = Range(l) \union Range(o)
          BY ConcatEntries
        <5>3. Range(<<new>> \o list) = Range(<<new>>) \union Range(list)
          BY <4>1, <5>2
        <5>4. QED
          BY <4>1, <5>1, <5>3
      <4>3. list \in Seq(Items) => Ids = {i.id : i \in Range(list)}
        BY EntriesIds
      <4>4. (list \in Seq(Items) => Ids = {i.id : i \in Range(list)})'
        BY EntriesIds, PTL
      <4>5. new.id = r /\ new.joined = FALSE
        OBVIOUS
      <4> HIDE DEF new
      <4>6. Ids' = Ids \union {r}
        BY <4>1, <4>2, <4>3, <4>4, <4>5 DEF Typed, Hooks
      <4>7. QED
        BY <4>2, <4>5, <4>6
    <3>3. QED
      BY <3>1, <3>2
  <2>3. r \in Sought
    BY <2>1 DEF Sought
  <2>4. Listing'
    BY <1>1, <1>4, <1>5, <1>9, <1>10, <2>2, <2>3, NoFetchTyped DEF Listing, Chronological
  <2>5. Counted'
    BY <1>1, <1>5, <1>9, <1>10, <1>13, <2>1, <2>2 DEF Counted
  <2>6. QED
    BY <1>11, <1>12, <2>4, <2>5 DEF Settled
<1>14. CASE Head(wire).event = "message"
  <2>1. unread' = IncrementUnread(r) /\ list' = list
    BY <1>1, <1>14
  <2>2. Ids' = Ids
    BY <2>1 DEF Ids
  <2>3. Listing'
    BY <1>1, <1>4, <1>5, <1>9, <1>10, <1>14, <2>2, NoFetchTyped DEF Listing, Chronological
  <2>4. \A x \in Rooms : unread'[x] = unread[x] + Late(x) /\ unread'[x] \in Nat
    BY <1>8, <1>9, <1>14, <2>1, Numbers DEF IncrementUnread
  <2>5. selected # None => unread'[selected] = 0
    <3>1. ASSUME selected # None PROVE selected \in Rooms /\ Late(selected) = 0
      BY <1>9, <3>1 DEF Typed, Hooks, Places
    <3>2. QED
      BY <1>5, <2>4, <3>1 DEF Counted
  <2>6. ASSUME NEW i \in Range(list), i.joined, lastRead[i.id] # Unmarked
        PROVE  unread'[i.id] + 0 = Owed(i.id)
    BY <1>4, <1>5, <2>4, <2>6, Numbers DEF Counted
  <2>7. ASSUME NEW x \in joined, x \notin Ids, lastRead[x] # Unmarked
        PROVE  unread'[x] + 0 <= Owed(x)
    BY <1>5, <1>9, <1>14, <2>4, <2>7, Numbers DEF Counted
  <2>8. Counted'
    BY <1>1, <1>9, <1>10, <2>1, <2>2, <2>5, <2>6, <2>7 DEF Counted
  <2>9. QED
    BY <1>11, <1>12, <2>3, <2>8 DEF Settled
<1>15. QED
  BY <1>8, <1>13, <1>14

LEMMA PeaceNext ==
  SameInstance /\ Typed /\ Typed' /\ Peace /\ [Next]_vars => Peace'
<1> SUFFICES ASSUME SameInstance, Typed, Typed', Peace, [Next]_vars PROVE Peace'
  OBVIOUS
<1>1. CASE Type \/ Follow \/ UNCHANGED vars
  BY <1>1, PeaceSame DEF Type, Follow, vars, tables, hook, page, history
<1>2. CASE Scroll
  BY <1>2, ScrollPeace
<1>3. CASE Create
  <2>1. top + 1 \notin Ids \/ Peace'
    <3>1. SUFFICES ASSUME ~disturbed' PROVE top + 1 \notin Ids
      BY DEF Peace
    <3>2. ~disturbed /\ ~Busy
      BY <1>3, <3>1 DEF Create, Call, Begin
    <3>3. Ids \subseteq joined
      BY <3>2, Silence DEF Listing, Sought
    <3>4. joined \in SUBSET (1 .. top) /\ top \in Nat
      BY RoomsAssumption DEF Typed, Rows
    <3>5. QED
      BY <3>3, <3>4
  <2>2. QED
    BY <1>3, <2>1, CallPeace DEF Create
<1>4. ASSUME NEW r \in Rooms, Click(r) PROVE Peace'
  BY <1>4, ClickPeace
<1>5. ASSUME NEW r \in Rooms, Join(r) \/ Leave(r) PROVE Peace'
  BY <1>5, CallPeace DEF Join, Leave
<1>6. CASE FindRooms \/ FindReads \/ CountUnread
  BY <1>6, QueryPeace
<1>7. CASE Fetched
  BY <1>7, FetchedPeace
<1>8. CASE CreateRoom \/ AddUserToRoom \/ AddRead \/ RemoveUser
  BY <1>8, CreateRoomPeace, AddUserPeace, AddReadPeace, RemovePeace
<1>9. CASE Debounced \/ Joined
  BY <1>9, SearchPeace
<1>10. CASE Left \/ Created
  BY <1>10, LeftPeace, CreatedPeace
<1>11. CASE Receive
  BY <1>11, ReceivePeace
<1>12. ASSUME NEW r \in Rooms, MarkAsRead(r) \/ Notify(r) \/ Post(r) PROVE Peace'
  BY <1>12, MarkPeace, NotifyPeace, PostPeace
<1>13. CASE FetchFailed \/ CallFailed
  BY <1>13 DEF FetchFailed, CallFailed, Peace
<1>14. ASSUME NEW r \in Rooms, MarkFailed(r) PROVE Peace'
  BY <1>14 DEF MarkFailed, Peace
<1>15. CASE Reconnect
  <2>1. CASE Busy
    BY <1>15, <2>1 DEF Reconnect, Begin, Peace
  <2>2. CASE ~Busy
    <3>1. wire = <<>> /\ disturbed' = disturbed
      BY <1>15, <2>2 DEF Reconnect, Begin, Busy, Others, Typed, Hooks
    <3>2. QED
      BY <1>15, <3>1, PeaceSame DEF Reconnect, tables, hook, page
  <2>3. QED
    BY <2>1, <2>2
<1>16. QED
  BY <1>1, <1>2, <1>3, <1>4, <1>5, <1>6, <1>7, <1>8, <1>9, <1>10, <1>11, <1>12, <1>13, <1>14,
     <1>15 DEF Next, User, Fetch, Calls, Work

LEMMA PeaceAlways == ASSUME SameInstance PROVE Spec => []Peace
<1>1. Typed /\ Typed' /\ Peace /\ [Next]_vars => Peace'
  BY PeaceNext
<1>2. QED
  BY <1>1, PeaceInit, TypedAlways, PTL DEF Spec

(* Whatever has gone wrong, a list that is fetched in peace holds what the  *)
(* tables hold, and stays right while things happen one at a time           *)
(* (use-rooms-management.ts, room.service.ts findAll).                      *)
THEOREM PeaceHealsList == ASSUME SameInstance PROVE Spec => []ListHeals
<1>1. Typed /\ Peace => ListHeals
  <2>1. SUFFICES ASSUME Typed, Peace, ~disturbed, ~Busy
                 PROVE  /\ Ids \subseteq Sought
                        /\ (Chronological /\ ~hasMore) => Ids = Sought
    BY DEF ListHeals, Quiet, Sought
  <2>2. Listing /\ \A r : ~Announced(r) /\ ~Dropped(r)
    BY <2>1, Silence
  <2>3. QED
    BY <2>2 DEF Listing
<1>2. QED
  BY <1>1, PeaceAlways, TypedAlways, PTL

(* In the same circumstances the badges are the numbers of unread messages  *)
(* (addNewRoom and incrementUnread of use-rooms-management.ts, countUnread  *)
(* of room.service.ts).                                                     *)
THEOREM PeaceHealsBadges == ASSUME SameInstance PROVE Spec => []BadgeHeals
<1>1. Typed /\ Peace => BadgeHeals
  <2>1. SUFFICES ASSUME Typed, Peace, ~disturbed, ~Busy, NEW k \in DOMAIN list,
                        list[k].joined, lastRead[list[k].id] # Unmarked
                 PROVE  unread[list[k].id] = posted[list[k].id] - lastRead[list[k].id]
    BY DEF BadgeHeals, Quiet
  <2>2. Counted /\ marking = {} /\ \A r : Late(r) = 0
    BY <2>1, Silence
  <2>3. list[k] \in Range(list) /\ list[k].id \in Rooms
    <3>1. list[k] \in Range(list)
      BY DEF Range
    <3>2. \A i \in Range(list) : i.id \in Rooms
      BY <2>1, Numbers
    <3>3. QED
      BY <3>1, <3>2
  <2>4. unread[list[k].id] \in Nat /\ unread[list[k].id] + 0 = Owed(list[k].id)
    BY <2>1, <2>2, <2>3, Numbers DEF Counted
  <2>5. QED
    BY <2>1, <2>4 DEF Owed
<1>2. QED
  BY <1>1, PeaceAlways, TypedAlways, PTL
=============================================================================
