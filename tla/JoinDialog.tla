----------------------------- MODULE JoinDialog -----------------------------
(***************************************************************************)
(* JoinRoomDialog: the rooms one has not joined, in pages, with a search.  *)
(* fetchRooms works with the state of the render it was made in, and there *)
(* may be several of it at a time.                                         *)
(*                                                                         *)
(* A room is a number, in the order of creation.  The box holds nothing    *)
(* (FALSE) or the searched text (TRUE).                                    *)
(* The specification has names of its own, for a module that proves facts  *)
(* about it beside those of another one.                                   *)
(***************************************************************************)
EXTENDS Integers, FiniteSets, SequencesExt, Lists

CONSTANTS MaxRooms, Matching, Limit, MaxActs, MaxFaults

Rooms == 1 .. MaxRooms
None == 0

ASSUME JoinDialogAssumption ==
  /\ MaxRooms \in Nat \ {0} /\ Matching \subseteq Rooms /\ Limit \in Nat \ {0}
  /\ MaxActs \in Nat /\ MaxFaults \in Nat

VARIABLES
  top, joined,                          \* the tables
  isOpen, search, list, loading, loadingMore, hasMore, cursor,
  timer,                                \* the search to come, with its render
  fetches,                              \* fetchRooms in progress
  joining,                              \* handleJoinRoom in progress
  started, disturbed,                   \* history, see Begin
  acts, faults

tables == <<top, joined>>
spinners == <<loading, loadingMore>>
dialog == <<isOpen, search, list, spinners, hasMore, cursor>>
history == <<started, disturbed>>
dialogVars == <<tables, dialog, timer, fetches, joining, history, acts, faults>>

Found(text) == (IF text THEN Matching ELSE Rooms) \intersect 1 .. top
Ids == Range(list)
NoTimer == [on |-> FALSE, cursor |-> None, some |-> FALSE]

DialogInit ==
  /\ top = MaxRooms - 1 /\ joined = {}
  /\ isOpen = FALSE /\ search = FALSE /\ list = <<>>
  /\ loading = FALSE /\ loadingMore = FALSE /\ hasMore = FALSE /\ cursor = None
  /\ timer = NoTimer /\ fetches = {} /\ joining = {}
  /\ started = 0 /\ disturbed = FALSE
  /\ acts = 0 /\ faults = 0

Act == acts < MaxActs /\ acts' = acts + 1

(* History: disturbed says that, since the dialog was opened or a search    *)
(* begun with nothing under way, something has begun while something else   *)
(* was, has failed, or was asked for with the cursor of another list.       *)
Busy == fetches # {} \/ joining # {}
-----------------------------------------------------------------------------
(* fetchRooms.  same: the value is the search of the render.                *)

Fetch(text, same, c) ==
  /\ started' = started + 1
  /\ fetches' = fetches \union {[n |-> started', step |-> "sent", text |-> text,
                                 same |-> same, cursor |-> c, found |-> <<>>,
                                 more |-> FALSE]}

(* RoomService.findAll, with ids in the order of creation.                  *)
Find(f) ==
  /\ f \in fetches /\ f.step = "sent"
  /\ LET rows == {r \in Found(f.text) \ joined : f.cursor # None => r < f.cursor}
         newest == Only([k \in Rooms |-> MaxRooms + 1 - k], rows)
     IN fetches' = (fetches \ {f}) \union
          {[f EXCEPT !.step = "ok", !.more = Len(newest) > Limit,
             !.found = SubSeq(newest, 1, IF Len(newest) > Limit THEN Limit
                                         ELSE Len(newest))]}
  /\ UNCHANGED <<tables, dialog, timer, joining, history, acts, faults>>

(* Mutant: the rooms that are there already are added again.                *)
AppendAll(f) == IF f.same THEN list \o f.found ELSE f.found
Merge(f) == IF f.same THEN list \o Only(f.found, Range(f.found) \ Ids)
            ELSE f.found

Fetched(f) ==
  /\ f \in fetches /\ f.step = "ok"
  /\ fetches' = fetches \ {f}
  /\ list' = Merge(f)
  /\ hasMore' = f.more
  /\ cursor' = IF f.more THEN Last(f.found) ELSE None
  /\ loading' = FALSE /\ loadingMore' = FALSE
  /\ UNCHANGED <<tables, isOpen, search, timer, joining, history, acts, faults>>

(* Mutant: without finally.                                                 *)
KeepSpinners == UNCHANGED spinners
StopSpinners == loading' = FALSE /\ loadingMore' = FALSE
FetchFailed(f) ==
  /\ f \in fetches /\ faults < MaxFaults
  /\ faults' = faults + 1
  /\ fetches' = fetches \ {f}
  /\ StopSpinners
  /\ disturbed' = TRUE
  /\ UNCHANGED <<tables, isOpen, search, list, hasMore, cursor, timer, joining,
                 started, acts>>
-----------------------------------------------------------------------------
(* The user.                                                                *)

Clear == list' = <<>> /\ cursor' = None /\ hasMore' = FALSE

(* The first effect.  What it clears is cleared for the next render, and    *)
(* this fetchRooms still has the old cursor.  A search that was left in the *)
(* box is emptied, which sets the timer of the second effect.               *)
Open ==
  /\ Act
  /\ ~isOpen /\ isOpen' = TRUE
  /\ Clear /\ loading' = TRUE /\ loadingMore' = (list # <<>>)
  /\ search' = FALSE
  /\ timer' = [NoTimer EXCEPT !.on = search]
  /\ Fetch(FALSE, ~search, cursor)
  /\ disturbed' = (Busy \/ cursor # None)
  /\ UNCHANGED <<tables, joining, faults>>

Close ==
  /\ Act
  /\ isOpen /\ isOpen' = FALSE
  /\ timer' = NoTimer
  /\ UNCHANGED <<tables, search, list, spinners, hasMore, cursor, fetches,
                 joining, history, faults>>

(* The second effect keeps the cursor and the rooms of this render.         *)
Type ==
  /\ Act
  /\ isOpen
  /\ search' = ~search
  /\ timer' = [on |-> TRUE, cursor |-> cursor, some |-> list # <<>>]
  /\ UNCHANGED <<tables, isOpen, list, spinners, hasMore, cursor, fetches,
                 joining, history, faults>>

(* Mutant: the list is not cleared for a new search.                        *)
KeepList == cursor' = None /\ hasMore' = FALSE /\ UNCHANGED list
ClearForSearch == Clear

(* 500 ms after the last key.                                               *)
Debounced ==
  /\ timer.on
  /\ timer' = NoTimer
  /\ ClearForSearch
  /\ loading' = TRUE /\ loadingMore' = (loadingMore \/ timer.some)
  /\ Fetch(search, TRUE, timer.cursor)
  /\ disturbed' = (Busy \/ timer.cursor # None)
  /\ UNCHANGED <<tables, isOpen, search, joining, acts, faults>>

Scroll ==
  /\ Act
  /\ isOpen /\ ~loading /\ hasMore /\ ~loadingMore
  /\ loading' = (list = <<>>) /\ loadingMore' = (list # <<>>)
  /\ Fetch(search, TRUE, cursor)
  /\ disturbed' = (disturbed \/ Busy)
  /\ UNCHANGED <<tables, isOpen, search, list, hasMore, cursor, timer, joining, faults>>

Join(r) ==
  /\ Act
  /\ isOpen /\ ~loading /\ r \in Ids
  /\ joining' = joining \union {r}
  /\ disturbed' = TRUE
  /\ UNCHANGED <<tables, dialog, timer, fetches, started, faults>>

(* onJoinRoom has reported any error itself and does not throw: the dialog  *)
(* is closed in any case, also when it has been opened again meanwhile.     *)
Joined(r, ok) ==
  /\ r \in joining
  /\ joining' = joining \ {r}
  /\ joined' = IF ok THEN joined \union {r} ELSE joined
  /\ isOpen' = FALSE
  /\ timer' = NoTimer
  /\ UNCHANGED <<top, search, list, spinners, hasMore, cursor, fetches, history,
                 acts, faults>>

(* Somebody else creates a room.                                            *)
Created ==
  /\ top < MaxRooms /\ top' = top + 1
  /\ disturbed' = TRUE
  /\ UNCHANGED <<joined, dialog, timer, fetches, joining, started, acts, faults>>
-----------------------------------------------------------------------------
Progress == Debounced \/ \E f \in fetches : Find(f) \/ Fetched(f)
DialogNext ==
  \/ Progress \/ Open \/ Close \/ Type \/ Scroll \/ Created
  \/ \E r \in Rooms : Join(r) \/ \E ok \in BOOLEAN : Joined(r, ok)
  \/ \E f \in fetches : FetchFailed(f)

DialogSpec == DialogInit /\ [][DialogNext]_dialogVars
DialogFairSpec == DialogSpec /\ WF_dialogVars(Progress)
-----------------------------------------------------------------------------
(* Whatever overlaps, no room is twice in the list.                         *)
NoDuplicates == \A j, k \in DOMAIN list : list[j] = list[k] => j = k

(* From a list that was asked for without a cursor while nothing else was   *)
(* under way, and as long as things happen one at a time: the dialog shows  *)
(* only rooms that match the search and are not joined, and when it says    *)
(* that all have been loaded, it has all of them.  The condition on the     *)
(* cursor is needed: a search, and a dialog that is opened again, ask with  *)
(* the cursor of the list before.                                           *)
Quiet == isOpen /\ ~disturbed /\ ~Busy /\ ~timer.on
ShowsAll ==
  Quiet => /\ Ids \subseteq Found(search) \ joined
           /\ ~hasMore => Ids = Found(search) \ joined

(* The spinner does not turn for ever.                                      *)
SpinnerEnds == loading ~> ~loading
=============================================================================
