--------------------------- MODULE ComposerProofs ---------------------------
(* Proofs about Composer, for any set of rooms and any number of acts of    *)
(* the user and of errors of the store.                                     *)
EXTENDS Composer, ListProofs

Places == Rooms \union {NoRoom}

Typed ==
  /\ acts \in Nat /\ faults \in Nat /\ changed \in BOOLEAN /\ room \in Rooms
  /\ content \in Nat /\ files \in Seq(Nat)
  /\ sending \in [step : {"idle", "sending", "waiting"}, text : Nat, todo : Seq(Nat),
                  room : Places, first : BOOLEAN, alone : BOOLEAN]
  /\ upload \in [step : {"none", "sent", "put", "ok", "failed"}, file : Nat, room : Places]
  /\ sent \in Seq([text : Nat, file : Nat, room : Places])

(* What is true of sendMessage and of its request at each of their steps.   *)
InStep ==
  /\ sending.step = "idle" => sending = Idle
  /\ sending.step # "sending" => sending.todo = <<>>
  /\ \/ upload = NoUpload
     \/ /\ upload.step # "none" /\ sending.step = "sending" /\ sending.todo # <<>>
        /\ upload.file = Head(sending.todo) /\ upload.room = sending.room
  /\ sending.alone => sending.todo = <<>> /\ sending.first
  /\ upload.step \in {"put", "ok"} => upload.file \in objects
  /\ upload.step = "ok" => Row \in rows

SentTexts == {sent[k].text : k \in 1 .. Len(sent)}
SentFiles == {sent[k].file : k \in 1 .. Len(sent)}

(* Numbers come from acts of the user: the next one is new.                 *)
Numbered ==
  /\ content <= acts /\ sending.text <= acts
  /\ \A n \in 1 .. Len(files) : files[n] # NoFile /\ files[n] <= acts
  /\ \A n \in 1 .. Len(sending.todo) :
       sending.todo[n] # NoFile /\ sending.todo[n] <= acts
  /\ \A x \in SentTexts \union SentFiles : x <= acts

Single(s) == \A n, k \in 1 .. Len(s) : s[n] = s[k] => n = k
Unsent(s) == \A n \in 1 .. Len(s) : s[n] \notin SentFiles

(* What can still be sent has not been sent.                                *)
Fresh ==
  /\ sending = Idle /\ content \in SentTexts => content = Empty
  /\ sending.step = "sending" /\ sending.first /\ sending.text \in SentTexts
       => sending.text = Empty
  /\ Single(files) /\ Single(sending.todo)
  /\ sending = Idle => Unsent(files)
  /\ Unsent(sending.todo)

(* What has been taken from the box has been sent, has failed or is still to *)
(* be; until a file is sent, the text is.                                   *)
Taken ==
  /\ ~sending.first => sending.text \in SentTexts \/ sending.text = Empty
  /\ sending.step = "waiting" /\ sending.alone => sending.text \in SentTexts
  /\ isLoading /\ ~changed =>
       /\ content = sending.text /\ (files = <<>> => sending.alone \/ ~sending.first)
       /\ \A n \in 1 .. Len(files) :
            \/ files[n] \in failed
            \/ files[n] \in SentFiles /\ ~sending.first
            \/ \E k \in 1 .. Len(sending.todo) : sending.todo[k] = files[n]

Composed == Typed /\ InStep /\ Numbered /\ Fresh /\ Taken

-----------------------------------------------------------------------------
(* One more message.                                                        *)
LEMMA SentMore ==
  ASSUME Typed, NEW t \in Nat, NEW f \in Nat, NEW r \in Places,
         sent' = Append(sent, Message(t, f, r))
  PROVE  /\ SentTexts' = SentTexts \union {t}
         /\ SentFiles' = SentFiles \union {f}
         /\ sent' \in Seq([text : Nat, file : Nat, room : Places])
<1> DEFINE e == Message(t, f, r)
<1>1. e \in [text : Nat, file : Nat, room : Places] /\ e.text = t /\ e.file = f
  BY DEF Message
<1> HIDE DEF e
<1>2. /\ Len(sent) \in Nat /\ Append(sent, e) \in Seq([text : Nat, file : Nat, room : Places])
      /\ Len(sent) + 1 \in 1 .. Len(Append(sent, e)) /\ Append(sent, e)[Len(sent) + 1] = e
      /\ \A n \in 1 .. Len(sent) :
           n \in 1 .. Len(Append(sent, e)) /\ Append(sent, e)[n] = sent[n]
      /\ \A n \in 1 .. Len(Append(sent, e)) :
           \/ n \in 1 .. Len(sent) /\ Append(sent, e)[n] = sent[n]
           \/ n = Len(sent) + 1
  BY <1>1, AppendAt DEF Typed
<1>3. sent' = Append(sent, e)
  BY DEF e
<1>4. SentTexts' = SentTexts \union {t}
  BY <1>1, <1>2, <1>3 DEF SentTexts
<1>5. SentFiles' = SentFiles \union {f}
  BY <1>1, <1>2, <1>3 DEF SentFiles
<1>6. QED
  BY <1>2, <1>3, <1>4, <1>5

LEMMA RemoveAtKeeps ==
  ASSUME NEW T, NEW s \in Seq(T), NEW i \in 1 .. Len(s)
  PROVE  LET r == RemoveAt(s, i) IN
         /\ r \in Seq(T) /\ Len(r) \in Nat
         /\ \A n \in 1 .. Len(r) :
              /\ n < i => n \in 1 .. Len(s) /\ r[n] = s[n]
              /\ ~(n < i) => n + 1 \in 1 .. Len(s) /\ r[n] = s[n + 1]
<1> DEFINE a == SubSeq(s, 1, i - 1)
           b == SubSeq(s, i + 1, Len(s))
<1>1. Len(s) \in Nat /\ \A n \in 1 .. Len(s) : s[n] \in T
  BY ElementOfSeq
<1>2. /\ a \in Seq(T) /\ Len(a) = i - 1 /\ \A n \in 1 .. i - 1 : a[n] = s[n]
  <2>1. /\ a \in Seq(T) /\ Len(a) = (IF 1 <= i - 1 THEN (i - 1) - 1 + 1 ELSE 0)
        /\ \A n \in 1 .. (i - 1) - 1 + 1 : a[n] = s[1 + n - 1]
    BY <1>1, SubSeqProperties
  <2>2. \A n \in 1 .. i - 1 : n \in 1 .. (i - 1) - 1 + 1 /\ 1 + n - 1 = n
    OBVIOUS
  <2> HIDE DEF a
  <2>3. QED
    BY <2>1, <2>2
<1>3. /\ b \in Seq(T) /\ Len(b) = Len(s) - i
      /\ \A n \in 1 .. Len(s) - i : b[n] = s[i + n]
  <2>1. /\ b \in Seq(T) /\ Len(b) = (IF i + 1 <= Len(s) THEN Len(s) - (i + 1) + 1 ELSE 0)
        /\ \A n \in 1 .. Len(s) - (i + 1) + 1 : b[n] = s[(i + 1) + n - 1]
    BY <1>1, SubSeqProperties
  <2>2. \A n \in 1 .. Len(s) - i :
          n \in 1 .. Len(s) - (i + 1) + 1 /\ (i + 1) + n - 1 = i + n
    BY <1>1
  <2> HIDE DEF b
  <2>3. QED
    BY <1>1, <2>1, <2>2
<1> HIDE DEF a, b
<1>4. /\ a \o b \in Seq(T) /\ Len(a \o b) = Len(a) + Len(b)
      /\ \A n \in 1 .. Len(a) + Len(b) :
           (a \o b)[n] = IF n <= Len(a) THEN a[n] ELSE b[n - Len(a)]
  BY <1>2, <1>3, ConcatProperties
<1> DEFINE c == a \o b
<1> HIDE DEF c
<1>5. c \in Seq(T) /\ Len(c) = Len(s) - 1
      /\ \A n \in 1 .. Len(s) - 1 : c[n] = IF n <= i - 1 THEN a[n] ELSE b[n - (i - 1)]
  BY <1>1, <1>2, <1>3, <1>4 DEF c
<1>6. ASSUME NEW n \in 1 .. Len(c)
      PROVE  /\ n < i => n \in 1 .. Len(s) /\ c[n] = s[n]
             /\ ~(n < i) => n + 1 \in 1 .. Len(s) /\ c[n] = s[n + 1]
  <2>1. CASE n < i
    BY <1>1, <1>2, <1>5, <2>1
  <2>2. CASE ~(n < i)
    <3>1. /\ n - (i - 1) \in 1 .. Len(s) - i /\ i + (n - (i - 1)) = n + 1
          /\ ~(n <= i - 1)
      BY <1>1, <1>5, <2>2
    <3>2. c[n] = b[n - (i - 1)] /\ b[n - (i - 1)] = s[i + (n - (i - 1))]
      BY <1>3, <1>5, <3>1
    <3>3. QED
      BY <1>1, <1>5, <2>2, <3>1, <3>2
  <2>3. QED
    BY <2>1, <2>2
<1>7. RemoveAt(s, i) = c
  BY DEF RemoveAt, a, b, c
<1>8. QED
  BY <1>1, <1>5, <1>6, <1>7

LEMMA SingleTail ==
  ASSUME NEW s \in Seq(Nat), s # <<>>, Single(s)
  PROVE  /\ Single(Tail(s)) /\ \A n \in 1 .. Len(Tail(s)) : Tail(s)[n] # Head(s)
         /\ \A n \in 1 .. Len(Tail(s)) : \E k \in 1 .. Len(s) : Tail(s)[n] = s[k]
         /\ \A k \in 1 .. Len(s) :
              s[k] = Head(s) \/ \E n \in 1 .. Len(Tail(s)) : Tail(s)[n] = s[k]
<1> DEFINE a == Tail(s)
<1>1. /\ Len(s) \in Nat /\ Head(s) = s[1] /\ 1 \in 1 .. Len(s)
      /\ \A n \in 1 .. Len(a) : n + 1 \in 1 .. Len(s) /\ a[n] = s[n + 1]
      /\ \A n \in 1 .. Len(s) : n # 1 => n - 1 \in 1 .. Len(a) /\ a[n - 1] = s[n]
  BY TailAt
<1> HIDE DEF a
<1>2. \A n, k \in 1 .. Len(a) : a[n] = a[k] => n = k
  <2>1. ASSUME NEW n \in 1 .. Len(a), NEW k \in 1 .. Len(a), a[n] = a[k]
        PROVE  n = k
    <3>1. n + 1 = k + 1
      BY <1>1, <2>1 DEF Single
    <3>2. QED
      BY <3>1
  <2>2. QED
    BY <2>1
<1>3. \A n \in 1 .. Len(a) : a[n] # s[1]
  <2>1. ASSUME NEW n \in 1 .. Len(a), a[n] = s[1] PROVE FALSE
    <3>1. n + 1 = 1
      BY <1>1, <2>1 DEF Single
    <3>2. QED
      BY <3>1
  <2>2. QED
    BY <2>1
<1>4. QED
  BY <1>1, <1>2, <1>3 DEF Single, a

-----------------------------------------------------------------------------
(* The box.                                                                 *)

LEMMA Numbers ==
  ASSUME Typed
  PROVE  /\ SentTexts \subseteq Nat /\ SentFiles \subseteq Nat
         /\ sending.text \in Nat /\ sending.todo \in Seq(Nat) /\ content \in Nat
         /\ \A n \in 1 .. Len(sending.todo) : sending.todo[n] \in Nat
         /\ \A n \in 1 .. Len(files) : files[n] \in Nat
<1>1. \A k \in 1 .. Len(sent) : sent[k] \in [text : Nat, file : Nat, room : Places]
  BY ElementOfSeq DEF Typed
<1>2. SentTexts \subseteq Nat /\ SentFiles \subseteq Nat
  BY <1>1 DEF SentTexts, SentFiles
<1>3. sending.text \in Nat /\ sending.todo \in Seq(Nat) /\ files \in Seq(Nat) /\ content \in Nat
  BY DEF Typed
<1>4. QED
  BY <1>2, <1>3, ElementOfSeq

(* The user changes the box: what has been sent and what is being sent stay.*)
LEMMA Edited ==
  ASSUME Composed, acts' = acts + 1, changed' = (changed \/ isLoading), failed' = failed,
         UNCHANGED <<sending, upload, store, sent, faults>>, room' = room,
         content' \in Nat, content' <= acts', files' \in Seq(Nat),
         sending = Idle /\ content' \in SentTexts => content' = Empty,
         \A n \in 1 .. Len(files') : files'[n] # NoFile /\ files'[n] <= acts',
         Single(files'), sending = Idle => Unsent(files')
  PROVE  Composed'
<1>1. SentTexts' = SentTexts /\ SentFiles' = SentFiles
  BY DEF SentTexts, SentFiles
<1>2. /\ Typed /\ acts \in Nat /\ acts' \in Nat /\ \A x \in Nat : x <= acts => x <= acts'
      /\ sending.text \in Nat /\ SentTexts \subseteq Nat /\ SentFiles \subseteq Nat
      /\ \A n \in 1 .. Len(sending.todo) : sending.todo[n] \in Nat
  BY Numbers DEF Composed, Typed
<1>3. Typed'
  BY <1>2 DEF Typed, isLoading
<1>4. InStep'
  BY DEF Composed, InStep, store, Row
<1>5. Numbered'
  BY <1>1, <1>2 DEF Composed, Numbered
<1>6. Fresh'
  BY <1>1 DEF Composed, Fresh, Unsent
<1>7. Taken'
  BY <1>1, <1>2 DEF Composed, Taken, Typed, isLoading
<1>8. QED
  BY <1>3, <1>4, <1>5, <1>6, <1>7 DEF Composed

LEMMA Idles ==
  ASSUME Composed
  PROVE  /\ acts \in Nat /\ acts + 1 \in Nat /\ content \in Nat /\ content <= acts + 1
         /\ acts + 1 # Empty /\ acts + 1 # NoFile
         /\ acts + 1 \notin SentTexts \union SentFiles
         /\ \A n \in 1 .. Len(files) : files[n] \in Nat /\ files[n] # acts + 1
                                       /\ files[n] <= acts + 1 /\ files[n] # NoFile
<1>1. acts \in Nat /\ content \in Nat /\ \A n \in 1 .. Len(files) : files[n] \in Nat
  BY ElementOfSeq DEF Composed, Typed
<1>2. ~(acts + 1 <= acts) /\ acts + 1 # 0 /\ acts <= acts + 1
      /\ \A x \in Nat : x <= acts => x <= acts + 1
  BY <1>1
<1>3. QED
  BY <1>1, <1>2 DEF Composed, Numbered, Empty, NoFile

LEMMA UserNext ==
  ASSUME Composed,
         \/ \E x \in 0 .. MaxActs : Type(x)
         \/ AddFile
         \/ \E i \in 1 .. MaxActs : RemoveFile(i)
         \/ \E r \in Rooms : OpenRoom(r)
  PROVE  Composed'
<1>1. /\ files \in Seq(Nat) /\ Len(files) \in Nat /\ Single(files)
      /\ (sending = Idle => Unsent(files)) /\ Typed
      /\ (sending = Idle /\ content \in SentTexts => content = Empty)
  BY DEF Composed, Typed, Fresh
<1>2. ASSUME NEW x, Type(x) PROVE Composed'
  <2>1. /\ acts' = acts + 1 /\ content' \in {Empty, acts + 1} /\ files' = files
        /\ changed' = (changed \/ isLoading) /\ failed' = failed
        /\ UNCHANGED <<sending, upload, store, sent, faults>> /\ room' = room
    BY <1>2 DEF Type, Act, Edit
  <2>2. content' \in Nat /\ content' <= acts' /\ (content' \in SentTexts => content' = Empty)
    BY <2>1, Idles DEF Empty
  <2>3. \A n \in 1 .. Len(files') : files'[n] # NoFile /\ files'[n] <= acts'
    BY <2>1, Idles
  <2>4. QED
    BY <1>1, <2>1, <2>2, <2>3, Edited
<1>3. ASSUME AddFile PROVE Composed'
  <2>1. /\ acts' = acts + 1 /\ content' = content /\ files' = Append(files, acts + 1)
        /\ changed' = (changed \/ isLoading) /\ failed' = failed
        /\ UNCHANGED <<sending, upload, store, sent, faults>> /\ room' = room
    BY <1>3 DEF AddFile, Act, Edit
  <2> DEFINE f == Append(files, acts + 1)
  <2>2. acts + 1 \in Nat
    BY Idles
  <2>3. /\ f \in Seq(Nat) /\ Len(files) + 1 \in 1 .. Len(f) /\ f[Len(files) + 1] = acts + 1
        /\ \A n \in 1 .. Len(f) :
             (n \in 1 .. Len(files) /\ f[n] = files[n]) \/ n = Len(files) + 1
    BY <1>1, <2>2, AppendAt
  <2> HIDE DEF f
  <2>4. files' = f
    BY <2>1 DEF f
  <2>5. \A n \in 1 .. Len(f) : f[n] # NoFile /\ f[n] <= acts'
    <3>1. acts' = acts + 1 /\ acts + 1 # NoFile /\ acts + 1 <= acts + 1
      BY <2>1, <2>2, Idles
    <3>2. \A n \in 1 .. Len(files) : files[n] # NoFile /\ files[n] <= acts + 1
      BY Idles
    <3>3. QED
      BY <2>3, <3>1, <3>2
  <2>6. Single(f)
    <3>1. ASSUME NEW n \in 1 .. Len(f), NEW k \in 1 .. Len(f), f[n] = f[k] PROVE n = k
      <4>1. \A m \in 1 .. Len(files) : files[m] # acts + 1
        BY Idles
      <4>2. CASE n \in 1 .. Len(files) /\ f[n] = files[n]
        <5>1. k \in 1 .. Len(files) /\ f[k] = files[k]
          BY <2>3, <3>1, <4>1, <4>2
        <5>2. QED
          BY <1>1, <3>1, <4>2, <5>1 DEF Single
      <4>3. CASE n = Len(files) + 1
        BY <2>3, <3>1, <4>1, <4>3
      <4>4. QED
        BY <2>3, <4>2, <4>3
    <3>2. QED
      BY <3>1 DEF Single
  <2>7. sending = Idle => Unsent(f)
    BY <1>1, <2>3, Idles DEF Unsent
  <2>8. content' \in Nat /\ content' <= acts'
    BY <2>1, Idles
  <2>9. QED
    BY <1>1, <2>1, <2>3, <2>4, <2>5, <2>6, <2>7, <2>8, Edited
<1>4. ASSUME NEW i, RemoveFile(i) PROVE Composed'
  <2>1. /\ acts' = acts + 1 /\ content' = content /\ files' = RemoveAt(files, i)
        /\ i \in DOMAIN files /\ changed' = (changed \/ isLoading) /\ failed' = failed
        /\ UNCHANGED <<sending, upload, store, sent, faults>> /\ room' = room
    BY <1>4 DEF RemoveFile, Act, Edit
  <2> DEFINE f == RemoveAt(files, i)
  <2>2. i \in 1 .. Len(files)
    BY <1>1, <2>1, LenProperties
  <2>3. /\ f \in Seq(Nat)
        /\ \A n \in 1 .. Len(f) :
             /\ n < i => n \in 1 .. Len(files) /\ f[n] = files[n]
             /\ ~(n < i) => n + 1 \in 1 .. Len(files) /\ f[n] = files[n + 1]
    BY <1>1, <2>2, RemoveAtKeeps
  <2> HIDE DEF f
  <2>4. files' = f
    BY <2>1 DEF f
  <2>5. \A n \in 1 .. Len(f) : \E k \in 1 .. Len(files) : f[n] = files[k]
    BY <2>3
  <2>6. \A n \in 1 .. Len(f) : f[n] # NoFile /\ f[n] <= acts'
    BY <2>1, <2>5, Idles
  <2>7. Single(f)
    <3>1. ASSUME NEW n \in 1 .. Len(f), NEW k \in 1 .. Len(f), f[n] = f[k] PROVE n = k
      <4>1. n \in Nat /\ k \in Nat /\ i \in Nat
        BY <2>2
      <4>2. CASE n < i /\ k < i
        BY <1>1, <2>3, <3>1, <4>2 DEF Single
      <4>3. CASE ~(n < i) /\ ~(k < i)
        <5>1. n + 1 = k + 1
          BY <1>1, <2>3, <3>1, <4>3 DEF Single
        <5>2. QED
          BY <4>1, <5>1
      <4>4. CASE n < i /\ ~(k < i)
        <5>1. n = k + 1
          BY <1>1, <2>3, <3>1, <4>4 DEF Single
        <5>2. QED
          BY <4>1, <4>4, <5>1
      <4>5. CASE ~(n < i) /\ k < i
        <5>1. n + 1 = k
          BY <1>1, <2>3, <3>1, <4>5 DEF Single
        <5>2. QED
          BY <4>1, <4>5, <5>1
      <4>6. QED
        BY <4>2, <4>3, <4>4, <4>5
    <3>2. QED
      BY <3>1 DEF Single
  <2>8. sending = Idle => Unsent(f)
    BY <1>1, <2>5 DEF Unsent
  <2>9. content' \in Nat /\ content' <= acts'
    BY <2>1, Idles
  <2>10. QED
    BY <1>1, <2>1, <2>3, <2>4, <2>6, <2>7, <2>8, <2>9, Edited
<1>5. ASSUME NEW r \in Rooms, OpenRoom(r) PROVE Composed'
  <2>1. /\ acts' = acts + 1 /\ room' \in Rooms
        /\ UNCHANGED <<content, files, sending, upload, objects, rows, sent, changed, failed, faults>>
    BY <1>5 DEF OpenRoom, Act, box, store, history
  <2>2. SentTexts' = SentTexts /\ SentFiles' = SentFiles
    BY <2>1 DEF SentTexts, SentFiles
  <2>3. /\ acts \in Nat /\ acts' \in Nat /\ \A x \in Nat : x <= acts => x <= acts'
        /\ sending.text \in Nat /\ SentTexts \subseteq Nat /\ SentFiles \subseteq Nat
        /\ content \in Nat /\ \A n \in 1 .. Len(files) : files[n] \in Nat
        /\ \A n \in 1 .. Len(sending.todo) : sending.todo[n] \in Nat
    BY <2>1, Numbers DEF Composed, Typed
  <2>4. Typed' /\ InStep'
    BY <2>1, <2>3 DEF Composed, Typed, InStep, Row
  <2>5. Numbered'
    BY <2>1, <2>2, <2>3 DEF Composed, Numbered
  <2>6. Fresh' /\ Taken'
    BY <2>1, <2>2 DEF Composed, Fresh, Unsent, Taken, isLoading
  <2>7. QED
    BY <2>4, <2>5, <2>6 DEF Composed
<1>6. QED
  BY <1>2, <1>3, <1>4, <1>5

-----------------------------------------------------------------------------
(* sendMessage and the store.                                               *)

LEMMA SendNext ==
  ASSUME Composed, Send
  PROVE  Composed'
<1>1. /\ sending = Idle /\ changed' = FALSE /\ upload = NoUpload
      /\ UNCHANGED <<room, content, files, upload, objects, rows, sent, acts, faults>>
  BY DEF Send, CanSend, isLoading, box, store, Composed, InStep, Idle
<1>2. /\ sending'.step = "sending" /\ sending'.text = content /\ sending'.todo = files
      /\ sending'.first = TRUE /\ sending'.alone = (files = <<>>) /\ sending'.room = room
      /\ sending' \in [step : {"idle", "sending", "waiting"}, text : Nat, todo : Seq(Nat),
                       room : Places, first : BOOLEAN, alone : BOOLEAN]
  BY DEF Send, Composed, Typed, Places
<1>3. SentTexts' = SentTexts /\ SentFiles' = SentFiles /\ sending' # Idle
  BY <1>1, <1>2 DEF SentTexts, SentFiles, Idle
<1>4. Typed'
  BY <1>1, <1>2 DEF Composed, Typed
<1>5. InStep'
  BY <1>1, <1>2 DEF Composed, InStep, NoUpload
<1>6. Numbered'
  BY <1>1, <1>2, <1>3 DEF Composed, Numbered
<1>7. Fresh'
  BY <1>1, <1>2, <1>3 DEF Composed, Fresh, Unsent
<1>8. Taken'
  BY <1>1, <1>2 DEF Taken
<1>9. QED
  BY <1>4, <1>5, <1>6, <1>7, <1>8 DEF Composed

(* A step of the request of a file.                                         *)
LEMMA RequestNext ==
  ASSUME Composed, Post \/ PutObject \/ SaveStorage \/ RequestFails
  PROVE  Composed'
<1>1. /\ UNCHANGED <<room, content, files, sending, sent, changed, failed, acts>>
      /\ objects \subseteq objects' /\ rows \subseteq rows'
  BY DEF Post, PutObject, SaveStorage, RequestFails, box, store, history
<1>2. /\ faults \in Nat /\ faults' \in Nat
      /\ upload \in [step : {"none", "sent", "put", "ok", "failed"}, file : Nat, room : Places]
      /\ sending.todo \in Seq(Nat) /\ sending.room \in Places
  BY DEF Post, PutObject, SaveStorage, RequestFails, store, Composed, Typed
<1>3. ASSUME upload' \in [step : {"none", "sent", "put", "ok", "failed"}, file : Nat,
                          room : Places],
             InStep'
      PROVE  Composed'
  <2>1. SentTexts' = SentTexts /\ SentFiles' = SentFiles
    BY <1>1 DEF SentTexts, SentFiles
  <2>2. Typed'
    BY <1>1, <1>2, <1>3 DEF Composed, Typed
  <2>3. Numbered' /\ Fresh'
    BY <1>1, <2>1 DEF Composed, Numbered, Fresh, Unsent
  <2>4. Taken'
    BY <1>1, <1>2, <2>1 DEF Composed, Taken, isLoading
  <2>5. QED
    BY <1>3, <2>2, <2>3, <2>4 DEF Composed
<1>4. CASE Post
  <2>1. /\ sending.todo # <<>>
        /\ upload' = [step |-> "sent", file |-> Head(sending.todo), room |-> sending.room]
    BY <1>4 DEF Post
  <2>2. Head(sending.todo) \in Nat
    BY <1>2, <2>1, TailAt
  <2>3. upload' \in [step : {"none", "sent", "put", "ok", "failed"}, file : Nat,
                     room : Places]
    BY <1>2, <2>1, <2>2
  <2>4. InStep'
    BY <1>1, <2>1 DEF Composed, InStep
  <2>5. QED
    BY <1>3, <2>3, <2>4
<1>5. ASSUME NEW s \in {"put", "ok", "failed"}, upload' = [upload EXCEPT !.step = s],
             upload.step \in {"sent", "put", "ok"},
             s = "put" => upload.file \in objects',
             s = "ok" => upload.file \in objects' /\ Row \in rows'
      PROVE  Composed'
  <2>1. /\ upload'.step = s /\ upload'.file = upload.file /\ upload'.room = upload.room
        /\ upload' \in [step : {"none", "sent", "put", "ok", "failed"}, file : Nat,
                        room : Places]
    BY <1>2, <1>5
  <2>2. upload # NoUpload
    BY <1>5 DEF NoUpload
  <2>3. InStep'
    BY <1>1, <1>5, <2>1, <2>2 DEF Composed, InStep, Row
  <2>4. QED
    BY <1>3, <2>1, <2>3
<1>6. CASE PutObject
  BY <1>5, <1>6 DEF PutObject
<1>7. CASE SaveStorage
  <2>1. upload.file \in objects
    BY <1>7 DEF SaveStorage, Composed, InStep
  <2>2. QED
    BY <1>1, <1>5, <1>7, <2>1 DEF SaveStorage
<1>8. CASE RequestFails
  BY <1>2, <1>5, <1>8 DEF RequestFails
<1>9. QED
  BY <1>4, <1>6, <1>7, <1>8

(* The first file of those left is sent, or has failed.                     *)
LEMMA FileNext ==
  ASSUME Composed, Uploaded \/ UploadFailed
  PROVE  Composed'
<1> DEFINE todo == sending.todo
<1>1. /\ upload # NoUpload /\ upload' = NoUpload
      /\ UNCHANGED <<room, content, files, objects, rows, changed, acts, faults>>
      /\ failed \subseteq failed' /\ sending'.todo = Tail(todo) /\ sending'.step = sending.step
      /\ sending'.text = sending.text /\ sending'.room = sending.room
      /\ sending'.alone = sending.alone
  <2>1. /\ upload # NoUpload /\ upload' = NoUpload
        /\ UNCHANGED <<room, content, files, objects, rows, changed, acts, faults>>
        /\ failed \subseteq failed'
    BY DEF Uploaded, UploadFailed, NoUpload, box, store, history
  <2>2. \/ sending' = [sending EXCEPT !.todo = Tail(@), !.first = FALSE]
        \/ sending' = [sending EXCEPT !.todo = Tail(@)]
    BY DEF Uploaded, UploadFailed, SkipFile
  <2>3. sending \in [step : {"idle", "sending", "waiting"}, text : Nat, todo : Seq(Nat),
                    room : Places, first : BOOLEAN, alone : BOOLEAN]
    BY DEF Composed, Typed
  <2>4. QED
    BY <2>1, <2>2, <2>3
<1>2. /\ sending.step = "sending" /\ todo # <<>> /\ todo \in Seq(Nat) /\ sending.alone = FALSE
      /\ upload.file = Head(todo) /\ upload.file \in Nat /\ sending.room \in Places
      /\ sending.text \in Nat /\ Single(todo) /\ Unsent(todo)
  BY <1>1 DEF Composed, InStep, Typed, Fresh
<1>3. /\ Tail(todo) \in Seq(Nat) /\ Head(todo) = todo[1] /\ 1 \in 1 .. Len(todo)
      /\ Single(Tail(todo)) /\ \A n \in 1 .. Len(Tail(todo)) : Tail(todo)[n] # Head(todo)
      /\ \A n \in 1 .. Len(Tail(todo)) : \E k \in 1 .. Len(todo) : Tail(todo)[n] = todo[k]
      /\ \A k \in 1 .. Len(todo) :
           todo[k] = Head(todo) \/ \E n \in 1 .. Len(Tail(todo)) : Tail(todo)[n] = todo[k]
  BY <1>2, TailAt, SingleTail
<1>4. sending # Idle /\ sending' # Idle /\ sending.todo = todo
  BY <1>1, <1>2 DEF Idle
<1>5. upload.file # NoFile /\ upload.file <= acts
  BY <1>2, <1>3 DEF Composed, Numbered
<1> HIDE DEF todo
<1>6. InStep'
  BY <1>1, <1>2 DEF InStep, NoUpload
<1>7. CASE Uploaded
  <2> DEFINE t == IF sending.first THEN sending.text ELSE Empty
  <2>1. t \in Nat /\ sent' = Append(sent, Message(t, upload.file, sending.room))
    BY <1>2, <1>7 DEF Uploaded, WithFile, Empty
  <2>2. /\ SentTexts' = SentTexts \union {t}
        /\ SentFiles' = SentFiles \union {upload.file}
        /\ sent' \in Seq([text : Nat, file : Nat, room : Places])
    BY <1>2, <2>1, SentMore DEF Composed
  <2>3. /\ sending'.first = FALSE
        /\ sending' \in [step : {"idle", "sending", "waiting"}, text : Nat, todo : Seq(Nat),
                         room : Places, first : BOOLEAN, alone : BOOLEAN]
    BY <1>3, <1>7, <1>4 DEF Uploaded, Composed, Typed
  <2>4. Typed'
    BY <1>1, <2>2, <2>3 DEF Composed, Typed, NoUpload, Places, NoFile
  <2>5. t <= acts
    BY DEF Composed, Numbered, Typed, Empty
  <2>6. Numbered'
    BY <1>1, <1>3, <1>4, <1>5, <2>2, <2>5 DEF Composed, Numbered
  <2>7. Fresh'
    <3>1. Single(files)' /\ Single(sending.todo)'
      BY <1>1, <1>3 DEF Composed, Fresh
    <3>2. Unsent(sending.todo)'
      BY <1>1, <1>2, <1>3, <2>2 DEF Unsent
    <3>3. QED
      BY <1>4, <2>3, <3>1, <3>2 DEF Fresh
  <2>8. Taken'
    <3>1. sending.text \in SentTexts' \/ sending.text = Empty
      BY <2>2 DEF Composed, Taken
    <3>2. ASSUME ~changed, NEW n \in 1 .. Len(files)
          PROVE  \/ files[n] \in failed'
                 \/ files[n] \in SentFiles'
                 \/ \E k \in 1 .. Len(Tail(todo)) : Tail(todo)[k] = files[n]
      <4>1. \/ files[n] \in failed \/ files[n] \in SentFiles
            \/ \E k \in 1 .. Len(todo) : todo[k] = files[n]
        BY <1>4, <3>2 DEF Composed, Taken, isLoading
      <4>2. QED
        BY <1>1, <1>2, <1>3, <2>2, <4>1
    <3>3. ~changed => content = sending.text
      BY <1>4 DEF Composed, Taken, isLoading
    <3>4. ~changed' => /\ content' = sending'.text
                       /\ files' = <<>> => sending'.alone \/ ~sending'.first
      BY <1>1, <2>3, <3>3
    <3>5. ASSUME ~changed', NEW n \in 1 .. Len(files')
          PROVE  \/ files'[n] \in failed'
                 \/ files'[n] \in SentFiles' /\ ~sending'.first
                 \/ \E k \in 1 .. Len(sending'.todo) : sending'.todo[k] = files'[n]
      BY <1>1, <2>3, <3>2, <3>5
    <3>6. /\ ~sending'.first => sending'.text \in SentTexts' \/ sending'.text = Empty
          /\ sending'.step = "sending"
      BY <1>1, <1>2, <3>1
    <3>7. QED
      BY <3>4, <3>5, <3>6 DEF Taken
  <2>9. QED
    BY <1>6, <2>4, <2>6, <2>7, <2>8 DEF Composed
<1>8. CASE UploadFailed
  <2>1. /\ sending'.first = sending.first /\ sent' = sent
        /\ sending' \in [step : {"idle", "sending", "waiting"}, text : Nat, todo : Seq(Nat),
                         room : Places, first : BOOLEAN, alone : BOOLEAN]
    BY <1>3, <1>8, <1>4 DEF UploadFailed, SkipFile, Composed, Typed
  <2>2. SentTexts' = SentTexts /\ SentFiles' = SentFiles
    BY <2>1 DEF SentTexts, SentFiles
  <2>3. Head(todo) \in failed'
    BY <1>2, <1>8 DEF UploadFailed
  <2>4. Typed'
    BY <1>1, <2>1 DEF Composed, Typed, NoUpload, Places, NoFile
  <2>5. Numbered'
    BY <1>1, <1>3, <1>4, <2>2 DEF Composed, Numbered
  <2>6. Fresh'
    <3>1. Single(files)' /\ Single(sending.todo)'
      BY <1>1, <1>3 DEF Composed, Fresh
    <3>2. Unsent(sending.todo)'
      BY <1>1, <1>2, <1>3, <2>2 DEF Unsent
    <3>3. QED
      BY <1>1, <1>4, <2>1, <2>2, <3>1, <3>2 DEF Composed, Fresh
  <2>7. Taken'
    <3>1. ASSUME ~changed, NEW n \in 1 .. Len(files)
          PROVE  \/ files[n] \in failed'
                 \/ files[n] \in SentFiles' /\ ~sending.first
                 \/ \E k \in 1 .. Len(Tail(todo)) : Tail(todo)[k] = files[n]
      <4>1. \/ files[n] \in failed
            \/ files[n] \in SentFiles /\ ~sending.first
            \/ \E k \in 1 .. Len(sending.todo) : sending.todo[k] = files[n]
        BY <1>4, <3>1 DEF Composed, Taken, isLoading
      <4>2. \A k \in 1 .. Len(sending.todo) :
              \/ sending.todo[k] \in failed'
              \/ \E m \in 1 .. Len(Tail(todo)) : Tail(todo)[m] = sending.todo[k]
        BY <1>3, <1>4, <2>3
      <4>3. failed \subseteq failed' /\ SentFiles' = SentFiles
        BY <1>1, <2>2
      <4>4. QED
        BY <4>1, <4>2, <4>3
    <3>2. /\ ~sending.first => sending.text \in SentTexts \/ sending.text = Empty
          /\ ~changed => /\ content = sending.text
                         /\ files = <<>> => sending.alone \/ ~sending.first
      BY <1>4 DEF Composed, Taken, isLoading
    <3>3. QED
      BY <1>1, <1>2, <2>1, <2>2, <3>1, <3>2 DEF Taken
  <2>8. QED
    BY <1>6, <2>4, <2>5, <2>6, <2>7 DEF Composed
<1>9. QED
  BY <1>7, <1>8

LEMMA TextNext ==
  ASSUME Composed, SendText
  PROVE  Composed'
<1>1. /\ UNCHANGED <<room, content, files, upload, objects, rows, changed, failed, acts, faults>>
      /\ sending.todo = <<>> /\ sending.step = "sending" /\ sending'.step = "waiting"
      /\ sending'.text = sending.text /\ sending'.todo = sending.todo
      /\ sending'.first = sending.first /\ sending'.alone = sending.alone
      /\ sending'.room = sending.room
      /\ sending' \in [step : {"idle", "sending", "waiting"}, text : Nat, todo : Seq(Nat),
                       room : Places, first : BOOLEAN, alone : BOOLEAN]
  BY DEF SendText, box, store, history, Composed, Typed
<1>2. upload = NoUpload /\ sending # Idle /\ sending' # Idle
  BY <1>1 DEF Composed, InStep, Idle
<1>3. InStep'
  BY <1>1, <1>2 DEF Composed, InStep, NoUpload
<1>4. ASSUME sent' \in Seq([text : Nat, file : Nat, room : Places]),
             NEW X \in SUBSET {sending.text}, NEW Y \in SUBSET {NoFile},
             SentTexts' = SentTexts \union X, SentFiles' = SentFiles \union Y,
             sending.alone => sending.text \in SentTexts'
      PROVE  Composed'
  <2>1. sending.text <= acts /\ NoFile <= acts /\ acts \in Nat
    BY DEF Composed, Numbered, Typed, NoFile
  <2>2. Typed'
    BY <1>1, <1>4 DEF Composed, Typed
  <2>3. Numbered'
    BY <1>1, <1>4, <2>1 DEF Composed, Numbered
  <2>4. Fresh'
    BY <1>1, <1>2 DEF Composed, Fresh, Unsent
  <2>5. Taken'
    BY <1>1, <1>2, <1>4 DEF Composed, Taken, isLoading
  <2>6. QED
    BY <1>3, <2>2, <2>3, <2>4, <2>5 DEF Composed
<1>5. CASE sending.alone
  <2>1. sent' = Append(sent, Message(sending.text, NoFile, sending.room))
    BY <1>5 DEF SendText
  <2>2. sending.text \in Nat /\ NoFile \in Nat /\ sending.room \in Places /\ Typed
    BY DEF Composed, Typed, NoFile
  <2>3. /\ SentTexts' = SentTexts \union {sending.text}
        /\ SentFiles' = SentFiles \union {NoFile}
        /\ sent' \in Seq([text : Nat, file : Nat, room : Places])
    BY <2>1, <2>2, SentMore
  <2>4. QED
    BY <1>4, <2>3
<1>6. CASE ~sending.alone
  <2>1. sent' = sent
    BY <1>6 DEF SendText
  <2>2. SentTexts' = SentTexts \union {} /\ SentFiles' = SentFiles \union {}
    BY <2>1 DEF SentTexts, SentFiles
  <2>3. sent' \in Seq([text : Nat, file : Nat, room : Places])
    BY <2>1 DEF Composed, Typed
  <2>4. QED
    BY <1>4, <1>6, <2>2, <2>3
<1>7. QED
  BY <1>5, <1>6

LEMMA ClearNext ==
  ASSUME Composed, Clear
  PROVE  Composed'
<1>1. /\ UNCHANGED <<room, upload, objects, rows, sent, changed, failed, acts, faults>>
      /\ sending.step = "waiting" /\ content' = Empty /\ files' = <<>> /\ sending' = Idle
  BY DEF Clear, ClearBox, store, history
<1>2. upload = NoUpload
  BY <1>1 DEF Composed, InStep
<1>3. SentTexts' = SentTexts /\ SentFiles' = SentFiles
  BY <1>1 DEF SentTexts, SentFiles
<1>4. /\ Idle.step = "idle" /\ Idle.text = Empty /\ Idle.todo = <<>> /\ Idle.room = NoRoom
      /\ Idle.first = TRUE /\ Idle.alone = FALSE
      /\ Idle \in [step : {"idle", "sending", "waiting"}, text : Nat, todo : Seq(Nat),
                   room : Places, first : BOOLEAN, alone : BOOLEAN]
  BY DEF Idle, Places, Empty
<1>5. Typed'
  BY <1>1, <1>4 DEF Composed, Typed, Empty
<1>6. InStep'
  BY <1>1, <1>2, <1>4 DEF Composed, InStep, NoUpload
<1>7. Numbered'
  BY <1>1, <1>3, <1>4 DEF Composed, Numbered, Typed, Empty
<1>8. Fresh'
  BY <1>1, <1>4 DEF Fresh, Unsent, Single
<1>9. Taken'
  BY <1>1, <1>4 DEF Taken, isLoading
<1>10. QED
  BY <1>5, <1>6, <1>7, <1>8, <1>9 DEF Composed

LEMMA ComposedInit == Init => Composed
<1> SUFFICES ASSUME Init PROVE Composed
  OBVIOUS
<1>1. /\ Idle.step = "idle" /\ Idle.text = Empty /\ Idle.todo = <<>> /\ Idle.room = NoRoom
      /\ Idle.first = TRUE /\ Idle.alone = FALSE
      /\ Idle \in [step : {"idle", "sending", "waiting"}, text : Nat, todo : Seq(Nat),
                   room : Places, first : BOOLEAN, alone : BOOLEAN]
  BY DEF Idle, Places, Empty
<1>2. SentTexts = {} /\ SentFiles = {}
  BY DEF Init, SentTexts, SentFiles
<1>3. Typed
  <2>1. /\ <<>> \in Seq(Nat) /\ <<>> \in Seq([text : Nat, file : Nat, room : Places])
        /\ NoUpload \in [step : {"none", "sent", "put", "ok", "failed"}, file : Nat,
                         room : Places]
    BY DEF NoUpload, Places, NoFile
  <2>2. QED
    BY <1>1, <2>1 DEF Init, Typed, Empty
<1>4. InStep
  BY <1>1 DEF Init, InStep, NoUpload
<1>5. Numbered /\ Fresh /\ Taken
  BY <1>1, <1>2 DEF Init, Numbered, Fresh, Taken, Unsent, Single, isLoading, Empty
<1>6. QED
  BY <1>3, <1>4, <1>5 DEF Composed

LEMMA ComposedNext == Composed /\ [Next]_vars => Composed'
<1> SUFFICES ASSUME Composed, [Next]_vars PROVE Composed'
  OBVIOUS
<1>1. CASE UNCHANGED vars
  <2>1. /\ UNCHANGED <<room, content, files, sending, upload, objects, rows, sent, changed>>
        /\ UNCHANGED <<failed, acts, faults>>
    BY <1>1 DEF vars, box, store, history
  <2>2. SentTexts' = SentTexts /\ SentFiles' = SentFiles
    BY <2>1 DEF SentTexts, SentFiles
  <2>3. Typed' /\ InStep' /\ Numbered'
    BY <2>1, <2>2 DEF Composed, Typed, InStep, Row, Numbered
  <2>4. Fresh' /\ Taken'
    BY <2>1, <2>2 DEF Composed, Fresh, Unsent, Taken, isLoading
  <2>5. QED
    BY <2>3, <2>4 DEF Composed
<1>2. QED
  BY <1>1, SendNext, UserNext, RequestNext, FileNext, TextNext, ClearNext DEF Next, Progress

(* A message with a file names an upload that was stored, in the room it    *)
(* was stored for, for any number of files, of errors and of acts.          *)
LEMMA StoredSent ==
  ASSUME Composed, SentIsStored, [Next]_vars
  PROVE  SentIsStored'
<1>1. objects \subseteq objects' /\ rows \subseteq rows'
  BY DEF Next, Progress, Post, Uploaded, UploadFailed, SendText, Clear, PutObject, SaveStorage,
     Send, AddFile, RequestFails, Type, RemoveFile, OpenRoom, store, vars
<1>2. /\ sent \in Seq([text : Nat, file : Nat, room : Places]) /\ Len(sent) \in Nat
      /\ sending.text \in Nat /\ sending.room \in Places /\ upload.file \in Nat
  BY DEF Composed, Typed
<1>3. CASE sent' = sent
  BY <1>1, <1>3 DEF SentIsStored
<1>4. ASSUME NEW e \in [text : Nat, file : Nat, room : Places], sent' = Append(sent, e),
             e.file # NoFile => [file |-> e.file, room |-> e.room] \in rows
                                /\ e.file \in objects
      PROVE  SentIsStored'
  <2>1. /\ Append(sent, e) \in Seq([text : Nat, file : Nat, room : Places])
        /\ Append(sent, e)[Len(sent) + 1] = e
        /\ \A n \in 1 .. Len(Append(sent, e)) :
             (n \in 1 .. Len(sent) /\ Append(sent, e)[n] = sent[n]) \/ n = Len(sent) + 1
    BY <1>2, <1>4, AppendAt
  <2>2. DOMAIN sent' = 1 .. Len(Append(sent, e)) /\ DOMAIN sent = 1 .. Len(sent)
    BY <1>2, <1>4, <2>1, LenProperties
  <2>3. QED
    BY <1>1, <1>4, <2>1, <2>2 DEF SentIsStored
<1>5. CASE Uploaded
  <2>1. /\ WithFile \in [text : Nat, file : Nat, room : Places]
        /\ WithFile.file = upload.file /\ WithFile.room = sending.room
    BY <1>2 DEF WithFile, Message, Empty
  <2>2. upload.room = sending.room /\ Row \in rows /\ upload.file \in objects
    BY <1>5 DEF Uploaded, Composed, InStep, NoUpload
  <2>3. QED
    BY <1>4, <1>5, <2>1, <2>2 DEF Uploaded, Row
<1>6. CASE SendText
  <2> DEFINE e == Message(sending.text, NoFile, sending.room)
  <2>1. e \in [text : Nat, file : Nat, room : Places] /\ e.file = NoFile
    BY <1>2 DEF Message, NoFile
  <2>2. sent' = sent \/ sent' = Append(sent, e)
    BY <1>6 DEF SendText
  <2> HIDE DEF e
  <2>3. QED
    BY <1>3, <1>4, <2>1, <2>2
<1>7. sent' = sent \/ Uploaded \/ SendText
  BY DEF Next, Progress, Post, UploadFailed, Clear, PutObject, SaveStorage,
     Send, AddFile, RequestFails, Type, RemoveFile, OpenRoom, vars
<1>8. QED
  BY <1>3, <1>5, <1>6, <1>7

LEMMA OnceSent ==
  ASSUME Composed, SentOnce, [Next]_vars
  PROVE  SentOnce'
<1>1. /\ sent \in Seq([text : Nat, file : Nat, room : Places]) /\ Len(sent) \in Nat
      /\ sending.text \in Nat /\ sending.room \in Places /\ upload.file \in Nat
  BY DEF Composed, Typed
<1>2. CASE sent' = sent
  BY <1>2 DEF SentOnce
<1>3. ASSUME NEW e \in [text : Nat, file : Nat, room : Places], sent' = Append(sent, e),
             e.text \in SentTexts => e.text = Empty,
             e.file \in SentFiles => e.file = NoFile
      PROVE  SentOnce'
  <2> DEFINE a == Append(sent, e)
  <2>1. /\ a \in Seq([text : Nat, file : Nat, room : Places])
        /\ a[Len(sent) + 1] = e
        /\ \A n \in 1 .. Len(sent) : a[n] = sent[n]
        /\ \A n \in 1 .. Len(a) : (n \in 1 .. Len(sent) /\ a[n] = sent[n]) \/ n = Len(sent) + 1
    BY <1>1, <1>3, AppendAt
  <2>2. DOMAIN a = 1 .. Len(a) /\ DOMAIN sent = 1 .. Len(sent)
    BY <1>1, <2>1, LenProperties
  <2>3. sent' = a
    BY <1>3
  <2> HIDE DEF a
  <2>4. ASSUME NEW j \in 1 .. Len(a), NEW k \in 1 .. Len(a), j # k
        PROVE  /\ a[j].text = a[k].text => a[j].text = Empty
               /\ a[j].file = a[k].file => a[j].file = NoFile
    <3>1. ASSUME NEW n \in 1 .. Len(sent)
          PROVE  sent[n].text \in SentTexts /\ sent[n].file \in SentFiles
      BY <3>1 DEF SentTexts, SentFiles
    <3>2. CASE j \in 1 .. Len(sent) /\ k \in 1 .. Len(sent)
      <4>1. a[j] = sent[j] /\ a[k] = sent[k]
        BY <2>1, <3>2
      <4>2. QED
        BY <2>2, <2>4, <3>2, <4>1 DEF SentOnce
    <3>3. CASE j = Len(sent) + 1
      <4>1. a[j] = e /\ k \in 1 .. Len(sent) /\ a[k] = sent[k]
        BY <2>1, <2>4, <3>3
      <4>2. QED
        BY <1>3, <3>1, <4>1
    <3>4. CASE k = Len(sent) + 1
      <4>1. a[k] = e /\ j \in 1 .. Len(sent) /\ a[j] = sent[j]
        BY <2>1, <2>4, <3>4
      <4>2. QED
        BY <1>3, <3>1, <4>1
    <3>5. QED
      BY <2>1, <3>2, <3>3, <3>4
  <2>5. QED
    BY <2>2, <2>3, <2>4 DEF SentOnce
<1>4. CASE Uploaded
  <2>1. /\ sending.step = "sending" /\ sending.todo # <<>> /\ upload.file = Head(sending.todo)
        /\ sending.todo \in Seq(Nat)
    BY <1>4 DEF Uploaded, Composed, InStep, NoUpload, Typed
  <2>2. Head(sending.todo) = sending.todo[1] /\ 1 \in 1 .. Len(sending.todo)
    BY <2>1, TailAt
  <2>3. upload.file \notin SentFiles
    BY <2>1, <2>2 DEF Composed, Fresh, Unsent
  <2> DEFINE t == IF sending.first THEN sending.text ELSE Empty
  <2>4. t \in SentTexts => t = Empty
    BY <2>1 DEF Composed, Fresh
  <2>5. t \in Nat /\ WithFile = Message(t, upload.file, sending.room)
    BY <1>1 DEF WithFile, Empty
  <2> HIDE DEF t
  <2>6. /\ WithFile \in [text : Nat, file : Nat, room : Places]
        /\ WithFile.file = upload.file /\ WithFile.text = t
    BY <1>1, <2>5 DEF Message
  <2>7. QED
    BY <1>3, <1>4, <2>3, <2>4, <2>6 DEF Uploaded
<1>5. CASE SendText
  <2> DEFINE e == Message(sending.text, NoFile, sending.room)
  <2>1. /\ e \in [text : Nat, file : Nat, room : Places] /\ e.file = NoFile
        /\ e.text = sending.text
    BY <1>1 DEF Message, NoFile
  <2>2. IF sending.alone THEN sent' = Append(sent, e) ELSE sent' = sent
    BY <1>5 DEF SendText
  <2> HIDE DEF e
  <2>3. sending.alone => (sending.text \in SentTexts => sending.text = Empty)
    BY <1>5 DEF SendText, Composed, Fresh, InStep
  <2>4. QED
    BY <1>2, <1>3, <2>1, <2>2, <2>3
<1>6. sent' = sent \/ Uploaded \/ SendText
  BY DEF Next, Progress, Post, UploadFailed, Clear, PutObject, SaveStorage,
     Send, AddFile, RequestFails, Type, RemoveFile, OpenRoom, vars
<1>7. QED
  BY <1>2, <1>4, <1>5, <1>6

(* When sendMessage ends, what it takes from the box has been sent.         *)
LEMMA ClearSent ==
  ASSUME Composed, [Next]_vars, isLoading, ~isLoading', ~changed
  PROVE  /\ Range(files) \subseteq {sent[k].file : k \in DOMAIN sent} \union failed
         /\ \/ content = Empty
            \/ \E k \in DOMAIN sent : sent[k].text = content
            \/ files # <<>> /\ Range(files) \subseteq failed
<1>1. /\ sending # Idle /\ sending' = Idle /\ sending.step # "idle" /\ Idle.step = "idle"
      /\ sending \in [step : {"idle", "sending", "waiting"}, text : Nat, todo : Seq(Nat),
                      room : Places, first : BOOLEAN, alone : BOOLEAN]
  BY DEF isLoading, Composed, InStep, Typed, Idle
<1>2. Clear
  <2>1. ASSUME Uploaded \/ UploadFailed \/ SendText PROVE sending'.step # "idle"
    <3>1. \/ sending' = [sending EXCEPT !.todo = Tail(@), !.first = FALSE]
          \/ sending' = [sending EXCEPT !.todo = Tail(@)]
          \/ sending' = [sending EXCEPT !.step = "waiting"]
      BY <2>1 DEF Uploaded, UploadFailed, SkipFile, SendText
    <3>2. QED
      BY <1>1, <3>1
  <2>2. Send => sending'.step = "sending"
    BY DEF Send
  <2>3. QED
    BY <1>1, <2>1, <2>2 DEF Next, Progress, Post, PutObject, SaveStorage, AddFile, RequestFails,
       Type, RemoveFile, OpenRoom, vars
<1>3. sending.step = "waiting" /\ sending.todo = <<>> /\ isLoading
  BY <1>1, <1>2 DEF Clear, Composed, InStep, isLoading
<1>4. DOMAIN sent = 1 .. Len(sent) /\ DOMAIN files = 1 .. Len(files)
  BY LenProperties DEF Composed, Typed
<1>5. content = sending.text
  BY <1>3 DEF Composed, Taken
<1>6. ~sending.first => sending.text \in SentTexts \/ sending.text = Empty
  BY DEF Composed, Taken
<1>7. sending.alone => sending.text \in SentTexts
  BY <1>3 DEF Composed, Taken
<1>8. \A n \in 1 .. Len(files) :
        files[n] \in failed \/ (files[n] \in SentFiles /\ ~sending.first)
  BY <1>3 DEF Composed, Taken
<1>9. Range(files) \subseteq SentFiles \union failed
  BY <1>4, <1>8 DEF Range
<1>10. \/ content = Empty
       \/ \E k \in DOMAIN sent : sent[k].text = content
       \/ files # <<>> /\ Range(files) \subseteq failed
  <2>1. CASE sending.alone \/ ~sending.first
    BY <1>4, <1>5, <1>6, <1>7, <2>1 DEF SentTexts
  <2>2. CASE ~sending.alone /\ sending.first
    <3>1. files # <<>>
      BY <1>3, <2>2 DEF Composed, Taken
    <3>2. Range(files) \subseteq failed
      BY <1>4, <1>8, <2>2 DEF Range
    <3>3. QED
      BY <3>1, <3>2
  <2>3. QED
    BY <2>1, <2>2
<1>11. QED
  BY <1>4, <1>9, <1>10 DEF SentFiles

LEMMA AlwaysComposed == Spec => []Composed
  BY ComposedInit, ComposedNext, PTL DEF Spec

(* A message with a file names an upload that was stored, in the room it    *)
(* was stored for, for any number of rooms, files, errors and acts.         *)
THEOREM UploadsFirst == Spec => []SentIsStored
<1>1. Init => SentIsStored
  BY DEF Init, SentIsStored
<1>2. QED
  BY <1>1, StoredSent, AlwaysComposed, PTL DEF Spec

(* No text and no file is sent with two messages, however often Enter is    *)
(* pressed, whichever files fail, and whatever is typed meanwhile.          *)
THEOREM NeverTwice == Spec => []SentOnce
<1>1. Init => SentOnce
  BY DEF Init, SentOnce
<1>2. QED
  BY <1>1, OnceSent, AlwaysComposed, PTL DEF Spec

(* When the box is cleared and was not changed since Enter was pressed, all *)
(* its files have been sent but those whose upload failed, and so has its   *)
(* text unless all of them failed, for any number of files and failures.    *)
THEOREM ClearsWhatWasSent == Spec => ClearsSent
<1>1. Composed /\ [Next]_vars =>
        [isLoading /\ ~isLoading' /\ ~changed =>
           /\ Range(files) \subseteq {sent[k].file : k \in DOMAIN sent} \union failed
           /\ \/ content = Empty
              \/ \E k \in DOMAIN sent : sent[k].text = content
              \/ files # <<>> /\ Range(files) \subseteq failed]_vars
  BY ClearSent
<1>2. QED
  BY <1>1, AlwaysComposed, PTL DEF Spec, ClearsSent
=============================================================================
