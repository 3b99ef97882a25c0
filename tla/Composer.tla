------------------------------ MODULE Composer ------------------------------
(***************************************************************************)
(* Writing a message with files: MessageInput in the browser, and for each *)
(* file a request to StorageController and StorageService, that put the    *)
(* object in the bucket (or on the disk) and then insert its row.          *)
(*                                                                         *)
(* A text is the number of the change that typed it, 0 when it is empty; a *)
(* file is the number of the act that chose it.                            *)
(***************************************************************************)
EXTENDS Integers, Sequences, SequencesExt

CONSTANTS Rooms, MaxActs, MaxFaults

ASSUME ComposerAssumption == MaxActs \in Nat /\ MaxFaults \in Nat

VARIABLES
  room,                    \* the room that is open
  content, files,          \* what is in the box
  sending,                 \* sendMessage in progress; isLoading
  upload,                  \* the request of the file that is being sent
  objects, rows,           \* the bucket and the table of uploads
  sent,                    \* the messages that were emitted
  changed, failed,         \* history since sendMessage was called: has the box
                           \* been changed, whose uploads have failed
  acts, faults

box == <<content, files>>
store == <<objects, rows>>
history == <<changed, failed>>
vars == <<room, box, sending, upload, store, sent, history, acts, faults>>

Empty == 0
NoFile == 0
NoRoom == 0

(* What sendMessage captured when it was called, and what is left to do;    *)
(* first: no file has been sent yet.                                        *)
Idle == [step |-> "idle", text |-> Empty, todo |-> <<>>, room |-> NoRoom,
         first |-> TRUE, alone |-> FALSE]
isLoading == sending # Idle
NoUpload == [step |-> "none", file |-> NoFile, room |-> NoRoom]

Init ==
  /\ room \in Rooms
  /\ content = Empty /\ files = <<>>
  /\ sending = Idle /\ upload = NoUpload
  /\ objects = {} /\ rows = {} /\ sent = <<>>
  /\ changed = FALSE /\ failed = {}
  /\ acts = 0 /\ faults = 0

Act == acts < MaxActs /\ acts' = acts + 1
-----------------------------------------------------------------------------
(* The user.  Nothing is locked while a message is being sent.              *)

Edit == changed' = (changed \/ isLoading) /\ UNCHANGED failed

Type(x) ==
  /\ Act
  /\ x \in {Empty, acts'} \ {content} /\ content' = x
  /\ Edit
  /\ UNCHANGED <<room, files, sending, upload, store, sent, faults>>

AddFile ==
  /\ Act
  /\ files' = Append(files, acts')
  /\ Edit
  /\ UNCHANGED <<room, content, sending, upload, store, sent, faults>>

RemoveFile(i) ==
  /\ Act
  /\ i \in DOMAIN files /\ files' = RemoveAt(files, i)
  /\ Edit
  /\ UNCHANGED <<room, content, sending, upload, store, sent, faults>>

(* MessageInput is not remounted: what was typed goes to the other room.    *)
OpenRoom(r) ==
  /\ Act
  /\ r # room /\ room' = r
  /\ UNCHANGED <<box, sending, upload, store, sent, history, faults>>

(* Mutant: a second Enter is not stopped.                                   *)
CanSendTwice == content # Empty \/ files # <<>>
CanSend == (content # Empty \/ files # <<>>) /\ ~isLoading

Send ==
  /\ CanSend
  /\ sending' = [step |-> "sending", text |-> content, todo |-> files,
                 room |-> room, first |-> TRUE, alone |-> files = <<>>]
  /\ changed' = FALSE /\ failed' = {}
  /\ UNCHANGED <<room, box, upload, store, sent, acts, faults>>
-----------------------------------------------------------------------------
(* sendMessage: the files one after the other, ...                          *)

Post ==
  /\ sending.todo # <<>> /\ upload = NoUpload
  /\ upload' = [step |-> "sent", file |-> Head(sending.todo), room |-> sending.room]
  /\ UNCHANGED <<room, box, sending, store, sent, history, acts, faults>>

Message(text, file, r) == [text |-> text, file |-> file, room |-> r]

(* Mutant: the message goes to the room that is open by now.                *)
ToOpenRoom == Message(IF sending.first THEN sending.text ELSE Empty,
                      upload.file, room)
WithFile == Message(IF sending.first THEN sending.text ELSE Empty,
                    upload.file, sending.room)

Uploaded ==
  /\ upload.step = "ok"
  /\ sent' = Append(sent, WithFile)
  /\ sending' = [sending EXCEPT !.todo = Tail(@), !.first = FALSE]
  /\ upload' = NoUpload
  /\ UNCHANGED <<room, box, store, history, acts, faults>>

(* A toast; the text is left for the next file.  Mutants: it is not; the    *)
(* loop ends at the first file that fails.                                  *)
SkipFileAndText == [sending EXCEPT !.todo = Tail(@), !.first = FALSE]
SkipAllFiles == [sending EXCEPT !.todo = <<>>]
SkipFile == [sending EXCEPT !.todo = Tail(@)]

(* Mutant: the error is not caught and isLoading stays.                     *)
UploadFailedUncaught == upload.step = "failed" /\ UNCHANGED vars
UploadFailed ==
  /\ upload.step = "failed"
  /\ failed' = failed \union {upload.file}
  /\ sending' = SkipFile
  /\ upload' = NoUpload
  /\ UNCHANGED <<room, box, store, sent, changed, acts, faults>>

(* ... or the text alone; ...                                               *)
SendText ==
  /\ sending.step = "sending" /\ sending.todo = <<>>
  /\ sent' = IF sending.alone THEN Append(sent, Message(sending.text, NoFile, sending.room))
             ELSE sent
  /\ sending' = [sending EXCEPT !.step = "waiting"]
  /\ UNCHANGED <<room, box, upload, store, history, acts, faults>>

(* ... and after 150 ms the box is cleared, whatever it holds by now.       *)
ClearBox == content' = Empty /\ files' = <<>>
Clear ==
  /\ sending.step = "waiting"
  /\ ClearBox
  /\ sending' = Idle
  /\ UNCHANGED <<room, upload, store, sent, history, acts, faults>>
-----------------------------------------------------------------------------
(* StorageService.uploadFile: the object, then its row, then the answer.    *)

PutObject ==
  /\ upload.step = "sent"
  /\ objects' = objects \union {upload.file}
  /\ upload' = [upload EXCEPT !.step = "put"]
  /\ UNCHANGED <<room, box, sending, rows, sent, history, acts, faults>>

Row == [file |-> upload.file, room |-> upload.room]
SaveStorage ==
  /\ upload.step = "put"
  /\ rows' = rows \union {Row}
  /\ upload' = [upload EXCEPT !.step = "ok"]
  /\ UNCHANGED <<room, box, sending, objects, sent, history, acts, faults>>

(* An error of the store or of the table, or a lost answer.  What has been  *)
(* stored stays.                                                            *)
RequestFails ==
  /\ upload.step \in {"sent", "put", "ok"} /\ faults < MaxFaults
  /\ faults' = faults + 1
  /\ upload' = [upload EXCEPT !.step = "failed"]
  /\ UNCHANGED <<room, box, sending, store, sent, history, acts>>
-----------------------------------------------------------------------------
Progress == \/ Post \/ Uploaded \/ UploadFailed \/ SendText \/ Clear
            \/ PutObject \/ SaveStorage
Next == \/ Progress \/ Send \/ AddFile \/ RequestFails
        \/ \E x \in 0 .. MaxActs : Type(x)
        \/ \E i \in 1 .. MaxActs : RemoveFile(i)
        \/ \E r \in Rooms : OpenRoom(r)

Spec == Init /\ [][Next]_vars
FairSpec == Spec /\ WF_vars(Progress)
-----------------------------------------------------------------------------
(* A text goes with one message, however many files there are, whichever of *)
(* them fail, and however often Enter is pressed; so does a file.           *)
SentOnce ==
  \A j, k \in DOMAIN sent : j # k =>
    /\ sent[j].text = sent[k].text => sent[j].text = Empty
    /\ sent[j].file = sent[k].file => sent[j].file = NoFile

(* A message with a file goes to the room its upload was stored for, even   *)
(* when another room is opened meanwhile, and the object is there.          *)
SentIsStored ==
  \A k \in DOMAIN sent : sent[k].file # NoFile =>
    /\ [file |-> sent[k].file, room |-> sent[k].room] \in rows
    /\ sent[k].file \in objects

(* What is cleared has been sent, whichever uploads fail: each file but     *)
(* those whose own upload failed (MessageInput.tsx:82), and the text unless *)
(* there were files and all of them failed.  Only if nothing was typed or   *)
(* chosen meanwhile: that is cleared too and is lost (MessageInput.tsx:103). *)
ClearsSent ==
  [][isLoading /\ ~isLoading' /\ ~changed =>
       /\ Range(files) \subseteq {sent[k].file : k \in DOMAIN sent} \union failed
       /\ \/ content = Empty
          \/ \E k \in DOMAIN sent : sent[k].text = content
          \/ files # <<>> /\ Range(files) \subseteq failed]_vars

(* Sending ends, and the button can be pressed again.                       *)
SendEnds == isLoading ~> ~isLoading
=============================================================================
