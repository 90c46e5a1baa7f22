-------------------------- MODULE UserLibraryProofs --------------------------
(***************************************************************************)
(* For any files, chats, requests and faults, and whatever users do: the    *)
(* blobs of the library row and of every KB file that is not deleted are    *)
(* there.  Without adoption, what was sent with a message stays with it;    *)
(* and where chats are not deleted and no attachment is refused either, an  *)
(* upload is kept until its grace is over, it is sent, or its owner         *)
(* deletes it.                                                              *)
(***************************************************************************)
EXTENDS UserLibrary, TLAPS

Scopes == {"library", "chat"}
Steps == {"idle", "insert", "find", "touch", "get", "drop", "stored", "attachment", "objects", "copies",
          "row", "create", "enqueue", "fileBlob", "fileRow", "bySHA", "promote", "oldBlob", "rollback",
          "delete"}
Zero == 0 .. MaxId
AllFiles == Legacy \cup Copies
Reqs == [at : Steps, op : {"none", "upload", "adopt"}, id : Zero, found : Zero, was : Scopes,
         scope : Scopes, new : BOOLEAN, tries : {0, 1}, set : SUBSET AllFiles]

Typed ==
    /\ row \in [id : Zero, scope : Scopes, fresh : BOOLEAN] /\ (row.id = 0 => row = NoRow)
    /\ blobs \subseteq Ids \cup Legacy /\ old \subseteq blobs
    /\ nextId \in 1 .. (MaxId + 1) /\ faults \in Nat
    /\ doomed \subseteq AllFiles /\ withdrawn \subseteq Ids /\ promised \subseteq Zero

TypedFiles == files \in [AllFiles -> [path : Zero \cup Legacy, link : Zero, busy : BOOLEAN]]

TypedReqs == req \in [Requests -> Reqs] /\ sweep \in Reqs

\* The blob that a request has stored is its own until there is a row for it.
Storing == {"insert", "find", "touch", "get", "drop"}

IdsInv ==
    /\ \A p \in blobs \cap Ids : p < nextId
    /\ row.id < nextId /\ sweep.found < nextId
    /\ \A r \in Requests :
         /\ req[r].id < nextId /\ req[r].found < nextId
         /\ req[r].id \notin old
         /\ \A q \in Requests \ {r} : req[r].id # 0 => req[r].id # req[q].id
         /\ req[r].at \in Storing =>
              /\ req[r].id # 0 /\ req[r].id \notin {row.id, sweep.found}
              /\ \A q \in Requests : req[q].found # req[r].id
              /\ req[r].at # "drop" => req[r].id \in blobs

\* Objects are deleted of rows that are gone.
RowInv ==
    /\ RowHasBlob
    /\ \A r \in Requests : req[r].at = "objects" => ~Exists(req[r].found)
    /\ sweep.at = "delete" => ~Exists(sweep.found)

\* A KB file has its own blob or the library row's.
FilesInv ==
    /\ \A f \in AllFiles :
         \/ files[f] = Gone
         \/ f \in Legacy /\ files[f].path = f /\ files[f].link = 0
         \/ files[f].path = row.id /\ files[f].link = row.id /\ row # NoRow
    /\ \A f, g \in AllFiles : files[f].link # 0 /\ files[f].link = files[g].link /\ KBOf[f] = KBOf[g] => f = g
    /\ \A f \in Legacy \ doomed : files[f].path = f => f \in blobs
    /\ \A r \in Requests :
         /\ req[r].at \in {"create", "enqueue"} => req[r].set \subseteq Copies
         /\ req[r].at = "fileBlob" /\ req[r].found = 0 =>
              \A f \in req[r].set : f \in Legacy /\ (f \in doomed \/ files[f] = Gone)

BlobsInv == Typed /\ TypedFiles /\ TypedReqs /\ IdsInv /\ RowInv /\ FilesInv

LEMMA InitBlobs == Init => BlobsInv
<1>. SUFFICES ASSUME Init PROVE BlobsInv
  OBVIOUS
<1>. USE LibraryAssumption DEF LibraryAssumption, Zero, AllFiles, Ids
<1>1. Typed /\ TypedFiles /\ TypedReqs
  <2>1. NoRow \in [id : Zero, scope : Scopes, fresh : BOOLEAN] /\ NoRow.id = 0
    BY DEF NoRow, Scopes
  <2>2. Idle \in Reqs
    BY DEF Idle, Reqs, Steps, Scopes
  <2>3. files \in [AllFiles -> [path : Zero \cup Legacy, link : Zero, busy : BOOLEAN]]
    BY DEF Init, Gone
  <2>. QED BY <2>1, <2>2, <2>3 DEF Init, Typed, TypedFiles, TypedReqs
<1>2. IdsInv
  BY DEF Init, IdsInv, Idle, NoRow, Storing
<1>3. RowInv
  BY DEF Init, RowInv, RowHasBlob, Idle
<1>4. FilesInv
  BY DEF Init, FilesInv, Idle, Gone
<1>. QED BY <1>1, <1>2, <1>3, <1>4 DEF BlobsInv

-----------------------------------------------------------------------------
LEMMA Plain ==
    /\ Idle \in Reqs /\ Idle.at = "idle" /\ Idle.id = 0 /\ Idle.found = 0
    /\ NoRow \in [id : Zero, scope : Scopes, fresh : BOOLEAN] /\ NoRow.id = 0 /\ ~NoRow.fresh
    /\ Gone \in [path : Zero \cup Legacy, link : Zero, busy : BOOLEAN] /\ Gone.path = 0 /\ Gone.link = 0
  BY LibraryAssumption DEF LibraryAssumption, Idle, Reqs, Steps, Scopes, NoRow, Gone, Zero

LEMMA AllSteps ==
    /\ "insert" \in Steps /\ "find" \in Steps /\ "touch" \in Steps /\ "get" \in Steps /\ "drop" \in Steps
    /\ "stored" \in Steps /\ "attachment" \in Steps /\ "objects" \in Steps /\ "copies" \in Steps
    /\ "row" \in Steps /\ "create" \in Steps /\ "enqueue" \in Steps /\ "fileBlob" \in Steps
    /\ "fileRow" \in Steps /\ "bySHA" \in Steps /\ "promote" \in Steps /\ "oldBlob" \in Steps
    /\ "rollback" \in Steps /\ "delete" \in Steps
  BY DEF Steps

LEMMA Ranges ==
    ASSUME BlobsInv
    PROVE  /\ row.id \in Zero /\ row.scope \in Scopes /\ (row # NoRow => row.id \in Ids)
           /\ \A q \in Requests : /\ req[q] \in Reqs /\ req[q].id \in Zero /\ req[q].found \in Zero
                                  /\ req[q].set \in SUBSET AllFiles /\ req[q].scope \in Scopes
           /\ sweep \in Reqs /\ sweep.found \in Zero
           /\ \A f \in AllFiles : files[f].link \in Zero /\ f \notin Zero /\ f \notin Ids
           /\ nextId <= MaxId => nextId \in Ids /\ nextId \in Zero
           /\ \A i \in Ids : i \in Zero /\ i # 0
           /\ Files = AllFiles /\ 0 \notin Ids
  BY LibraryAssumption DEF LibraryAssumption, BlobsInv, Typed, TypedReqs, TypedFiles, Reqs, Zero, Ids, AllFiles, Files

\* Which steps write the files rows.
LEMMA FilesChange ==
    ASSUME Next, Files = AllFiles
    PROVE  \/ UNCHANGED files
           \/ \E r \in Requests : \/ DeleteCopies(r)
                                  \/ \E f \in AllFiles : \/ CreateFile(r, f) \/ Enqueue(r, f)
                                                         \/ DeleteFileRow(r, f) \/ LinkFile(r, f)
           \/ \E f \in AllFiles : Retry(f)
<1>1. ASSUME NEW r \in Requests, Begin(r) \/ Refuse(r) \/ CutShort(r) PROVE UNCHANGED files
  BY <1>1 DEF Begin, Refuse, CutShort, Upload, DeleteChat, DeleteUserFile, AddToKB, DeleteFile, Adopt, rows
<1>2. ASSUME NEW r \in Requests,
             \/ Insert(r) \/ Find(r) \/ Touch(r) \/ Reread(r) \/ DropOwnBlob(r) \/ Acknowledge(r)
             \/ DeleteAttachment(r) \/ DeleteObjects(r) \/ DeleteUserFileRow(r) \/ Promote(r) \/ Rollback(r)
             \/ \E f \in Files : DeleteFileBlob(r, f) \/ FindBySHA(r, f) \/ DeleteOldBlob(r, f)
      PROVE  UNCHANGED files
  BY <1>2 DEF Insert, Find, Touch, Reread, DropOwnBlob, Acknowledge, DeleteAttachment, DeleteObjects,
              DeleteUserFileRow, Promote, Rollback, DeleteFileBlob, FindBySHA, DeleteOldBlob, rows
<1>3. ASSUME (\E c \in Chats : Send(c)) \/ (\E p \in Ids : AgeBlob(p)) \/ AgeRow \/ Sweep
      PROVE  UNCHANGED files
  BY <1>3 DEF Send, AgeBlob, AgeRow, Sweep, SweepPending, SweepAttachment, SweepCheck, SweepDelete, rows
<1>. QED BY <1>1, <1>2, <1>3 DEF Next, Continue

\* The types but the files' and the requests'.
LEMMA TypedStep ==
    ASSUME BlobsInv, Next
    PROVE  Typed'
<1>. USE Ranges, Plain DEF BlobsInv, Typed, Exists, rows, history
<1>1. ASSUME NEW r \in Requests, NEW s \in Scopes, Upload(r, s) PROVE Typed'
  BY <1>1, LibraryAssumption DEF Upload, StoreBlob, LibraryAssumption, Ids
<1>2. ASSUME NEW r \in Requests, Insert(r) PROVE Typed'
  <2>1. CASE row # NoRow
    BY <1>2, <2>1 DEF Insert
  <2>2. CASE row = NoRow
    <3>1. req[r].id # 0
      BY <1>2 DEF Insert, At, IdsInv, Storing
    <3>2. row' = [id |-> req[r].id, scope |-> req[r].scope, fresh |-> TRUE]
      BY <1>2, <2>2 DEF Insert
    <3>3. row' \in [id : Zero, scope : Scopes, fresh : BOOLEAN] /\ row'.id # 0
      BY <3>1, <3>2
    <3>. QED BY <1>2, <3>3 DEF Insert
  <2>. QED BY <2>1, <2>2
<1>3. ASSUME NEW r \in Requests, Touch(r) PROVE Typed'
  <2>1. CASE row' = row
    BY <1>3, <2>1 DEF Touch
  <2>2. CASE row # NoRow /\ (row' = [row EXCEPT !.scope = "library"] \/ row' = [row EXCEPT !.fresh = TRUE])
    <3>1. row' \in [id : Zero, scope : Scopes, fresh : BOOLEAN] /\ row'.id = row.id
      BY <2>2 DEF Scopes
    <3>. QED BY <1>3, <2>2, <3>1 DEF Touch
  <2>. QED BY <1>3, <2>1, <2>2 DEF Touch
<1>4. ASSUME NEW r \in Requests, DeleteUserFile(r) PROVE Typed'
  <2>1. Linked(row.id) \subseteq AllFiles
    BY DEF Linked
  <2>. QED BY <1>4, <2>1 DEF DeleteUserFile
<1>5. ASSUME NEW r \in Requests, NEW f \in AllFiles, FindBySHA(r, f) PROVE Typed'
  BY <1>5, LibraryAssumption DEF FindBySHA, StoreBlob, LibraryAssumption, Ids
<1>6. ASSUME NEW r \in Requests, Promote(r) PROVE Typed'
  BY <1>6 DEF Promote, Scopes
<1>7. CASE AgeRow
  <2>1. row # NoRow /\ row.id # 0 /\ row' = [row EXCEPT !.fresh = FALSE]
    BY <1>7 DEF AgeRow
  <2>2. row' \in [id : Zero, scope : Scopes, fresh : BOOLEAN] /\ row'.id = row.id
    BY <2>1
  <2>. QED BY <1>7, <2>1, <2>2 DEF AgeRow
<1>8. ASSUME NEW r \in Requests,
             Find(r) \/ Reread(r) \/ Refuse(r) \/ CutShort(r) \/ DeleteCopies(r)
      PROVE  Typed'
  BY <1>8 DEF Find, Reread, Refuse, CutShort, DeleteCopies
<1>82. ASSUME NEW r \in Requests, Acknowledge(r) PROVE Typed'
  BY <1>82 DEF Acknowledge
<1>83. ASSUME NEW r \in Requests, NEW c \in Chats, DeleteChat(r, c) PROVE Typed'
  BY <1>83 DEF DeleteChat
<1>81. ASSUME NEW r \in Requests, DropOwnBlob(r) \/ DeleteObjects(r) PROVE Typed'
  BY <1>81 DEF DropOwnBlob, DeleteObjects, Deletes
<1>9. ASSUME NEW r \in Requests, DeleteAttachment(r) \/ DeleteUserFileRow(r) \/ Rollback(r) PROVE Typed'
  BY <1>9 DEF DeleteAttachment, DeleteUserFileRow, Rollback, DropRow
<1>10. ASSUME NEW r \in Requests, NEW f \in AllFiles,
              \/ AddToKB(r, f) \/ CreateFile(r, f) \/ Enqueue(r, f) \/ DeleteFile(r, f)
              \/ DeleteFileBlob(r, f) \/ DeleteFileRow(r, f) \/ Adopt(r, f) \/ LinkFile(r, f)
              \/ DeleteOldBlob(r, f)
       PROVE  Typed'
  BY <1>10 DEF AddToKB, CreateFile, Enqueue, DeleteFile, DeleteFileBlob, DeleteFileRow, Adopt, LinkFile,
               DeleteOldBlob, Deletes
<1>11. ASSUME (\E c \in Chats : Send(c)) \/ (\E f \in Files : Retry(f)) \/ \E p \in Ids : AgeBlob(p)
       PROVE  Typed'
  BY <1>11 DEF Send, Retry, AgeBlob
<1>12. CASE SweepPending \/ SweepAttachment \/ \E p \in Ids : SweepCheck(p)
  BY <1>12 DEF SweepPending, SweepAttachment, SweepCheck, DropRow
<1>13. CASE SweepDelete
  BY <1>13 DEF SweepDelete, Deletes
<1>. QED BY <1>1, <1>2, <1>3, <1>4, <1>5, <1>6, <1>7, <1>8, <1>81, <1>82, <1>83, <1>9, <1>10, <1>11, <1>12,
            <1>13 DEF Next, Begin, Continue, Sweep, Scopes

LEMMA TypedFilesStep ==
    ASSUME BlobsInv, Next
    PROVE  TypedFiles'
<1>. USE Ranges, Plain DEF BlobsInv, TypedFiles
<1>1. ASSUME NEW r \in Requests, DeleteCopies(r) PROVE TypedFiles'
  BY <1>1 DEF DeleteCopies
<1>2. ASSUME NEW r \in Requests, NEW f \in AllFiles, CreateFile(r, f) PROVE TypedFiles'
  <2>1. [path |-> req[r].found, link |-> req[r].found, busy |-> TRUE]
           \in [path : Zero \cup Legacy, link : Zero, busy : BOOLEAN]
    OBVIOUS
  <2>2. \/ files' = files
        \/ files' = [files EXCEPT ![f] = [path |-> req[r].found, link |-> req[r].found, busy |-> TRUE]]
    BY <1>2 DEF CreateFile
  <2>. QED BY <2>1, <2>2
<1>3. ASSUME NEW r \in Requests, NEW f \in AllFiles, Enqueue(r, f) \/ DeleteFileRow(r, f)
      PROVE  TypedFiles'
  BY <1>3 DEF Enqueue, DeleteFileRow
<1>7. ASSUME NEW r \in Requests, NEW f \in AllFiles, LinkFile(r, f)
      PROVE  TypedFiles'
  BY <1>7 DEF LinkFile
<1>4. ASSUME NEW f \in AllFiles, Retry(f) PROVE TypedFiles'
  BY <1>4 DEF Retry
<1>5. CASE UNCHANGED files
  BY <1>5
<1>6. \/ UNCHANGED files
      \/ \E r \in Requests : \/ DeleteCopies(r)
                             \/ \E f \in AllFiles : \/ CreateFile(r, f) \/ Enqueue(r, f)
                                                    \/ DeleteFileRow(r, f) \/ LinkFile(r, f)
      \/ \E f \in AllFiles : Retry(f)
  BY FilesChange
<1>. QED BY <1>1, <1>2, <1>3, <1>4, <1>5, <1>6, <1>7

\* How a request moves on: it ends, takes another step, or turns to a row.
LEMMA Onward ==
    ASSUME TypedReqs, NEW r \in Requests, UNCHANGED sweep,
           \/ \E at \in Steps : Goto(r, at)
           \/ \E at \in Steps, found \in Zero : req' = [req EXCEPT ![r].at = at, ![r].found = found]
           \/ \E at \in Steps, found \in Zero, set \in SUBSET AllFiles :
                req' = [req EXCEPT ![r].at = at, ![r].found = found, ![r].set = set]
           \/ End(r) \/ UNCHANGED req
    PROVE  TypedReqs'
<1>1. ASSUME NEW at \in Steps, Goto(r, at) PROVE TypedReqs'
  BY <1>1 DEF TypedReqs, Goto, Reqs
<1>2. CASE End(r)
  BY <1>2, Plain DEF TypedReqs, End
<1>3. ASSUME NEW at \in Steps, NEW found \in Zero, NEW set \in SUBSET AllFiles,
             req' = [req EXCEPT ![r].at = at, ![r].found = found, ![r].set = set]
      PROVE  TypedReqs'
  BY ZenonT(60), <1>3 DEF TypedReqs, Reqs
<1>4. ASSUME NEW at \in Steps, NEW found \in Zero, req' = [req EXCEPT ![r].at = at, ![r].found = found]
      PROVE  TypedReqs'
  BY <1>4 DEF TypedReqs, Reqs
<1>. QED BY <1>1, <1>2, <1>3, <1>4 DEF TypedReqs

LEMMA TypedReqsStep ==
    ASSUME BlobsInv, Next
    PROVE  TypedReqs'
<1>. USE Ranges, Plain, AllSteps DEF BlobsInv, rows, history
<1>1. ASSUME NEW r \in Requests, NEW s \in Scopes, Upload(r, s) PROVE TypedReqs'
  BY <1>1 DEF Upload, StoreBlob, TypedReqs, Reqs
<1>2. ASSUME NEW r \in Requests, Insert(r) \/ Find(r) PROVE TypedReqs'
  BY <1>2 DEF Insert, Find, Vanished, Goto, TypedReqs, Reqs
<1>3. ASSUME NEW r \in Requests, Touch(r) \/ Reread(r) PROVE TypedReqs'
  <2>1. CASE Vanished(r)
    <3>1. sweep' = sweep
      BY <1>3 DEF Touch, Reread
    <3>2. \/ req' = [req EXCEPT ![r].at = "insert", ![r].tries = 1]
          \/ req' = [req EXCEPT ![r].at = "drop", ![r].found = 0]
      BY <2>1 DEF Vanished
    <3>. QED BY <3>1, <3>2, LibraryAssumption DEF TypedReqs, Reqs, Zero, LibraryAssumption
  <2>. QED BY <1>3, <2>1, Onward DEF Touch, Reread
<1>4. ASSUME NEW r \in Requests,
             \/ DropOwnBlob(r) \/ Acknowledge(r) \/ Refuse(r) \/ CutShort(r) \/ DeleteAttachment(r)
             \/ DeleteObjects(r) \/ DeleteCopies(r) \/ DeleteUserFileRow(r) \/ Promote(r) \/ Rollback(r)
      PROVE  TypedReqs'
  BY <1>4, Onward DEF DropOwnBlob, Acknowledge, Refuse, CutShort, DeleteAttachment, DeleteObjects, DeleteCopies,
                      DeleteUserFileRow, Promote, Rollback
<1>5. ASSUME NEW r \in Requests, NEW f \in AllFiles,
             \/ CreateFile(r, f) \/ Enqueue(r, f) \/ DeleteFileBlob(r, f) \/ DeleteFileRow(r, f)
             \/ LinkFile(r, f) \/ DeleteOldBlob(r, f)
      PROVE  TypedReqs'
  BY <1>5, Onward DEF CreateFile, Enqueue, DeleteFileBlob, DeleteFileRow, LinkFile, DeleteOldBlob
<1>6. ASSUME NEW r \in Requests, NEW c \in Chats, DeleteChat(r, c) PROVE TypedReqs'
  BY <1>6 DEF DeleteChat, TypedReqs, Reqs
<1>7. ASSUME NEW r \in Requests, DeleteUserFile(r) PROVE TypedReqs'
  <2>1. Linked(row.id) \in SUBSET AllFiles
    BY DEF Linked
  <2>. QED BY <1>7, <2>1, Onward DEF DeleteUserFile
<1>8. ASSUME NEW r \in Requests, NEW f \in AllFiles, AddToKB(r, f) \/ DeleteFile(r, f) PROVE TypedReqs'
  <2>1. {f} \in SUBSET AllFiles
    OBVIOUS
  <2>2. CASE AddToKB(r, f)
    BY <2>1, <2>2, Onward DEF AddToKB
  <2>3. CASE DeleteFile(r, f)
    BY <2>1, <2>3, Onward DEF DeleteFile
  <2>. QED BY <1>8, <2>2, <2>3
<1>9. ASSUME NEW r \in Requests, NEW f \in AllFiles, Adopt(r, f) PROVE TypedReqs'
  <2>1. [Idle EXCEPT !.op = "adopt", !.at = "bySHA", !.set = {f}] \in Reqs
    BY ZenonT(60) DEF Reqs
  <2>. QED BY <1>9, <2>1 DEF Adopt, TypedReqs
<1>10. ASSUME NEW r \in Requests, NEW f \in AllFiles, FindBySHA(r, f) PROVE TypedReqs'
  <2>1. CASE req' = [req EXCEPT ![r].at = IF row.scope = "chat" THEN "promote" ELSE "stored", ![r].found = row.id]
    <3>. DEFINE next == IF row.scope = "chat" THEN "promote" ELSE "stored"
    <3>1. next \in Steps /\ req' = [req EXCEPT ![r].at = next, ![r].found = row.id]
      BY <2>1
    <3>2. sweep' = sweep
      BY <1>10 DEF FindBySHA
    <3>. HIDE DEF next
    <3>. QED BY <3>1, <3>2, Onward
  <2>2. CASE StoreBlob(r, req[r])
    BY ZenonT(60), <1>10, <2>2 DEF FindBySHA, StoreBlob, TypedReqs, Reqs
  <2>3. CASE End(r)
    BY <1>10, <2>3, Onward DEF FindBySHA
  <2>. QED BY <1>10, <2>1, <2>2, <2>3 DEF FindBySHA
<1>11. ASSUME \/ \E c \in Chats : Send(c)
              \/ \E f \in Files : Retry(f)
              \/ \E p \in Ids : AgeBlob(p)
              \/ AgeRow
       PROVE  TypedReqs'
  BY <1>11 DEF Send, Retry, AgeBlob, AgeRow, TypedReqs
<1>12. CASE SweepPending \/ SweepDelete
  <2>1. [Idle EXCEPT !.at = "attachment", !.found = row.id] \in Reqs
    BY DEF Reqs
  <2>. QED BY <1>12, <2>1 DEF SweepPending, SweepDelete, TypedReqs
<1>14. CASE SweepAttachment
  <2>1. [sweep EXCEPT !.at = "delete"] \in Reqs
    BY DEF Reqs
  <2>. QED BY <1>14, <2>1 DEF SweepAttachment, TypedReqs
<1>13. ASSUME NEW p \in Ids, SweepCheck(p) PROVE TypedReqs'
  <2>1. [Idle EXCEPT !.at = "delete", !.found = p] \in Reqs
    BY DEF Reqs
  <2>. QED BY <1>13, <2>1 DEF SweepCheck, TypedReqs
<1>. QED BY <1>1, <1>2, <1>3, <1>4, <1>5, <1>6, <1>7, <1>8, <1>9, <1>10, <1>11, <1>12, <1>13, <1>14
         DEF Next, Begin, Continue, Sweep, Scopes

-----------------------------------------------------------------------------
(* Requests that claim nothing new.                                        *)

GoesOn(r) ==
    /\ \A q \in Requests \ {r} : req'[q] = req[q]
    /\ req'[r].id \in {0, req[r].id} /\ req'[r].found \in {0, req[r].found, row.id}
    /\ req'[r].at \in Storing =>
         req[r].at \in Storing /\ req'[r].id = req[r].id /\ (req'[r].at # "drop" => req[r].at # "drop")
    /\ UNCHANGED <<sweep, nextId>>
    /\ row'.id \in {0, row.id} /\ blobs' \subseteq blobs /\ old' \subseteq old

\* No blob goes whose row is still to come.
Spares == \A q \in Requests : req[q].at \in Storing \ {"drop"} => (req[q].id \in blobs => req[q].id \in blobs')

LEMMA GoesOnIds ==
    ASSUME BlobsInv, NEW r \in Requests, GoesOn(r), Spares
    PROVE  IdsInv'
<1>. USE Ranges DEF BlobsInv, IdsInv, GoesOn, Spares, Storing
<1>1. /\ \A p \in blobs' \cap Ids : p < nextId
      /\ row'.id < nextId /\ sweep.found < nextId
  BY DEF Typed
<1>2. ASSUME NEW q \in Requests
      PROVE  /\ req'[q].id < nextId /\ req'[q].found < nextId
             /\ req'[q].id \notin old'
  <2>1. 0 < nextId /\ 0 \notin old
    BY LibraryAssumption DEF Typed, Ids, LibraryAssumption
  <2>. QED BY <2>1
<1>3. ASSUME NEW q \in Requests, NEW p \in Requests \ {q}, req'[q].id # 0
      PROVE  req'[q].id # req'[p].id
  BY <1>3
<1>4. ASSUME NEW q \in Requests, req'[q].at \in Storing
      PROVE  /\ req[q].at \in Storing /\ req'[q].id = req[q].id
             /\ req'[q].at # "drop" => req[q].at # "drop"
  BY <1>4
<1>5. ASSUME NEW q \in Requests, req'[q].at \in Storing
      PROVE  /\ req'[q].id # 0 /\ req'[q].id \notin {row'.id, sweep.found}
             /\ \A p \in Requests : req'[p].found # req'[q].id
             /\ req'[q].at # "drop" => req'[q].id \in blobs'
  BY <1>4, <1>5
<1>. QED BY <1>1, <1>2, <1>3, <1>5

\* A request that stores a blob claims an id that nobody has used.
LEMMA ClaimsNew ==
    ASSUME BlobsInv, NEW r \in Requests, NEW next \in Reqs, StoreBlob(r, next),
           next.found \in {0, req[r].found}, UNCHANGED <<row, old, sweep>>
    PROVE  IdsInv'
<1>1. /\ nextId \in Ids /\ nextId' = nextId + 1 /\ blobs' = blobs \cup {nextId}
      /\ req'[r].id = nextId /\ req'[r].found \in {0, req[r].found} /\ req'[r].at = "insert"
      /\ \A q \in Requests \ {r} : req'[q] = req[q]
  BY Ranges DEF StoreBlob, BlobsInv, TypedReqs, Reqs
<1>2. /\ \A i \in Zero : i < nextId => i # nextId /\ i < nextId + 1
      /\ nextId < nextId + 1 /\ 0 < nextId + 1
  BY LibraryAssumption DEF LibraryAssumption, BlobsInv, Typed, Zero
<1>3. 0 < nextId /\ nextId \notin old /\ nextId \notin blobs
  BY <1>1 DEF BlobsInv, Typed, IdsInv, Ids
<1>4. /\ \A p \in blobs \cap Ids : p < nextId
      /\ row.id < nextId /\ sweep.found < nextId
      /\ \A q \in Requests :
           /\ req[q].id < nextId /\ req[q].found < nextId
           /\ req[q].id # nextId /\ req[q].found # nextId
           /\ req[q].id \notin old
      /\ nextId \notin {row.id, sweep.found}
  BY <1>2, Ranges DEF BlobsInv, IdsInv
<1>5. /\ \A p \in blobs' \cap Ids : p < nextId'
      /\ row'.id < nextId' /\ sweep'.found < nextId'
      /\ \A q \in Requests : /\ req'[q].id < nextId' /\ req'[q].found < nextId'
                             /\ req'[q].id \notin old'
  <2>1. /\ \A p \in blobs' \cap Ids : p < nextId'
        /\ row'.id < nextId' /\ sweep'.found < nextId'
    BY <1>1, <1>2, <1>4, Ranges
  <2>2. ASSUME NEW q \in Requests
        PROVE  req'[q].id < nextId' /\ req'[q].found < nextId' /\ req'[q].id \notin old'
    <3>1. CASE q = r
      BY <1>1, <1>2, <1>3, <1>4, <3>1, Ranges
    <3>2. CASE q # r
      BY <1>1, <1>2, <1>4, <3>2, Ranges
    <3>. QED BY <3>1, <3>2
  <2>. QED BY <2>1, <2>2
<1>6. ASSUME NEW q \in Requests, NEW p \in Requests \ {q}, req'[q].id # 0
      PROVE  req'[q].id # req'[p].id
  BY <1>1, <1>4, <1>6 DEF BlobsInv, IdsInv
<1>7. ASSUME NEW q \in Requests, req'[q].at \in Storing
      PROVE  /\ req'[q].id # 0 /\ req'[q].id \notin {row'.id, sweep'.found}
             /\ \A p \in Requests : req'[p].found # req'[q].id
             /\ req'[q].at # "drop" => req'[q].id \in blobs'
  <2>1. CASE q = r
    BY <1>1, <1>3, <1>4, <2>1
  <2>2. CASE q # r
    BY <1>1, <1>7, <2>2 DEF BlobsInv, IdsInv
  <2>. QED BY <2>1, <2>2
<1>. QED BY <1>5, <1>6, <1>7 DEF IdsInv

\* Most of what requests do.
LEMMA Onwards ==
    ASSUME BlobsInv, NEW r \in Requests,
           \/ Find(r) \/ Touch(r) \/ Reread(r) \/ DropOwnBlob(r) \/ Acknowledge(r) \/ Refuse(r) \/ CutShort(r)
           \/ DeleteAttachment(r) \/ DeleteObjects(r) \/ DeleteUserFile(r) \/ DeleteCopies(r)
           \/ DeleteUserFileRow(r) \/ Promote(r) \/ Rollback(r)
           \/ \E c \in Chats : DeleteChat(r, c)
           \/ \E f \in AllFiles :
                \/ AddToKB(r, f) \/ CreateFile(r, f) \/ Enqueue(r, f) \/ DeleteFile(r, f)
                \/ DeleteFileBlob(r, f) \/ DeleteFileRow(r, f) \/ Adopt(r, f) \/ LinkFile(r, f)
                \/ DeleteOldBlob(r, f)
    PROVE  GoesOn(r)
<1>. USE Ranges, Plain DEF GoesOn, rows, history, Goto, End, At, TypedReqs, Reqs
<1>0. TypedReqs
  BY DEF BlobsInv
<1>1. CASE Find(r) \/ Reread(r)
  BY <1>0, <1>1 DEF Find, Reread, Vanished, Storing
<1>2. CASE Touch(r)
  <2>1. row'.id = row.id
    <3>1. row' \in {row, [row EXCEPT !.scope = "library"], [row EXCEPT !.fresh = TRUE]}
      BY <1>2 DEF Touch
    <3>. QED BY <3>1 DEF BlobsInv, Typed
  <2>2. CASE Vanished(r)
    BY <1>0, <1>2, <2>1, <2>2 DEF Touch, Vanished, Storing
  <2>3. CASE Goto(r, "get")
    BY <1>0, <1>2, <2>1, <2>3 DEF Touch, Storing
  <2>. QED BY <1>2, <2>2, <2>3 DEF Touch
<1>3. CASE DropOwnBlob(r) \/ DeleteObjects(r)
  BY <1>0, <1>3 DEF DropOwnBlob, DeleteObjects, Deletes, Storing
<1>4. CASE Acknowledge(r) \/ Refuse(r) \/ CutShort(r) \/ DeleteCopies(r) \/ DeleteUserFile(r)
  BY <1>0, <1>4 DEF Acknowledge, Refuse, CutShort, DeleteCopies, DeleteUserFile, Storing
<1>5. CASE DeleteAttachment(r) \/ DeleteUserFileRow(r) \/ Rollback(r)
  <2>1. row' \in {row, NoRow}
    BY <1>5 DEF DeleteAttachment, DeleteUserFileRow, Rollback, DropRow
  <2>2. End(r) \/ Goto(r, "objects")
    BY <1>5 DEF DeleteAttachment, DeleteUserFileRow, Rollback
  <2>3. /\ UNCHANGED <<sweep, nextId, blobs, old>> /\ row'.id \in {0, row.id}
        /\ \A q \in Requests \ {r} : req'[q] = req[q]
    BY ZenonT(60), <1>0, <1>5, <2>1, <2>2 DEF DeleteAttachment, DeleteUserFileRow, Rollback
  <2>4. /\ req'[r].id \in {0, req[r].id} /\ req'[r].found \in {0, req[r].found}
        /\ req'[r].at \notin Storing
    BY <1>0, <2>2 DEF Storing
  <2>. QED BY <2>3, <2>4
<1>6. CASE Promote(r)
  <2>1. row' \in {row, [row EXCEPT !.scope = "library"]}
    BY <1>6 DEF Promote
  <2>2. row'.id = row.id
    BY <2>1 DEF BlobsInv, Typed
  <2>. QED BY <1>0, <1>6, <2>2 DEF Promote, Storing
<1>7. ASSUME NEW c \in Chats, DeleteChat(r, c) PROVE GoesOn(r)
  BY <1>0, <1>7 DEF DeleteChat, Storing
<1>8. ASSUME NEW f \in AllFiles, AddToKB(r, f) \/ CreateFile(r, f) \/ Enqueue(r, f) \/ DeleteFileRow(r, f)
      PROVE  GoesOn(r)
  BY <1>0, <1>8 DEF AddToKB, CreateFile, Enqueue, DeleteFileRow, Storing
<1>9. ASSUME NEW f \in AllFiles, DeleteFile(r, f) PROVE GoesOn(r)
  BY ZenonT(60), <1>0, <1>9 DEF DeleteFile, Storing, BlobsInv, FilesInv
<1>10. ASSUME NEW f \in AllFiles, DeleteFileBlob(r, f) \/ DeleteOldBlob(r, f) PROVE GoesOn(r)
  BY <1>0, <1>10 DEF DeleteFileBlob, DeleteOldBlob, Deletes, Storing
<1>11. ASSUME NEW f \in AllFiles, Adopt(r, f) \/ LinkFile(r, f) PROVE GoesOn(r)
  <2>1. CASE Adopt(r, f)
    BY ZenonT(60), <1>0, <2>1 DEF Adopt, Storing
  <2>2. CASE LinkFile(r, f)
    BY <1>0, <2>2 DEF LinkFile, Storing
  <2>. QED BY <1>11, <2>1, <2>2
<1>. QED BY <1>1, <1>2, <1>3, <1>4, <1>5, <1>6, <1>7, <1>8, <1>9, <1>10, <1>11

LEMMA IdsStep ==
    ASSUME BlobsInv, Next
    PROVE  IdsInv'
<1>. USE Ranges, Plain DEF rows, history
<1>1. ASSUME NEW r \in Requests, NEW s \in Scopes, Upload(r, s) PROVE IdsInv'
  <2>. DEFINE next == [Idle EXCEPT !.op = "upload", !.scope = s]
  <2>1. next \in Reqs /\ next.found = 0
    BY DEF Reqs
  <2>2. StoreBlob(r, next) /\ UNCHANGED <<row, old, sweep>>
    BY <1>1 DEF Upload
  <2>. HIDE DEF next
  <2>. QED BY <2>1, <2>2, ClaimsNew
<1>2. ASSUME NEW r \in Requests, NEW f \in AllFiles, FindBySHA(r, f) PROVE IdsInv'
  <2>1. CASE StoreBlob(r, req[r])
    BY <1>2, <2>1, ClaimsNew DEF FindBySHA
  <2>2. CASE UNCHANGED <<blobs, nextId>>
    <3>1. GoesOn(r)
      <4>1. \/ End(r)
            \/ \E at \in {"promote", "stored"} : req' = [req EXCEPT ![r].at = at, ![r].found = row.id]
        BY <1>2, <2>2 DEF FindBySHA, StoreBlob, BlobsInv, Typed
      <4>2. UNCHANGED <<row, blobs, old, sweep, nextId>>
        BY <1>2, <2>2 DEF FindBySHA
      <4>. QED BY <4>1, <4>2 DEF GoesOn, Storing, End, TypedReqs, Reqs, BlobsInv
    <3>. QED BY <2>2, <3>1, GoesOnIds DEF Spares
  <2>. QED BY <1>2, <2>1, <2>2 DEF FindBySHA
<1>3. ASSUME NEW r \in Requests, Insert(r) PROVE IdsInv'
  BY <1>3 DEF Insert, BlobsInv, Typed, TypedReqs, Reqs, IdsInv, Storing, Goto, At, NoRow
<1>4. ASSUME NEW r \in Requests, DropOwnBlob(r) \/ DeleteObjects(r) PROVE IdsInv'
  <2>1. Spares
    BY <1>4 DEF DropOwnBlob, DeleteObjects, Deletes, Spares, BlobsInv, IdsInv, Storing, At
  <2>. QED BY <1>4, <2>1, GoesOnIds, Onwards
<1>5. ASSUME NEW r \in Requests, NEW f \in AllFiles, DeleteFileBlob(r, f) \/ DeleteOldBlob(r, f) PROVE IdsInv'
  <2>1. Spares
    BY <1>5 DEF DeleteFileBlob, DeleteOldBlob, Deletes, Spares
  <2>. QED BY <1>5, <2>1, GoesOnIds, Onwards
<1>6. ASSUME NEW r \in Requests,
             \/ Find(r) \/ Touch(r) \/ Reread(r) \/ Acknowledge(r) \/ Refuse(r) \/ CutShort(r)
             \/ DeleteAttachment(r) \/ DeleteUserFile(r) \/ DeleteCopies(r) \/ DeleteUserFileRow(r)
             \/ Promote(r) \/ Rollback(r)
             \/ \E c \in Chats : DeleteChat(r, c)
      PROVE  IdsInv'
  <2>1. Spares
    BY <1>6 DEF Find, Touch, Reread, Acknowledge, Refuse, CutShort, DeleteAttachment, DeleteUserFile,
                DeleteCopies, DeleteUserFileRow, Promote, Rollback, DeleteChat, Spares
  <2>. QED BY <1>6, <2>1, GoesOnIds, Onwards
<1>7. ASSUME NEW r \in Requests, NEW f \in AllFiles,
             \/ AddToKB(r, f) \/ CreateFile(r, f) \/ Enqueue(r, f) \/ DeleteFile(r, f)
             \/ DeleteFileRow(r, f) \/ Adopt(r, f) \/ LinkFile(r, f)
      PROVE  IdsInv'
  <2>1. Spares
    BY <1>7 DEF AddToKB, CreateFile, Enqueue, DeleteFile, DeleteFileRow, Adopt, LinkFile, Spares
  <2>. QED BY <1>7, <2>1, GoesOnIds, Onwards
<1>8. ASSUME (\E c \in Chats : Send(c)) \/ (\E f \in Files : Retry(f)) PROVE IdsInv'
  <2>1. UNCHANGED <<row, blobs, old, req, sweep, nextId>>
    BY <1>8 DEF Send, Retry
  <2>. QED BY <2>1 DEF BlobsInv, IdsInv
<1>9. ASSUME NEW p \in Ids, AgeBlob(p) PROVE IdsInv'
  BY <1>9 DEF AgeBlob, BlobsInv, IdsInv
<1>10. CASE AgeRow
  BY <1>10 DEF AgeRow, BlobsInv, Typed, IdsInv
<1>11. CASE Sweep
  <2>1. /\ UNCHANGED <<req, nextId>> /\ row'.id \in {0, row.id} /\ blobs' \subseteq blobs /\ old' \subseteq old
        /\ sweep'.found \in {0, sweep.found, row.id} \cup (old \cap Ids)
        /\ blobs \ blobs' \subseteq {sweep.found}
    BY ZenonT(60), <1>11 DEF Sweep, SweepPending, SweepAttachment, SweepCheck, SweepDelete, DropRow, Deletes, BlobsInv,
                 TypedReqs, Reqs
  <2>2. \A p \in old : p \in blobs /\ (p \in Ids \/ p \in Legacy)
    BY DEF BlobsInv, Typed
  <2>3. \A r \in Requests : req[r].id \notin old
    BY DEF BlobsInv, IdsInv
  <2>4. sweep'.found < nextId /\ row'.id < nextId /\ 0 < nextId
    BY <2>1, <2>2, LibraryAssumption DEF BlobsInv, Typed, IdsInv, LibraryAssumption
  <2>. QED BY <2>1, <2>3, <2>4 DEF BlobsInv, IdsInv, Storing
<1>. QED BY <1>1, <1>2, <1>3, <1>4, <1>5, <1>6, <1>7, <1>8, <1>9, <1>10, <1>11
         DEF Next, Begin, Continue, Scopes

-----------------------------------------------------------------------------
(* Rows, blobs and files.                                                  *)

LEMMA RowStep ==
    ASSUME BlobsInv, Next
    PROVE  RowInv'
<1>. USE Ranges, Plain DEF BlobsInv, TypedReqs, IdsInv, RowInv, RowHasBlob, Storing, Exists, rows, history, Goto,
         End, At, Reqs
<1>1. ASSUME NEW r \in Requests, NEW s \in Scopes, Upload(r, s) PROVE RowInv'
  BY <1>1 DEF Upload, StoreBlob
<1>2. ASSUME NEW r \in Requests, Insert(r) PROVE RowInv'
  BY <1>2 DEF Insert
<1>3. ASSUME NEW r \in Requests, Find(r) \/ Reread(r) PROVE RowInv'
  BY <1>3 DEF Find, Reread, Vanished
<1>4. ASSUME NEW r \in Requests, Touch(r) PROVE RowInv'
  BY SMTT(30), <1>4 DEF Touch, Vanished, Typed
<1>5. ASSUME NEW r \in Requests, DropOwnBlob(r) \/ DeleteObjects(r) PROVE RowInv'
  BY <1>5 DEF DropOwnBlob, DeleteObjects, Deletes
<1>6. ASSUME NEW r \in Requests,
             Acknowledge(r) \/ Refuse(r) \/ CutShort(r) \/ DeleteUserFile(r) \/ DeleteCopies(r)
      PROVE  RowInv'
  BY <1>6 DEF Acknowledge, Refuse, CutShort, DeleteUserFile, DeleteCopies
<1>7. ASSUME NEW r \in Requests, NEW c \in Chats, DeleteChat(r, c) PROVE RowInv'
  BY <1>7 DEF DeleteChat
<1>8. ASSUME NEW r \in Requests, DeleteAttachment(r) PROVE RowInv'
  BY <1>8 DEF DeleteAttachment, DropRow, DeletableChatFile
<1>9. ASSUME NEW r \in Requests, DeleteUserFileRow(r) \/ Rollback(r) PROVE RowInv'
  BY <1>9 DEF DeleteUserFileRow, Rollback, DropRow
<1>10. ASSUME NEW r \in Requests, Promote(r) PROVE RowInv'
  BY <1>10 DEF Promote, Typed
<1>11. ASSUME NEW r \in Requests, NEW f \in AllFiles, AddToKB(r, f) \/ CreateFile(r, f) PROVE RowInv'
  BY <1>11 DEF AddToKB, CreateFile
<1>111. ASSUME NEW r \in Requests, NEW f \in AllFiles, Enqueue(r, f) \/ DeleteFileRow(r, f) PROVE RowInv'
  BY <1>111 DEF Enqueue, DeleteFileRow
<1>112. ASSUME NEW r \in Requests, NEW f \in AllFiles, DeleteFile(r, f) PROVE RowInv'
  BY <1>112 DEF DeleteFile
<1>12. ASSUME NEW r \in Requests, NEW f \in AllFiles, DeleteFileBlob(r, f) \/ DeleteOldBlob(r, f) PROVE RowInv'
  BY <1>12 DEF DeleteFileBlob, DeleteOldBlob, Deletes
<1>13. ASSUME NEW r \in Requests, NEW f \in AllFiles, Adopt(r, f) PROVE RowInv'
  BY <1>13 DEF Adopt
<1>131. ASSUME NEW r \in Requests, NEW f \in AllFiles, LinkFile(r, f) PROVE RowInv'
  BY <1>131 DEF LinkFile
<1>14. ASSUME NEW r \in Requests, NEW f \in AllFiles, FindBySHA(r, f) PROVE RowInv'
  BY <1>14 DEF FindBySHA, StoreBlob
<1>15. ASSUME \/ \E c \in Chats : Send(c)
              \/ \E f \in Files : Retry(f)
              \/ \E p \in Ids : AgeBlob(p)
       PROVE  RowInv'
  BY <1>15 DEF Send, Retry, AgeBlob
<1>16. CASE AgeRow
  BY <1>16 DEF AgeRow, Typed
<1>17. CASE SweepPending \/ SweepAttachment
  BY ZenonT(60), <1>17 DEF SweepPending, SweepAttachment, DropRow, DeletableChatFile
<1>18. CASE SweepDelete
  <2>1. /\ UNCHANGED <<row, req>> /\ sweep'.at # "delete"
        /\ ~Exists(sweep.found) /\ blobs \ {sweep.found} \subseteq blobs'
    BY <1>18 DEF SweepDelete, Deletes
  <2>. QED BY <2>1
<1>19. ASSUME NEW p \in Ids, SweepCheck(p) PROVE RowInv'
  <2>1. UNCHANGED <<row, req, blobs>> /\ sweep'.found = p /\ ~Exists(p)
    BY <1>19 DEF SweepCheck, Referenced
  <2>. QED BY <2>1
<1>. QED BY <1>1, <1>2, <1>3, <1>4, <1>5, <1>6, <1>7, <1>8, <1>9, <1>10, <1>11, <1>111, <1>112,
            <1>12, <1>13, <1>131, <1>14, <1>15, <1>16, <1>17, <1>18, <1>19 DEF Next, Begin, Continue, Sweep, Scopes

\* What touches neither a file nor the row it shares.
LEMMA FilesKept ==
    ASSUME BlobsInv, UNCHANGED files, doomed \subseteq doomed',
           row'.id = row.id, row # NoRow => row' # NoRow,
           \A f \in Legacy \ doomed : files[f].path = f => (f \in blobs => f \in blobs'),
           \A q \in Requests : \/ req'[q].at \notin {"create", "enqueue", "fileBlob"}
                               \/ /\ req'[q].at = req[q].at /\ req'[q].set = req[q].set
                                  /\ req'[q].found = req[q].found
    PROVE  FilesInv'
<1>. USE DEF BlobsInv, FilesInv
<1>1. \A f \in Legacy : f \in AllFiles
  BY DEF AllFiles
<1>. QED BY <1>1

LEMMA FilesStep ==
    ASSUME BlobsInv, Next
    PROVE  FilesInv'
<1>. USE Ranges, Plain DEF BlobsInv, rows, history
<1>1. ASSUME NEW r \in Requests, NEW s \in Scopes, Upload(r, s) PROVE FilesInv'
  <2>1. /\ UNCHANGED <<files, doomed, row>> /\ blobs \subseteq blobs'
        /\ \A q \in Requests \ {r} : req'[q] = req[q]
        /\ req'[r].at = "insert"
    BY <1>1 DEF Upload, StoreBlob, TypedReqs, Reqs
  <2>. QED BY <2>1, FilesKept
<1>2. ASSUME NEW r \in Requests, Insert(r) PROVE FilesInv'
  <2>1. CASE row # NoRow
    <3>1. UNCHANGED <<files, doomed, row, blobs>> /\ req' = [req EXCEPT ![r].at = "find"]
      BY <1>2, <2>1 DEF Insert, Goto
    <3>2. \A q \in Requests : req'[q] = req[q] \/ req'[q].at = "find"
      BY <3>1 DEF TypedReqs, Reqs
    <3>. QED BY <3>1, <3>2, FilesKept
  <2>2. CASE row = NoRow
    <3>1. /\ UNCHANGED <<files, doomed, blobs>>
          /\ req' = [req EXCEPT ![r].at = "stored", ![r].found = req[r].id, ![r].new = TRUE]
      BY <1>2, <2>2 DEF Insert
    <3>2. \A q \in Requests : req'[q] = req[q] \/ req'[q].at = "stored"
      BY <3>1 DEF TypedReqs, Reqs
    <3>. QED BY <2>2, <3>1, <3>2 DEF FilesInv
  <2>. QED BY <2>1, <2>2
<1>3. ASSUME NEW r \in Requests, Find(r) \/ Reread(r) PROVE FilesInv'
  <2>1. /\ UNCHANGED <<files, doomed, row, blobs>>
        /\ \A q \in Requests : req'[q] = req[q] \/ req'[q].at \notin {"create", "enqueue", "fileBlob"}
    BY <1>3 DEF Find, Reread, Vanished, Goto, TypedReqs, Reqs
  <2>. QED BY <2>1, FilesKept
<1>4. ASSUME NEW r \in Requests, Touch(r) PROVE FilesInv'
  <2>1. /\ UNCHANGED <<files, doomed, blobs>>
        /\ \A q \in Requests : req'[q] = req[q] \/ req'[q].at \notin {"create", "enqueue", "fileBlob"}
    <3>1. CASE Vanished(r)
      BY <1>4, <3>1 DEF Touch, Vanished, TypedReqs, Reqs
    <3>2. CASE Goto(r, "get")
      BY <1>4, <3>2 DEF Touch, Goto, TypedReqs, Reqs
    <3>. QED BY <1>4, <3>1, <3>2 DEF Touch
  <2>2. row'.id = row.id /\ (row # NoRow => row' # NoRow)
    <3>1. row' = row \/ (row # NoRow /\ row' \in {[row EXCEPT !.scope = "library"], [row EXCEPT !.fresh = TRUE]})
      BY <1>4 DEF Touch, Exists
    <3>. QED BY <3>1 DEF Typed
  <2>. QED BY <2>1, <2>2, FilesKept
<1>5. ASSUME NEW r \in Requests, DropOwnBlob(r) \/ DeleteObjects(r) PROVE FilesInv'
  <2>1. UNCHANGED <<files, doomed, row>> /\ blobs \ blobs' \subseteq Zero
    BY <1>5 DEF DropOwnBlob, DeleteObjects, Deletes
  <2>2. \A q \in Requests : req'[q] = req[q] \/ req'[q].at \notin {"create", "enqueue", "fileBlob"}
    BY <1>5 DEF DropOwnBlob, DeleteObjects, Goto, End, TypedReqs, Reqs
  <2>3. \A f \in Legacy : f \in blobs => f \in blobs'
    BY <2>1 DEF AllFiles
  <2>. QED BY <2>1, <2>2, <2>3, FilesKept
<1>6. ASSUME NEW r \in Requests, Acknowledge(r) \/ Refuse(r) \/ CutShort(r) \/ DeleteUserFile(r) PROVE FilesInv'
  <2>1. UNCHANGED <<files, row, blobs>> /\ doomed \subseteq doomed'
    BY <1>6 DEF Acknowledge, Refuse, CutShort, DeleteUserFile
  <2>2. \A q \in Requests : req'[q] = req[q] \/ req'[q].at \notin {"create", "enqueue", "fileBlob"}
    BY <1>6 DEF Acknowledge, Refuse, CutShort, DeleteUserFile, Goto, End, TypedReqs, Reqs
  <2>. QED BY <2>1, <2>2, FilesKept
<1>7. ASSUME NEW r \in Requests, NEW c \in Chats, DeleteChat(r, c) PROVE FilesInv'
  <2>1. UNCHANGED <<files, row, blobs, doomed>>
    BY <1>7 DEF DeleteChat
  <2>2. \A q \in Requests : req'[q] = req[q] \/ req'[q].at \notin {"create", "enqueue", "fileBlob"}
    BY <1>7 DEF DeleteChat, TypedReqs, Reqs
  <2>. QED BY <2>1, <2>2, FilesKept
\* A row goes only when no file is linked to it.
<1>8. ASSUME NEW r \in Requests, DeleteAttachment(r) \/ DeleteUserFileRow(r) \/ Rollback(r) PROVE FilesInv'
  <2>1. UNCHANGED <<files, blobs, doomed>>
    BY <1>8 DEF DeleteAttachment, DeleteUserFileRow, Rollback
  <2>2. \A q \in Requests : req'[q] = req[q] \/ req'[q].at \notin {"create", "enqueue", "fileBlob"}
    <3>1. End(r) \/ Goto(r, "objects")
      BY <1>8 DEF DeleteAttachment, DeleteUserFileRow, Rollback
    <3>. QED BY <3>1 DEF Goto, End, TypedReqs, Reqs
  <2>3. UNCHANGED row \/ (row # NoRow /\ Linked(row.id) = {})
    BY <1>8 DEF DeleteAttachment, DeleteUserFileRow, Rollback, DropRow, DeletableChatFile, Unreferenced, Exists
  <2>4. CASE UNCHANGED row
    BY <2>1, <2>2, <2>4, FilesKept
  <2>5. CASE row # NoRow /\ Linked(row.id) = {}
    <3>1. \A f \in AllFiles : files[f] = Gone \/ (f \in Legacy /\ files[f].path = f /\ files[f].link = 0)
      BY <2>5 DEF FilesInv, Linked
    <3>. QED BY <2>1, <2>2, <3>1 DEF FilesInv
  <2>. QED BY <2>3, <2>4, <2>5
<1>9. ASSUME NEW r \in Requests, Promote(r) PROVE FilesInv'
  <2>1. /\ UNCHANGED <<files, doomed, blobs>>
        /\ \A q \in Requests : req'[q] = req[q] \/ req'[q].at \notin {"create", "enqueue", "fileBlob"}
    BY <1>9 DEF Promote, Goto, End, TypedReqs, Reqs
  <2>2. row'.id = row.id /\ (row # NoRow => row' # NoRow)
    BY <1>9 DEF Promote, Exists, Typed
  <2>. QED BY <2>1, <2>2, FilesKept
<1>10. ASSUME NEW r \in Requests, DeleteCopies(r) PROVE FilesInv'
  <2>1. /\ UNCHANGED <<row, blobs>>
        /\ \A f \in AllFiles : files'[f] = IF f \in req[r].set THEN Gone ELSE files[f]
        /\ doomed' = doomed \ req[r].set
        /\ \A q \in Requests : req'[q] = req[q] \/ req'[q].at = "row"
    BY <1>10 DEF DeleteCopies, Goto, TypedReqs, Reqs
  <2>2. \A f \in Legacy : f \in AllFiles /\ f # 0
    BY DEF AllFiles, Zero
  <2>. QED BY <2>1, <2>2 DEF FilesInv
<1>11. ASSUME NEW r \in Requests, NEW f \in AllFiles, AddToKB(r, f) PROVE FilesInv'
  <2>1. /\ UNCHANGED <<files, row, blobs, doomed>>
        /\ \A q \in Requests : req'[q] = req[q] \/ (req'[q].at = "create" /\ req'[q].set = {f})
        /\ f \in Copies
    BY <1>11 DEF AddToKB, TypedReqs, Reqs
  <2>. QED BY <2>1 DEF FilesInv
<1>12. ASSUME NEW r \in Requests, NEW f \in AllFiles, CreateFile(r, f) PROVE FilesInv'
  <2>1. CASE UNCHANGED files
    <3>1. /\ UNCHANGED <<row, blobs, doomed>>
          /\ \A q \in Requests : \/ req'[q] = req[q] \/ req'[q].at = "idle"
                                 \/ req'[q].at = "enqueue" /\ req[q].at = "create" /\ req'[q].set = req[q].set
      BY <1>12 DEF CreateFile, Goto, End, At, TypedReqs, Reqs
    <3>. QED BY <2>1, <3>1 DEF FilesInv
  <2>2. CASE /\ Exists(req[r].found) /\ ~InKB(f, req[r].found) /\ files[f] = Gone
             /\ files' = [files EXCEPT ![f] = [path |-> req[r].found, link |-> req[r].found, busy |-> TRUE]]
    <3>. DEFINE new == [path |-> req[r].found, link |-> req[r].found, busy |-> TRUE]
    <3>1. /\ UNCHANGED <<row, blobs, doomed>>
          /\ \A q \in Requests : \/ req'[q] = req[q] \/ req'[q].at = "idle"
                                 \/ req'[q].at = "enqueue" /\ req[q].at = "create" /\ req'[q].set = req[q].set
      BY <1>12 DEF CreateFile, Goto, End, At, TypedReqs, Reqs
    <3>2. f \in Copies /\ f \notin Legacy
      BY <1>12, LibraryAssumption DEF CreateFile, At, FilesInv, LibraryAssumption
    <3>3. new.path = row.id /\ new.link = row.id /\ row # NoRow
      BY <2>2 DEF Exists
    <3>4. \A g \in AllFiles : files[g].link = row.id /\ KBOf[g] = KBOf[f] => g = f
      BY <2>2, <3>3 DEF Exists, InKB, Linked
    <3>5. files'[f] = new /\ \A g \in AllFiles \ {f} : files'[g] = files[g]
      BY <2>2 DEF TypedFiles
    <3>6. \A g \in Legacy : g \in AllFiles /\ g # f
      BY <3>2 DEF AllFiles
    <3>. HIDE DEF new
    <3>7. \A g \in AllFiles :
           \/ files'[g] = Gone
           \/ g \in Legacy /\ files'[g].path = g /\ files'[g].link = 0
           \/ files'[g].path = row.id /\ files'[g].link = row.id /\ row # NoRow
      BY <3>3, <3>5 DEF FilesInv
    <3>8. \A g, h \in AllFiles :
            files'[g].link # 0 /\ files'[g].link = files'[h].link /\ KBOf[g] = KBOf[h] => g = h
      BY <3>3, <3>4, <3>5 DEF FilesInv
    <3>9. \A g \in Legacy \ doomed : files'[g].path = g => g \in blobs
      BY <3>5, <3>6 DEF FilesInv
    <3>10. ASSUME NEW q \in Requests
           PROVE  /\ req'[q].at \in {"create", "enqueue"} => req'[q].set \subseteq Copies
                  /\ req'[q].at = "fileBlob" /\ req'[q].found = 0 =>
                       \A g \in req'[q].set : g \in Legacy /\ (g \in doomed \/ files'[g] = Gone)
      BY <3>1, <3>5, <3>6 DEF FilesInv
    <3>. QED BY <3>1, <3>7, <3>8, <3>9, <3>10 DEF FilesInv
  <2>. QED BY <1>12, <2>1, <2>2 DEF CreateFile
<1>13. ASSUME NEW r \in Requests, NEW f \in AllFiles, Enqueue(r, f) \/ DeleteFileRow(r, f) PROVE FilesInv'
  <2>1. /\ UNCHANGED <<row, blobs>>
        /\ \A q \in Requests : req'[q] = req[q] \/ req'[q].at = "idle"
        /\ \A g \in AllFiles : files'[g] = files[g] \/ files'[g] = Gone
        /\ \A g \in doomed \ doomed' : files'[g] = Gone
    BY <1>13 DEF Enqueue, DeleteFileRow, End, TypedReqs, Reqs, TypedFiles, Typed
  <2>2. \A g \in Legacy : g \in AllFiles /\ g # 0
    BY DEF AllFiles, Zero
  <2>. QED BY <2>1, <2>2 DEF FilesInv
<1>14. ASSUME NEW r \in Requests, NEW f \in AllFiles, DeleteFile(r, f) PROVE FilesInv'
  <2>1. /\ UNCHANGED <<row, blobs, files>> /\ doomed' = doomed \cup {f} /\ files[f] # Gone
        /\ \A q \in Requests : \/ req'[q] = req[q]
                               \/ req'[q].at = "fileBlob" /\ req'[q].found = files[f].link /\ req'[q].set = {f}
    BY <1>14 DEF DeleteFile, TypedReqs, Reqs
  <2>2. files[f].link = 0 => f \in Legacy
    BY <2>1 DEF FilesInv
  <2>. QED BY <2>1, <2>2 DEF FilesInv
<1>15. ASSUME NEW r \in Requests, NEW f \in AllFiles, DeleteFileBlob(r, f) PROVE FilesInv'
  <2>1. /\ UNCHANGED <<row, files, doomed>>
        /\ \A q \in Requests : req'[q] = req[q] \/ req'[q].at = "fileRow"
        /\ blobs \ blobs' \subseteq IF req[r].found = 0 THEN {f} ELSE {}
    BY <1>15 DEF DeleteFileBlob, Deletes, Goto, TypedReqs, Reqs
  <2>2. req[r].found = 0 => f \in doomed \/ files[f] = Gone
    BY <1>15 DEF DeleteFileBlob, At, FilesInv
  <2>3. Gone.path # f
    BY DEF Zero
  <2>. QED BY <2>1, <2>2, <2>3, FilesKept
<1>16. ASSUME NEW r \in Requests, NEW f \in AllFiles, Adopt(r, f) PROVE FilesInv'
  <2>1. UNCHANGED <<files, row, blobs, doomed>>
    BY <1>16 DEF Adopt
  <2>2. \A q \in Requests : req'[q] = req[q] \/ req'[q].at = "bySHA"
    BY <1>16 DEF Adopt, TypedReqs, Reqs
  <2>. QED BY <2>1, <2>2, FilesKept
<1>17. ASSUME NEW r \in Requests, NEW f \in AllFiles, FindBySHA(r, f) PROVE FilesInv'
  <2>1. UNCHANGED <<files, row, doomed>> /\ blobs \subseteq blobs'
    BY <1>17 DEF FindBySHA, StoreBlob
  <2>2. \A q \in Requests : req'[q] = req[q] \/ req'[q].at \notin {"create", "enqueue", "fileBlob"}
    <3>1. \/ End(r)
          \/ \E at \in {"promote", "stored"} : req' = [req EXCEPT ![r].at = at, ![r].found = row.id]
          \/ StoreBlob(r, req[r])
      BY <1>17 DEF FindBySHA
    <3>2. CASE StoreBlob(r, req[r])
      BY <3>2 DEF StoreBlob, TypedReqs, Reqs
    <3>. QED BY <3>1, <3>2 DEF End, TypedReqs, Reqs
  <2>. QED BY <2>1, <2>2, FilesKept
<1>18. ASSUME NEW r \in Requests, NEW f \in AllFiles, LinkFile(r, f) PROVE FilesInv'
  <2>1. /\ UNCHANGED <<row, blobs, doomed>>
        /\ \A q \in Requests : req'[q] = req[q] \/ req'[q].at \notin {"create", "enqueue", "fileBlob"}
    BY <1>18 DEF LinkFile, Goto, End, TypedReqs, Reqs
  <2>2. CASE UNCHANGED files
    BY <2>1, <2>2, FilesKept
  <2>3. CASE /\ Adoptable(f) /\ ~InKB(f, req[r].found) /\ Exists(req[r].found)
             /\ files' = [files EXCEPT ![f].link = req[r].found, ![f].path = req[r].found]
    <3>. DEFINE new == files'[f]
    <3>1. /\ new.path = row.id /\ new.link = row.id /\ row # NoRow /\ files[f] # Gone
          /\ \A g \in AllFiles \ {f} : files'[g] = files[g]
      BY <2>3 DEF Exists, Adoptable, TypedFiles
    <3>2. new # Gone
      BY <3>1
    <3>3. \A g \in AllFiles : files[g].link = row.id /\ KBOf[g] = KBOf[f] => g = f
      BY <2>3, <3>1 DEF Exists, InKB, Linked
    <3>4. new.path # f
      BY <3>1
    <3>. HIDE DEF new
    <3>5. files'[f] = new
      BY DEF new
    <3>6. \A g \in AllFiles :
           \/ files'[g] = Gone
           \/ g \in Legacy /\ files'[g].path = g /\ files'[g].link = 0
           \/ files'[g].path = row.id /\ files'[g].link = row.id /\ row # NoRow
      BY <3>1, <3>5 DEF FilesInv
    <3>7. \A g, h \in AllFiles :
            files'[g].link # 0 /\ files'[g].link = files'[h].link /\ KBOf[g] = KBOf[h] => g = h
      BY <3>1, <3>3, <3>5 DEF FilesInv
    <3>8. \A g \in Legacy \ doomed : files'[g].path = g => g \in blobs
      BY <3>1, <3>4, <3>5 DEF FilesInv, AllFiles
    <3>9. ASSUME NEW q \in Requests
          PROVE  /\ req'[q].at \in {"create", "enqueue"} => req'[q].set \subseteq Copies
                 /\ req'[q].at = "fileBlob" /\ req'[q].found = 0 =>
                       \A g \in req'[q].set : g \in Legacy /\ (g \in doomed \/ files'[g] = Gone)
      BY <2>1, <3>1 DEF FilesInv, AllFiles
    <3>. QED BY <2>1, <3>6, <3>7, <3>8, <3>9 DEF FilesInv
  <2>. QED BY <1>18, <2>2, <2>3 DEF LinkFile
<1>19. ASSUME NEW r \in Requests, NEW f \in AllFiles, DeleteOldBlob(r, f) PROVE FilesInv'
  <2>1. UNCHANGED <<files, row, doomed>>
    BY <1>19 DEF DeleteOldBlob
  <2>2. \A q \in Requests : req'[q] = req[q] \/ req'[q].at = "idle"
    BY <1>19 DEF DeleteOldBlob, End, TypedReqs, Reqs
  <2>3. \A g \in Legacy \ doomed : files[g].path = g => (g \in blobs => g \in blobs')
    BY <1>19 DEF DeleteOldBlob, Deletes, AllFiles
  <2>. QED BY <2>1, <2>2, <2>3, FilesKept
<1>20. ASSUME (\E c \in Chats : Send(c)) \/ \E p \in Ids : AgeBlob(p) PROVE FilesInv'
  BY <1>20, FilesKept DEF Send, AgeBlob
<1>21. ASSUME NEW f \in AllFiles, Retry(f) PROVE FilesInv'
  <2>1. /\ UNCHANGED <<row, blobs, doomed, req>> /\ files[f] # Gone
        /\ files'[f].path = files[f].path /\ files'[f].link = files[f].link
        /\ \A g \in AllFiles \ {f} : files'[g] = files[g]
    BY <1>21 DEF Retry, TypedFiles
  <2>2. \A g \in Legacy : g \in AllFiles
    BY DEF AllFiles
  <2>3. \A g \in AllFiles : /\ files'[g].path = files[g].path /\ files'[g].link = files[g].link
                           /\ files[g] = Gone => files'[g] = Gone
    BY <2>1
  <2>. QED BY <2>1, <2>2, <2>3 DEF FilesInv
<1>22. CASE AgeRow
  <2>1. UNCHANGED <<files, req, blobs, doomed>> /\ row'.id = row.id /\ row # NoRow /\ row.id # 0
    BY <1>22 DEF AgeRow, Typed
  <2>. QED BY <2>1, FilesKept
<1>23. CASE SweepPending \/ \E p \in Ids : SweepCheck(p)
  BY <1>23, FilesKept DEF SweepPending, SweepCheck
<1>24. CASE SweepAttachment
  <2>1. UNCHANGED <<files, req, blobs, doomed>>
    BY <1>24 DEF SweepAttachment
  <2>2. UNCHANGED row \/ (row # NoRow /\ Linked(row.id) = {})
    BY <1>24 DEF SweepAttachment, DropRow, DeletableChatFile, Unreferenced, Exists
  <2>3. CASE UNCHANGED row
    BY <2>1, <2>3, FilesKept
  <2>4. CASE row # NoRow /\ Linked(row.id) = {}
    <3>1. \A f \in AllFiles : files[f] = Gone \/ (f \in Legacy /\ files[f].path = f /\ files[f].link = 0)
      BY <2>4 DEF FilesInv, Linked
    <3>. QED BY <2>1, <3>1 DEF FilesInv
  <2>. QED BY <2>2, <2>3, <2>4
<1>25. CASE SweepDelete
  <2>1. UNCHANGED <<files, req, row, doomed>> /\ blobs \ blobs' \subseteq {sweep.found}
    BY <1>25 DEF SweepDelete, Deletes
  <2>2. \A f \in Legacy : f # sweep.found
    BY DEF AllFiles
  <2>. QED BY <2>1, <2>2, FilesKept
<1>. QED BY <1>1, <1>2, <1>3, <1>4, <1>5, <1>6, <1>7, <1>8, <1>9, <1>10, <1>11, <1>12, <1>13, <1>14, <1>15,
            <1>16, <1>17, <1>18, <1>19, <1>20, <1>21, <1>22, <1>23, <1>24, <1>25
         DEF Next, Begin, Continue, Sweep, Scopes

LEMMA NextBlobs == BlobsInv /\ [Next]_vars => BlobsInv'
<1>1. CASE Next
  BY <1>1, TypedStep, TypedFilesStep, TypedReqsStep, IdsStep, RowStep, FilesStep DEF BlobsInv
<1>2. CASE UNCHANGED vars
  <2>1. ASSUME BlobsInv, UNCHANGED <<row, files, attached, blobs, old, req, sweep, nextId, faults,
                                     promised, withdrawn, doomed>>
        PROVE  BlobsInv'
    BY <2>1 DEF BlobsInv, Typed, TypedFiles, TypedReqs, IdsInv, RowInv, RowHasBlob, FilesInv, Exists
  <2>. QED BY <1>2, <2>1 DEF vars, rows, history
<1>. QED BY <1>1, <1>2

\* BlobsInv says so: a file that is there has its own blob, which only its own
\* delete and its adoption take away, or the row's.
LEMMA BlobsFollow == BlobsInv => TypeOK /\ BlobsAreThere
<1>. SUFFICES ASSUME BlobsInv PROVE TypeOK /\ BlobsAreThere
  OBVIOUS
<1>. USE Ranges
<1>1. RowHasBlob
  BY DEF BlobsInv, RowInv
<1>2. ASSUME NEW f \in Files \ doomed, files[f] # Gone PROVE files[f].path \in blobs
  BY <1>1, <1>2 DEF BlobsInv, FilesInv, RowHasBlob
<1>3. ASSUME NEW f \in Files, files[f] # Gone PROVE files[f].link = 0 \/ Exists(files[f].link)
  BY <1>3 DEF BlobsInv, FilesInv, Exists
<1>4. row = NoRow \/ (row.id \in Ids /\ row.scope \in {"library", "chat"})
  BY DEF Scopes
<1>. QED BY <1>1, <1>2, <1>3, <1>4 DEF BlobsInv, Typed, FilesInv, TypeOK, BlobsAreThere, FileHasBlob

LEMMA SpecBlobs == Spec => []BlobsInv
  BY InitBlobs, NextBlobs, PTL DEF Spec

\* Whatever is uploaded, attached, added, adopted, refused, swept, deleted or cut
\* short, in any order: the blob of the library row is there, and the one of
\* every KB file whose delete nobody asked for.
THEOREM BlobsStay == Spec => [](TypeOK /\ BlobsAreThere)
  BY SpecBlobs, BlobsFollow, PTL

-----------------------------------------------------------------------------
(* Without the adoption of legacy files.                                   *)

\* What a request is at that does not adopt.
NoAdoption == \A r \in Requests : req[r].op # "adopt" /\ req[r].at \notin {"bySHA", "promote", "rollback"}

LEMMA InitNoAdoption == Init => NoAdoption
  BY DEF Init, Idle, NoAdoption

LEMMA NextNoAdoption ==
    ASSUME BlobsInv, NoAdoption, "adopt" \notin Ops, [Next]_vars
    PROVE  NoAdoption'
<1>. USE Plain, Ranges DEF BlobsInv, NoAdoption, TypedReqs, Reqs, Goto, End, At
<1>0. Idle.op = "none"
  BY DEF Idle
<1>1. ASSUME NEW r \in Requests, NEW s \in Scopes, Upload(r, s) PROVE NoAdoption'
  BY <1>1 DEF Upload, StoreBlob
<1>2. ASSUME NEW r \in Requests, Insert(r) \/ Find(r) \/ Touch(r) \/ Reread(r) PROVE NoAdoption'
  <2>1. \/ \E at \in Steps \ {"bySHA", "promote", "rollback"} : Goto(r, at)
        \/ Vanished(r)
        \/ req' = [req EXCEPT ![r].at = "stored", ![r].found = req[r].id, ![r].new = TRUE]
        \/ req' = [req EXCEPT ![r].at = "touch", ![r].found = row.id, ![r].was = row.scope]
    BY <1>2, AllSteps DEF Insert, Find, Touch, Reread
  <2>2. CASE Vanished(r)
    BY <2>2 DEF Vanished
  <2>. QED BY <2>1, <2>2
<1>3. ASSUME NEW r \in Requests,
             \/ DropOwnBlob(r) \/ Acknowledge(r) \/ Refuse(r) \/ CutShort(r) \/ DeleteAttachment(r)
             \/ DeleteObjects(r) \/ DeleteCopies(r) \/ DeleteUserFileRow(r)
      PROVE  NoAdoption'
  <2>1. End(r) \/ \E at \in {"stored", "attachment", "objects", "row"} : Goto(r, at)
    BY <1>3 DEF DropOwnBlob, Acknowledge, Refuse, CutShort, DeleteAttachment, DeleteObjects, DeleteCopies,
                DeleteUserFileRow
  <2>. QED BY <1>0, <2>1
<1>4. ASSUME NEW r \in Requests, NEW c \in Chats, DeleteChat(r, c) PROVE NoAdoption'
  BY <1>4 DEF DeleteChat
<1>5. ASSUME NEW r \in Requests, DeleteUserFile(r) PROVE NoAdoption'
  BY <1>5 DEF DeleteUserFile
<1>6. ASSUME NEW r \in Requests, NEW f \in AllFiles, AddToKB(r, f) \/ DeleteFile(r, f) PROVE NoAdoption'
  BY <1>6 DEF AddToKB, DeleteFile
<1>7. ASSUME NEW r \in Requests, NEW f \in AllFiles,
             \/ CreateFile(r, f) \/ Enqueue(r, f) \/ DeleteFileBlob(r, f) \/ DeleteFileRow(r, f)
             \/ DeleteOldBlob(r, f)
      PROVE  NoAdoption'
  <2>1. End(r) \/ \E at \in {"enqueue", "fileRow"} : Goto(r, at)
    BY <1>7 DEF CreateFile, Enqueue, DeleteFileBlob, DeleteFileRow, DeleteOldBlob
  <2>. QED BY <1>0, <2>1
<1>8. ASSUME NEW r \in Requests, NEW f \in AllFiles,
             Adopt(r, f) \/ FindBySHA(r, f) \/ LinkFile(r, f) \/ Promote(r) \/ Rollback(r)
      PROVE  FALSE
  BY <1>8 DEF Adopt, FindBySHA, LinkFile, Promote, Rollback
<1>9. ASSUME \/ \E c \in Chats : Send(c)
             \/ \E f \in Files : Retry(f)
             \/ \E p \in Ids : AgeBlob(p)
             \/ AgeRow \/ Sweep \/ UNCHANGED vars
      PROVE  NoAdoption'
  BY <1>9 DEF Send, Retry, AgeBlob, AgeRow, Sweep, SweepPending, SweepAttachment, SweepDelete, SweepCheck, vars
<1>10. ASSUME NEW r \in Requests, Promote(r) \/ Rollback(r) PROVE FALSE
  BY <1>10 DEF Promote, Rollback
<1>. QED BY <1>1, <1>2, <1>3, <1>4, <1>5, <1>6, <1>7, <1>8, <1>9, <1>10 DEF Next, Begin, Continue, Scopes

\* The transactions that drop a row check that nothing refers to it, all but the
\* owner's delete and an adoption that is rolled back.
LEMMA AttachedStep ==
    ASSUME BlobsInv, NoAdoption, "adopt" \notin Ops, Next, NEW a \in attached, a \notin attached'
    PROVE  \E r \in Requests : DeleteChat(r, a[1]) \/ DeleteUserFileRow(r)
<1>. USE Ranges DEF rows, history
<1>1. ASSUME NEW r \in Requests, NEW c \in Chats, DeleteChat(r, c) PROVE c = a[1]
  BY <1>1 DEF DeleteChat
<1>2. ASSUME NEW r \in Requests, DeleteAttachment(r) \/ Rollback(r) PROVE FALSE
  BY <1>2 DEF DeleteAttachment, Rollback, DropRow, DeletableChatFile, Unreferenced, Exists, NoAdoption, At
<1>3. CASE SweepAttachment
  BY <1>3 DEF SweepAttachment, DropRow, DeletableChatFile, Unreferenced, Exists
<1>4. ASSUME NEW r \in Requests,
             \/ \E s \in Scopes : Upload(r, s)
             \/ \E f \in AllFiles : AddToKB(r, f) \/ DeleteFile(r, f) \/ Adopt(r, f)
             \/ DeleteUserFile(r) \/ Refuse(r) \/ CutShort(r)
      PROVE  FALSE
  BY <1>4 DEF Upload, AddToKB, DeleteFile, Adopt, DeleteUserFile, Refuse, CutShort
<1>5. ASSUME NEW r \in Requests,
             \/ Insert(r) \/ Find(r) \/ Touch(r) \/ Reread(r) \/ DropOwnBlob(r) \/ Acknowledge(r)
             \/ DeleteObjects(r) \/ DeleteCopies(r) \/ Promote(r)
      PROVE  FALSE
  BY <1>5 DEF Insert, Find, Touch, Reread, DropOwnBlob, Acknowledge, DeleteObjects, DeleteCopies, Promote
<1>6. ASSUME NEW r \in Requests, NEW f \in AllFiles,
             \/ CreateFile(r, f) \/ Enqueue(r, f) \/ DeleteFileBlob(r, f) \/ DeleteFileRow(r, f)
             \/ FindBySHA(r, f) \/ LinkFile(r, f) \/ DeleteOldBlob(r, f)
      PROVE  FALSE
  BY <1>6 DEF CreateFile, Enqueue, DeleteFileBlob, DeleteFileRow, FindBySHA, LinkFile, DeleteOldBlob
<1>7. ASSUME \/ \E c \in Chats : Send(c)
             \/ \E f \in Files : Retry(f)
             \/ \E p \in Ids : AgeBlob(p) \/ SweepCheck(p)
             \/ AgeRow \/ SweepPending \/ SweepDelete
      PROVE  FALSE
  BY <1>7 DEF Send, Retry, AgeBlob, SweepCheck, AgeRow, SweepPending, SweepDelete
<1>. QED BY <1>1, <1>2, <1>3, <1>4, <1>5, <1>6, <1>7 DEF Next, Begin, Continue, Sweep, Scopes

\* While no legacy file is adopted, what was sent with a message stays with it
\* until its chat or its library file is deleted: no cleanup, refusal or duplicate
\* upload takes it away by the way.
THEOREM SentFilesStay == ASSUME "adopt" \notin Ops PROVE Spec => SentStays
<1>1. ASSUME BlobsInv, NoAdoption, [Next]_vars
      PROVE  [\A a \in attached \ attached' :
                \E r \in Requests : DeleteChat(r, a[1]) \/ DeleteUserFileRow(r)]_vars
  BY <1>1, AttachedStep
<1>2. Spec => []NoAdoption
  <2>1. BlobsInv /\ NoAdoption /\ [Next]_vars => NoAdoption'
    BY NextNoAdoption
  <2>. QED BY <2>1, InitNoAdoption, SpecBlobs, PTL DEF Spec
<1>. QED BY <1>1, <1>2, SpecBlobs, PTL DEF Spec, SentStays

-----------------------------------------------------------------------------
(* Where chats are not deleted and no attachment is refused either.         *)

KeptRow ==
    /\ promised \ withdrawn \subseteq {row.id} /\ 0 \notin promised
    /\ row.scope = "chat" /\ ~row.fresh => row.id \notin promised

\* An upload that found a row has promoted it or restarted its grace, and while
\* a request looks at a row its grace does not end.
KeptReq(r) ==
    /\ req[r].at # "attachment"
    /\ req[r].at \in {"copies", "row"} => req[r].found \in withdrawn
    /\ req[r].at = "touch" /\ req[r].was = "library" /\ Exists(req[r].found) => row.scope = "library"
    /\ req[r].at \in {"get", "drop", "stored"} /\ Exists(req[r].found) => row.scope = "library" \/ row.fresh
    /\ req[r].at = "stored" \/ (req[r].at = "drop" /\ req[r].found # 0) =>
         Exists(req[r].found) \/ req[r].found \in withdrawn

KeptInv == KeptRow /\ \A r \in Requests : KeptReq(r)

LEMMA InitKept == Init => KeptInv
  BY DEF Init, Idle, NoRow, KeptInv, KeptRow, KeptReq

\* A request at rest promises nothing.
LEMMA KeptAside ==
    ASSUME NEW r \in Requests,
           req'[r].at \notin {"attachment", "copies", "row", "touch", "get", "drop", "stored"}
    PROVE  KeptReq(r)'
  BY DEF KeptReq

\* A row that stays, or is promoted, or whose grace starts again, is kept for
\* the requests that have it.
LEMMA KeptOther ==
    ASSUME BlobsInv, NEW r \in Requests, KeptReq(r), req'[r] = req[r],
           row'.id = row.id, row = NoRow <=> row' = NoRow,
           row.scope = "library" => row'.scope = "library",
           row.fresh => row'.fresh \/ row.id # req[r].found,
           withdrawn \subseteq withdrawn'
    PROVE  KeptReq(r)'
  BY DEF KeptReq, Exists

LEMMA NextKept ==
    ASSUME BlobsInv, NoAdoption, KeptInv, Ops \cap {"adopt", "refuse", "deleteChat"} = {}, [Next]_vars
    PROVE  KeptInv'
<1>. USE Plain, Ranges DEF KeptInv, rows, history
<1>0. TypedReqs /\ Typed
  BY DEF BlobsInv
<1>1. ASSUME NEW r \in Requests, NEW s \in Scopes, Upload(r, s) PROVE KeptInv'
  <2>1. /\ UNCHANGED <<row, promised, withdrawn>> /\ req'[r].at = "insert"
        /\ \A q \in Requests \ {r} : req'[q] = req[q]
    BY <1>0, <1>1 DEF Upload, StoreBlob, TypedReqs, Reqs
  <2>. QED BY <2>1, KeptAside, KeptOther DEF KeptRow
<1>2. ASSUME NEW r \in Requests, Insert(r), row = NoRow PROVE KeptInv'
  <2>1. /\ UNCHANGED <<promised, withdrawn>>
        /\ row' = [id |-> req[r].id, scope |-> req[r].scope, fresh |-> TRUE]
        /\ req' = [req EXCEPT ![r].at = "stored", ![r].found = req[r].id, ![r].new = TRUE]
    BY <1>2 DEF Insert
  <2>2. row'.id = req[r].id /\ row'.fresh /\ row'.id # 0
    BY <1>2, <2>1 DEF Insert, At, BlobsInv, IdsInv, Storing
  <2>3. req'[r].at = "stored" /\ req'[r].found = row'.id /\ \A q \in Requests \ {r} : req'[q] = req[q]
    BY <1>0, <2>1, <2>2 DEF TypedReqs, Reqs
  <2>4. \A q \in Requests : req[q].found # row'.id
    BY <1>2, <2>2 DEF Insert, At, BlobsInv, IdsInv, Storing
  <2>5. KeptRow'
    BY <1>2, <2>1, <2>2 DEF KeptRow
  <2>6. KeptReq(r)'
    BY <2>2, <2>3 DEF KeptReq, Exists
  <2>7. ASSUME NEW q \in Requests \ {r} PROVE KeptReq(q)'
    <3>1. req'[q] = req[q] /\ req[q].found # row'.id /\ KeptReq(q)
      BY <2>3, <2>4
    <3>2. ~Exists(req[q].found) /\ ~Exists(req[q].found)'
      BY <1>2, <3>1 DEF Exists
    <3>. QED BY <2>1, <3>1, <3>2 DEF KeptReq
  <2>. QED BY <2>5, <2>6, <2>7
<1>3. ASSUME NEW r \in Requests, Find(r) \/ Reread(r) \/ (Insert(r) /\ row # NoRow) PROVE KeptInv'
  <2>1. UNCHANGED <<row, promised, withdrawn>>
    BY <1>3 DEF Find, Reread, Insert
  <2>2. \A q \in Requests \ {r} : req'[q] = req[q]
    BY <1>0, <1>3 DEF Find, Reread, Insert, Vanished, Goto, TypedReqs, Reqs
  <2>3. \/ req'[r].at \in {"insert", "find"}
        \/ req'[r].at = "drop" /\ req'[r].found = 0
        \/ req'[r].at = "touch" /\ req'[r].found = row.id /\ req'[r].was = row.scope
        \/ req[r].at = "get" /\ req'[r].at = "drop" /\ req'[r].found = req[r].found /\ Exists(req[r].found)
    BY <1>0, <1>3 DEF Find, Reread, Insert, Vanished, Goto, At, TypedReqs, Reqs
  <2>4. KeptReq(r)'
    BY <2>1, <2>3 DEF KeptReq, Exists
  <2>. QED BY <2>1, <2>2, <2>4, KeptOther DEF KeptRow
<1>4. ASSUME NEW r \in Requests, Touch(r) PROVE KeptInv'
  <2>1. /\ UNCHANGED <<promised, withdrawn>> /\ row'.id = row.id /\ (row = NoRow <=> row' = NoRow)
        /\ row.scope = "library" => row'.scope = "library"
        /\ row.fresh => row'.fresh
        /\ row'.scope = "chat" => row.scope = "chat"
    <3>1. row' = row \/ (row # NoRow /\ row' \in {[row EXCEPT !.scope = "library"], [row EXCEPT !.fresh = TRUE]})
      BY <1>4 DEF Touch, Exists
    <3>2. row # NoRow => row.id # 0
      BY <1>0 DEF Ids
    <3>3. UNCHANGED <<promised, withdrawn>>
      BY <1>4 DEF Touch
    <3>4. CASE row' = row
      BY <3>3, <3>4
    <3>5. CASE row # NoRow /\ row' = [row EXCEPT !.scope = "library"]
      BY <1>0, <3>2, <3>3, <3>5 DEF Typed
    <3>6. CASE row # NoRow /\ row' = [row EXCEPT !.fresh = TRUE]
      BY <1>0, <3>2, <3>3, <3>6 DEF Typed
    <3>. QED BY <3>1, <3>4, <3>5, <3>6
  <2>2. CASE Vanished(r)
    <3>1. /\ \A q \in Requests \ {r} : req'[q] = req[q]
          /\ req'[r].at = "insert" \/ (req'[r].at = "drop" /\ req'[r].found = 0)
      BY <1>0, <2>2 DEF Vanished, TypedReqs, Reqs
    <3>2. KeptReq(r)'
      BY <2>1, <3>1 DEF KeptReq, Exists
    <3>. QED BY <2>1, <3>1, <3>2, KeptOther DEF KeptRow
  <2>3. CASE Goto(r, "get")
    <3>1. /\ \A q \in Requests \ {r} : req'[q] = req[q]
          /\ req'[r].at = "get" /\ req'[r].found = req[r].found
      BY <1>0, <2>3 DEF Goto, TypedReqs, Reqs
    <3>2. Exists(req[r].found) => row'.scope = "library" \/ row'.fresh
      <4>1. CASE req[r].was = "library" /\ UNCHANGED row
        BY <1>4, <4>1 DEF Touch, At, KeptReq
      <4>2. CASE req[r].was = "chat"
        <5>1. req'[r].at # "insert" /\ req'[r].at # "drop"
          BY <3>1
        <5>2. ~Vanished(r)
          BY <1>0, <5>1 DEF Vanished, TypedReqs, Reqs
        <5>3. row' \in {[row EXCEPT !.scope = "library"], [row EXCEPT !.fresh = TRUE]}
          BY <1>4, <4>2, <5>2 DEF Touch
        <5>. QED BY <1>0, <5>3 DEF Typed
      <4>. QED BY <1>4, <4>1, <4>2 DEF Touch
    <3>3. KeptReq(r)'
      BY <2>1, <3>1, <3>2 DEF KeptReq, Exists
    <3>. QED BY <2>1, <3>1, <3>3, KeptOther DEF KeptRow
  <2>. QED BY <1>4, <2>2, <2>3 DEF Touch
<1>5. ASSUME NEW r \in Requests, DropOwnBlob(r) PROVE KeptInv'
  <2>1. /\ UNCHANGED <<row, promised, withdrawn>> /\ \A q \in Requests \ {r} : req'[q] = req[q]
        /\ \/ req'[r].at = "idle"
           \/ req'[r].at = "stored" /\ req[r].at = "drop" /\ req'[r].found = req[r].found /\ req[r].found # 0
    BY <1>0, <1>5 DEF DropOwnBlob, Goto, End, At, TypedReqs, Reqs
  <2>2. KeptReq(r)'
    BY <2>1 DEF KeptReq, Exists
  <2>. QED BY <2>1, <2>2, KeptOther DEF KeptRow
<1>6. ASSUME NEW r \in Requests, Acknowledge(r) PROVE KeptInv'
  <2>1. /\ UNCHANGED <<row, withdrawn>> /\ promised' = promised \cup {req[r].found}
        /\ req'[r].at = "idle" /\ \A q \in Requests \ {r} : req'[q] = req[q]
    BY <1>0, <1>6 DEF Acknowledge, End, TypedReqs, Reqs
  <2>2. /\ Exists(req[r].found) \/ req[r].found \in withdrawn
        /\ Exists(req[r].found) => row.scope = "library" \/ row.fresh
    BY <1>6 DEF Acknowledge, At, KeptReq
  <2>3. req[r].found # 0
    BY <1>0, <2>2 DEF Exists, Typed
  <2>4. KeptRow'
    <3>1. CASE Exists(req[r].found)
      BY <2>1, <2>2, <2>3, <3>1 DEF KeptRow, Exists
    <3>2. CASE ~Exists(req[r].found)
      <4>1. row.scope = "chat" => req[r].found # row.id
        BY <3>2 DEF Exists, NoRow
      <4>. QED BY <2>1, <2>2, <2>3, <3>2, <4>1 DEF KeptRow
    <3>. QED BY <3>1, <3>2
  <2>. QED BY <2>1, <2>4, KeptAside, KeptOther
<1>7. ASSUME NEW r \in Requests,
             \/ CutShort(r) \/ DeleteObjects(r)
             \/ \E f \in AllFiles : \/ AddToKB(r, f) \/ CreateFile(r, f) \/ Enqueue(r, f) \/ DeleteFile(r, f)
                                    \/ DeleteFileBlob(r, f) \/ DeleteFileRow(r, f) \/ DeleteOldBlob(r, f)
      PROVE  KeptInv'
  <2>1. UNCHANGED <<row, promised, withdrawn>>
    BY <1>7 DEF CutShort, DeleteObjects, AddToKB, CreateFile, Enqueue, DeleteFile, DeleteFileBlob, DeleteFileRow,
                DeleteOldBlob
  <2>2. \/ End(r) \/ Goto(r, "enqueue") \/ Goto(r, "fileRow")
        \/ \E at \in {"create", "fileBlob"}, found \in Zero, f \in AllFiles :
              req' = [req EXCEPT ![r].at = at, ![r].found = found, ![r].set = {f}]
    BY <1>7 DEF CutShort, DeleteObjects, AddToKB, CreateFile, Enqueue, DeleteFile, DeleteFileBlob, DeleteFileRow,
                DeleteOldBlob
  <2>3. /\ req'[r].at \in {"idle", "enqueue", "fileRow", "create", "fileBlob"}
        /\ \A q \in Requests \ {r} : req'[q] = req[q]
    <3>1. CASE End(r) \/ Goto(r, "enqueue") \/ Goto(r, "fileRow")
      BY <1>0, <3>1 DEF End, Goto, TypedReqs, Reqs
    <3>2. ASSUME NEW at \in {"create", "fileBlob"}, NEW found \in Zero, NEW f \in AllFiles,
                 req' = [req EXCEPT ![r].at = at, ![r].found = found, ![r].set = {f}]
          PROVE  req'[r].at = at /\ \A q \in Requests \ {r} : req'[q] = req[q]
      BY <1>0, <3>2 DEF TypedReqs, Reqs
    <3>. QED BY <2>2, <3>1, <3>2
  <2>. QED BY <2>1, <2>3, KeptAside, KeptOther DEF KeptRow
<1>8. ASSUME NEW r \in Requests, DeleteUserFile(r) \/ DeleteCopies(r) PROVE KeptInv'
  <2>1. UNCHANGED <<row, promised>> /\ withdrawn \subseteq withdrawn'
    BY <1>8 DEF DeleteUserFile, DeleteCopies
  <2>2. /\ \A q \in Requests \ {r} : req'[q] = req[q]
        /\ req'[r].at \in {"copies", "row"} /\ req'[r].found \in withdrawn'
    BY <1>0, <1>8 DEF DeleteUserFile, DeleteCopies, Goto, At, TypedReqs, Reqs, KeptReq
  <2>3. KeptReq(r)'
    BY <2>2 DEF KeptReq
  <2>. QED BY <2>1, <2>2, <2>3, KeptOther DEF KeptRow
<1>9. ASSUME NEW r \in Requests, DeleteUserFileRow(r) PROVE KeptInv'
  <2>1. /\ UNCHANGED <<promised, withdrawn>> /\ req[r].found \in withdrawn
        /\ row' = row \/ (row' = NoRow /\ row.id \in withdrawn)
    BY <1>9 DEF DeleteUserFileRow, DropRow, Exists, At, KeptReq
  <2>2. req'[r].at \in {"idle", "objects"} /\ \A q \in Requests \ {r} : req'[q] = req[q]
    <3>1. End(r) \/ Goto(r, "objects")
      BY <1>9 DEF DeleteUserFileRow
    <3>. QED BY <1>0, <3>1 DEF End, Goto, TypedReqs, Reqs
  <2>3. CASE row' = row
    BY <2>1, <2>2, <2>3, KeptAside, KeptOther DEF KeptRow
  <2>4. CASE row' = NoRow /\ row.id \in withdrawn
    <3>1. NoRow.scope = "library"
      BY DEF NoRow
    <3>2. KeptRow'
      BY <2>1, <2>4, <3>1 DEF KeptRow
    <3>3. ASSUME NEW q \in Requests \ {r} PROVE KeptReq(q)'
      BY <2>1, <2>2, <2>4 DEF KeptReq, Exists
    <3>. QED BY <2>2, <3>2, <3>3, KeptAside
  <2>. QED BY <2>1, <2>3, <2>4
<1>10. ASSUME NEW r \in Requests,
              \/ \E c \in Chats : DeleteChat(r, c)
              \/ Refuse(r) \/ DeleteAttachment(r) \/ Promote(r) \/ Rollback(r)
              \/ \E f \in AllFiles : Adopt(r, f) \/ FindBySHA(r, f) \/ LinkFile(r, f)
       PROVE  FALSE
  BY <1>10 DEF DeleteChat, Refuse, DeleteAttachment, Promote, Rollback, Adopt, FindBySHA, LinkFile, At, NoAdoption,
               KeptReq
<1>11. ASSUME NEW c \in Chats, Send(c) PROVE KeptInv'
  <2>1. UNCHANGED <<row, req, withdrawn>> /\ promised' \subseteq promised
    BY <1>11 DEF Send
  <2>. QED BY <2>1, KeptOther DEF KeptRow
<1>12. ASSUME \/ \E f \in AllFiles : Retry(f)
              \/ \E p \in Ids : AgeBlob(p) \/ SweepCheck(p)
              \/ SweepPending \/ SweepDelete \/ UNCHANGED vars
       PROVE  KeptInv'
  <2>1. UNCHANGED <<row, req, withdrawn, promised>>
    BY <1>12 DEF Retry, AgeBlob, SweepCheck, SweepPending, SweepDelete, vars
  <2>. QED BY <2>1, KeptOther DEF KeptRow
<1>13. CASE AgeRow
  <2>1. /\ row # NoRow /\ row' = [row EXCEPT !.fresh = FALSE] /\ UNCHANGED <<req, withdrawn>>
        /\ \A r \in Requests : req[r].found # row.id
        /\ promised' = IF row.scope = "chat" THEN promised \ {row.id} ELSE promised
    BY <1>13 DEF AgeRow
  <2>2. row'.id = row.id /\ row'.scope = row.scope /\ row.id # 0
    BY <1>0, <2>1 DEF Typed
  <2>3. row' # NoRow
    BY <2>2
  <2>. QED BY <2>1, <2>2, <2>3, KeptOther DEF KeptRow
<1>14. CASE SweepAttachment
  <2>1. CASE UNCHANGED row
    <3>1. UNCHANGED <<row, req, withdrawn, promised>>
      BY <1>14, <2>1 DEF SweepAttachment
    <3>. QED BY <3>1, KeptOther DEF KeptRow
  <2>2. CASE DeletableChatFile(sweep.found, TRUE) /\ row' = NoRow
    <3>1. row.scope = "chat" /\ ~row.fresh /\ UNCHANGED <<req, withdrawn, promised>>
      BY <1>14, <2>2 DEF SweepAttachment, DeletableChatFile
    <3>2. row.id \notin promised
      BY <3>1 DEF KeptRow
    <3>3. NoRow.scope = "library"
      BY DEF NoRow
    <3>4. KeptRow'
      BY <2>2, <3>1, <3>2, <3>3 DEF KeptRow
    <3>5. ASSUME NEW q \in Requests PROVE KeptReq(q)'
      BY <2>2, <3>1 DEF KeptReq, Exists
    <3>. QED BY <3>4, <3>5
  <2>. QED BY <1>14, <2>1, <2>2 DEF SweepAttachment, DropRow
<1>. QED BY <1>1, <1>2, <1>3, <1>4, <1>5, <1>6, <1>7, <1>8, <1>9, <1>10, <1>11, <1>12, <1>13, <1>14
         DEF Next, Begin, Continue, Sweep, Scopes

\* While chats are not deleted, no attachment is refused and nothing is adopted:
\* an acknowledged upload is kept until its grace is over or it is sent with a
\* message, and one to the library until its owner deletes it.  A duplicate
\* upload counts as one, and the sweep never takes a row in between.
THEOREM UploadsAreKept ==
    ASSUME Ops \cap {"adopt", "refuse", "deleteChat"} = {}
    PROVE  Spec => []UploadIsKept
<1>1. BlobsInv /\ NoAdoption /\ KeptInv /\ [Next]_vars => NoAdoption' /\ KeptInv'
  BY NextNoAdoption, NextKept
<1>2. KeptInv => UploadIsKept
  BY DEF KeptInv, KeptRow, UploadIsKept
<1>. QED BY <1>1, <1>2, InitNoAdoption, InitKept, SpecBlobs, PTL DEF Spec
=============================================================================
