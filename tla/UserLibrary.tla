---------------------------- MODULE UserLibrary ----------------------------
(***************************************************************************)
(* One user's file library (internal/userfiles) for uploads of the same    *)
(* bytes: the row that (owner, sha256) allows once, the blobs, the KB      *)
(* files that share them, the chat messages they are attached to, the      *)
(* adoption of KB uploads from before the library, and the orphan sweep.   *)
(* Rows of other bytes or owners take no part: every statement names an id *)
(* or an owner and a hash.                                                 *)
(***************************************************************************)
EXTENDS Integers, FiniteSets

CONSTANTS
    Legacy,     \* KB files from before the library, each with a blob of its own
    Copies,     \* KB files that may be created from the library
    KBOf,       \* their KBs
    Chats,
    Requests,   \* request handlers at work at the same time
    Ops,        \* what users do, see Begin
    MaxId,      \* bound: blobs written by uploads and adoptions
    MaxFaults   \* bound: requests cut short, deletes and enqueues that fail

ASSUME LibraryAssumption ==
    /\ Legacy \cap Copies = {}
    /\ DOMAIN KBOf = Legacy \cup Copies
    /\ DOMAIN KBOf \cap (0 .. MaxId) = {}
    /\ {MaxId, MaxFaults} \subseteq Nat

Ids == 1 .. MaxId
NoRow == [id |-> 0, scope |-> "library", fresh |-> FALSE]
Gone == [path |-> 0, link |-> 0, busy |-> FALSE]

VARIABLES
    row,        \* the user_files row of these bytes, or NoRow
    blobs,      \* paths at which an object is stored: ids and legacy files
    old,        \* those older than OrphanGrace
    files,      \* the files rows
    attached,   \* message_attachments: pairs of a chat and an id
    req,        \* what each request is at
    sweep,      \* what the orphan sweep is at
    nextId, faults,
    promised,   \* history: ids of uploads that were acknowledged and must stay
    withdrawn,  \* history: ids whose owner asked for the delete
    doomed      \* history: files whose delete was asked for

rows == <<row, files, attached>>
history == <<promised, withdrawn, doomed>>
vars == <<rows, blobs, old, req, sweep, nextId, faults, history>>

Idle == [at |-> "idle", op |-> "none", id |-> 0, found |-> 0, was |-> "library",
         scope |-> "library", new |-> FALSE, tries |-> 0, set |-> {}]

Init ==
    /\ row = NoRow /\ attached = {}
    /\ blobs = Legacy /\ old = Legacy
    /\ files = [f \in Legacy \cup Copies |->
                  IF f \in Legacy THEN [path |-> f, link |-> 0, busy |-> FALSE] ELSE Gone]
    /\ req = [r \in Requests |-> Idle]
    /\ sweep = Idle
    /\ nextId = 1 /\ faults = 0 /\ promised = {} /\ withdrawn = {} /\ doomed = {}

Files == DOMAIN files
Linked(id) == {f \in Files : files[f] # Gone /\ files[f].link = id}
Exists(id) == row # NoRow /\ row.id = id
Unreferenced(id) == Linked(id) = {} /\ \A a \in attached : a[2] # id

\* A row goes with its attachments (ON DELETE CASCADE) but not under a file
\* (ON DELETE RESTRICT).
DropRow ==
    /\ row' = NoRow
    /\ attached' = {a \in attached : a[2] # row.id}

Goto(r, at) == req' = [req EXCEPT ![r].at = at]
End(r) == req' = [req EXCEPT ![r] = Idle]
At(r, at) == req[r].at = at

-----------------------------------------------------------------------------
(* Insert: the blob is stored first; the row may be there already, and go  *)
(* or change while the request looks at it.                                *)

StoreBlob(r, next) ==
    /\ nextId <= MaxId /\ nextId' = nextId + 1
    /\ blobs' = blobs \cup {nextId}
    /\ req' = [req EXCEPT ![r] = [next EXCEPT !.at = "insert", !.id = nextId]]

Upload(r, scope) ==
    /\ At(r, "idle") /\ scope \in Ops
    /\ StoreBlob(r, [Idle EXCEPT !.op = "upload", !.scope = scope])
    /\ UNCHANGED <<rows, old, sweep, faults, history>>

Insert(r) ==
    /\ At(r, "insert")
    /\ IF row = NoRow
       THEN /\ row' = [id |-> req[r].id, scope |-> req[r].scope, fresh |-> TRUE]
            /\ req' = [req EXCEPT ![r].at = "stored", ![r].found = req[r].id, ![r].new = TRUE]
       ELSE Goto(r, "find") /\ UNCHANGED row
    /\ UNCHANGED <<files, attached, blobs, old, sweep, nextId, faults, history>>

\* errDedupRowVanished: once more, then give up.
Vanished(r) ==
    req' = IF req[r].tries = 0
           THEN [req EXCEPT ![r].at = "insert", ![r].tries = 1]
           ELSE [req EXCEPT ![r].at = "drop", ![r].found = 0]

Find(r) ==
    /\ At(r, "find")
    /\ IF row = NoRow THEN Vanished(r)
       ELSE req' = [req EXCEPT ![r].at = "touch", ![r].found = row.id, ![r].was = row.scope]
    /\ UNCHANGED <<rows, blobs, old, sweep, nextId, faults, history>>

\* Mutant of Touch: attaching the same bytes again does not restart the grace.
TouchPromoteOnly(r) ==
    /\ At(r, "touch")
    /\ IF req[r].scope = "library" /\ Exists(req[r].found)
       THEN row' = [row EXCEPT !.scope = "library"] ELSE UNCHANGED row
    /\ Goto(r, "get")
    /\ UNCHANGED <<files, attached, blobs, old, sweep, nextId, faults, history>>

\* A library upload promotes a chat attachment; a chat upload restarts its grace.
Touch(r) ==
    /\ At(r, "touch")
    /\ \/ /\ req[r].was = "library"
          /\ UNCHANGED row /\ Goto(r, "get")
       \/ /\ req[r].was = "chat" /\ req[r].scope = "library"
          /\ IF Exists(req[r].found)
             THEN row' = [row EXCEPT !.scope = "library"] /\ Goto(r, "get")
             ELSE UNCHANGED row /\ Vanished(r)
       \/ /\ req[r].was = "chat" /\ req[r].scope = "chat"
          /\ IF Exists(req[r].found) /\ row.scope = "chat"
             THEN row' = [row EXCEPT !.fresh = TRUE] /\ Goto(r, "get")
             ELSE UNCHANGED row /\ Vanished(r)
    /\ UNCHANGED <<files, attached, blobs, old, sweep, nextId, faults, history>>

Reread(r) ==
    /\ At(r, "get")
    /\ IF Exists(req[r].found) THEN Goto(r, "drop") ELSE Vanished(r)
    /\ UNCHANGED <<rows, blobs, old, sweep, nextId, faults, history>>

Deletes(paths) ==
    \/ blobs' = blobs \ paths /\ old' = old \ paths /\ UNCHANGED faults
    \/ faults < MaxFaults /\ faults' = faults + 1 /\ UNCHANGED <<blobs, old>>

\* Mutant of DropOwnBlob: the blob of the row that was found goes.
DropFoundBlob(r) ==
    /\ At(r, "drop")
    /\ Deletes({IF req[r].found = 0 THEN req[r].id ELSE req[r].found})
    /\ IF req[r].found = 0 THEN End(r) ELSE Goto(r, "stored")
    /\ UNCHANGED <<rows, sweep, nextId, history>>

\* The blob of a duplicate, or of a request that failed.
DropOwnBlob(r) ==
    /\ At(r, "drop")
    /\ Deletes({req[r].id})
    /\ IF req[r].found = 0 THEN End(r) ELSE Goto(r, "stored")
    /\ UNCHANGED <<rows, sweep, nextId, history>>

\* The answer to an upload.  One to a chat may still be refused: its text
\* cannot be read, or is too long for the model of the KB.
Acknowledge(r) ==
    /\ At(r, "stored") /\ req[r].op = "upload"
    /\ promised' = promised \cup {req[r].found}
    /\ End(r)
    /\ UNCHANGED <<rows, blobs, old, sweep, nextId, faults, withdrawn, doomed>>

Refuse(r) ==
    /\ At(r, "stored") /\ req[r].op = "upload" /\ req[r].scope = "chat" /\ "refuse" \in Ops
    /\ IF req[r].new THEN Goto(r, "attachment") ELSE End(r)
    /\ UNCHANGED <<rows, blobs, old, sweep, nextId, faults, history>>

-----------------------------------------------------------------------------
(* Chats.                                                                  *)

\* A message is sent with the attachment: from now on it lives with its chats.
Send(c) ==
    /\ "chat" \in Ops /\ row # NoRow /\ <<c, row.id>> \notin attached
    /\ row.scope = "library" \/ row.id \in promised \/ ~Unreferenced(row.id)
    /\ attached' = attached \cup {<<c, row.id>>}
    /\ promised' = IF row.scope = "chat" THEN promised \ {row.id} ELSE promised
    /\ UNCHANGED <<row, files, blobs, old, req, sweep, nextId, faults, withdrawn, doomed>>

DeleteChat(r, c) ==
    /\ At(r, "idle") /\ "deleteChat" \in Ops
    /\ \E id \in Ids : <<c, id>> \in attached
    /\ attached' = {a \in attached : a[1] # c}
    /\ IF <<c, row.id>> \in attached /\ row.scope = "chat"
       THEN req' = [req EXCEPT ![r].at = "attachment", ![r].found = row.id] ELSE UNCHANGED req
    /\ UNCHANGED <<row, files, blobs, old, sweep, nextId, faults, history>>

\* Mutant of DeletableChatFile: message links do not count.
DeletableThoughSent(id, staleOnly) ==
    /\ Exists(id) /\ row.scope = "chat" /\ (staleOnly => ~row.fresh)
    /\ Linked(id) = {}

\* The transaction of DeleteChatAttachment: the row lock keeps what is sent,
\* added or promoted in time and fails it afterwards.
DeletableChatFile(id, staleOnly) ==
    /\ Exists(id) /\ row.scope = "chat" /\ (staleOnly => ~row.fresh)
    /\ Unreferenced(id)

DeleteAttachment(r) ==
    /\ At(r, "attachment")
    /\ IF DeletableChatFile(req[r].found, FALSE)
       THEN DropRow /\ Goto(r, "objects")
       ELSE UNCHANGED <<row, attached>> /\ End(r)
    /\ UNCHANGED <<files, blobs, old, sweep, nextId, faults, history>>

\* deleteUserFileObjects, delBlob: best effort.
DeleteObjects(r) ==
    /\ At(r, "objects")
    /\ Deletes({req[r].found})
    /\ End(r)
    /\ UNCHANGED <<rows, sweep, nextId, history>>

-----------------------------------------------------------------------------
(* DELETE of a library file: its KB copies, its message links, its row.    *)

DeleteUserFile(r) ==
    /\ At(r, "idle") /\ "delete" \in Ops /\ row # NoRow
    /\ req' = [req EXCEPT ![r].at = "copies", ![r].found = row.id, ![r].set = Linked(row.id)]
    /\ withdrawn' = withdrawn \cup {row.id}
    /\ doomed' = doomed \cup Linked(row.id)
    /\ UNCHANGED <<rows, blobs, old, sweep, nextId, faults, promised>>

DeleteCopies(r) ==
    /\ At(r, "copies")
    /\ files' = [f \in Files |-> IF f \in req[r].set THEN Gone ELSE files[f]]
    /\ doomed' = doomed \ req[r].set
    /\ Goto(r, "row")
    /\ UNCHANGED <<row, attached, blobs, old, sweep, nextId, faults, promised, withdrawn>>

\* The message links go first; a file added meanwhile forbids the rest.
DeleteUserFileRow(r) ==
    /\ At(r, "row")
    /\ IF Exists(req[r].found) /\ Linked(req[r].found) = {}
       THEN DropRow /\ Goto(r, "objects")
       ELSE /\ attached' = {a \in attached : a[2] # req[r].found} /\ UNCHANGED row
            /\ IF Exists(req[r].found) THEN End(r) ELSE Goto(r, "objects")
    /\ UNCHANGED <<files, blobs, old, sweep, nextId, faults, history>>

-----------------------------------------------------------------------------
(* KB files.                                                               *)

InKB(f, id) == \E g \in Linked(id) : g # f /\ KBOf[g] = KBOf[f]

AddToKB(r, f) ==
    /\ At(r, "idle") /\ "add" \in Ops /\ f \in Copies /\ files[f] = Gone /\ f \notin doomed
    /\ row # NoRow /\ row.scope = "library" /\ ~InKB(f, row.id)
    /\ req' = [req EXCEPT ![r].at = "create", ![r].found = row.id, ![r].set = {f}]
    /\ UNCHANGED <<rows, blobs, old, sweep, nextId, faults, history>>

\* The foreign key and the unique index on KB and library file may refuse it.
CreateFile(r, f) ==
    /\ At(r, "create") /\ req[r].set = {f}
    /\ IF Exists(req[r].found) /\ ~InKB(f, req[r].found) /\ files[f] = Gone
       THEN /\ files' = [files EXCEPT ![f] = [path |-> req[r].found, link |-> req[r].found, busy |-> TRUE]]
            /\ Goto(r, "enqueue")
       ELSE UNCHANGED files /\ End(r)
    /\ UNCHANGED <<row, attached, blobs, old, sweep, nextId, faults, history>>

\* A failed enqueue takes the row back and never the blob.
Enqueue(r, f) ==
    /\ At(r, "enqueue") /\ req[r].set = {f}
    /\ \/ UNCHANGED <<files, faults>>
       \/ /\ faults < MaxFaults /\ faults' = faults + 1
          /\ files' = [files EXCEPT ![f] = Gone]
    /\ End(r)
    /\ UNCHANGED <<row, attached, blobs, old, sweep, nextId, history>>

\* A retry, a worker that is done with the file.
Retry(f) ==
    /\ "adopt" \in Ops /\ files[f] # Gone
    /\ files' = [files EXCEPT ![f].busy = ~files[f].busy]
    /\ UNCHANGED <<row, attached, blobs, old, req, sweep, nextId, faults, history>>

\* DELETE of a KB file: load, blob if it is not the library's, row.
DeleteFile(r, f) ==
    /\ At(r, "idle") /\ "deleteFile" \in Ops /\ files[f] # Gone /\ f \notin doomed
    /\ doomed' = doomed \cup {f}
    /\ req' = [req EXCEPT ![r].at = "fileBlob", ![r].found = files[f].link, ![r].set = {f}]
    /\ UNCHANGED <<rows, blobs, old, sweep, nextId, faults, promised, withdrawn>>

DeleteFileBlob(r, f) ==
    /\ At(r, "fileBlob") /\ req[r].set = {f}
    /\ IF req[r].found = 0 THEN Deletes({f}) ELSE UNCHANGED <<blobs, old, faults>>
    /\ Goto(r, "fileRow")
    /\ UNCHANGED <<rows, sweep, nextId, history>>

DeleteFileRow(r, f) ==
    /\ At(r, "fileRow") /\ req[r].set = {f}
    /\ files' = [files EXCEPT ![f] = Gone]
    /\ doomed' = doomed \ {f}
    /\ End(r)
    /\ UNCHANGED <<row, attached, blobs, old, sweep, nextId, faults, promised, withdrawn>>

-----------------------------------------------------------------------------
(* Adoption of a legacy file.                                              *)

Adoptable(f) == files[f] # Gone /\ files[f].link = 0 /\ ~files[f].busy

\* The row is read and the blob hashed.
Adopt(r, f) ==
    /\ At(r, "idle") /\ "adopt" \in Ops /\ f \in Legacy
    /\ Adoptable(f) /\ files[f].path \in blobs
    /\ req' = [req EXCEPT ![r] = [Idle EXCEPT !.op = "adopt", !.at = "bySHA", !.set = {f}]]
    /\ UNCHANGED <<rows, blobs, old, sweep, nextId, faults, history>>

FindBySHA(r, f) ==
    /\ At(r, "bySHA") /\ req[r].set = {f}
    /\ \/ /\ row # NoRow
          /\ req' = [req EXCEPT ![r].at = IF row.scope = "chat" THEN "promote" ELSE "stored",
                                ![r].found = row.id]
          /\ UNCHANGED <<blobs, nextId>>
       \/ row = NoRow /\ f \in blobs /\ StoreBlob(r, req[r])
       \/ row = NoRow /\ f \notin blobs /\ End(r) /\ UNCHANGED <<blobs, nextId>>
    /\ UNCHANGED <<rows, old, sweep, faults, history>>

Promote(r) ==
    /\ At(r, "promote")
    /\ IF Exists(req[r].found)
       THEN row' = [row EXCEPT !.scope = "library"] /\ Goto(r, "stored")
       ELSE UNCHANGED row /\ End(r)
    /\ UNCHANGED <<files, attached, blobs, old, sweep, nextId, faults, history>>

LinkFile(r, f) ==
    /\ At(r, "stored") /\ req[r].op = "adopt" /\ req[r].set = {f}
    /\ IF Adoptable(f) /\ ~InKB(f, req[r].found) /\ Exists(req[r].found)
       THEN /\ files' = [files EXCEPT ![f].link = req[r].found, ![f].path = req[r].found]
            /\ Goto(r, "oldBlob")
       ELSE /\ UNCHANGED files
            /\ IF req[r].new THEN Goto(r, "rollback") ELSE End(r)
    /\ UNCHANGED <<row, attached, blobs, old, sweep, nextId, faults, history>>

\* Only files rows count as references.
Rollback(r) ==
    /\ At(r, "rollback")
    /\ IF Exists(req[r].found) /\ Linked(req[r].found) = {}
       THEN DropRow /\ Goto(r, "objects")
       ELSE UNCHANGED <<row, attached>> /\ End(r)
    /\ UNCHANGED <<files, blobs, old, sweep, nextId, faults, history>>

DeleteOldBlob(r, f) ==
    /\ At(r, "oldBlob") /\ req[r].set = {f}
    /\ IF \E g \in Files : files[g].path = f THEN UNCHANGED <<blobs, old, faults>> ELSE Deletes({f})
    /\ End(r)
    /\ UNCHANGED <<rows, sweep, nextId, history>>

-----------------------------------------------------------------------------
(* The orphan sweep.                                                       *)

\* A request is over in less than OrphanGrace.
AgeBlob(p) ==
    /\ p \in (blobs \cap Ids) \ old
    /\ \A r \in Requests : req[r].id # p
    /\ old' = old \cup {p}
    /\ UNCHANGED <<rows, blobs, req, sweep, nextId, faults, history>>

AgeRow ==
    /\ row.fresh /\ row' = [row EXCEPT !.fresh = FALSE]
    /\ \A r \in Requests : req[r].found # row.id
    /\ promised' = IF row.scope = "chat" THEN promised \ {row.id} ELSE promised
    /\ UNCHANGED <<files, attached, blobs, old, req, sweep, nextId, faults, withdrawn, doomed>>

\* PendingChatFiles only lists candidates.
SweepPending ==
    /\ sweep = Idle /\ DeletableChatFile(row.id, TRUE)
    /\ sweep' = [Idle EXCEPT !.at = "attachment", !.found = row.id]
    /\ UNCHANGED <<rows, blobs, old, req, nextId, faults, history>>

SweepAttachment ==
    /\ sweep.at = "attachment"
    /\ IF DeletableChatFile(sweep.found, TRUE)
       THEN DropRow /\ sweep' = [sweep EXCEPT !.at = "delete"]
       ELSE UNCHANGED <<row, attached>> /\ sweep' = Idle
    /\ UNCHANGED <<files, blobs, old, req, nextId, faults, history>>

Referenced(p) == Exists(p) \/ \E f \in Files : files[f] # Gone /\ p \in {files[f].link, files[f].path}

\* Mutant of SweepCheck: what the files table once pointed at counts as used.
SweepCheckRowless(p) ==
    /\ sweep = Idle /\ p \in blobs \cap old \cap Ids /\ ~Referenced(p) /\ row # NoRow
    /\ sweep' = [Idle EXCEPT !.at = "delete", !.found = p]
    /\ UNCHANGED <<rows, blobs, old, req, nextId, faults, history>>

SweepCheck(p) ==
    /\ sweep = Idle /\ p \in blobs \cap old \cap Ids /\ ~Referenced(p)
    /\ sweep' = [Idle EXCEPT !.at = "delete", !.found = p]
    /\ UNCHANGED <<rows, blobs, old, req, nextId, faults, history>>

SweepDelete ==
    /\ sweep.at = "delete"
    /\ Deletes({sweep.found})
    /\ sweep' = Idle
    /\ UNCHANGED <<rows, req, nextId, history>>

-----------------------------------------------------------------------------
\* The server stops or the database fails in the middle of a request.
CutShort(r) ==
    /\ ~At(r, "idle") /\ faults < MaxFaults /\ faults' = faults + 1
    /\ End(r)
    /\ UNCHANGED <<rows, blobs, old, sweep, nextId, history>>

Begin(r) ==
    \/ \E scope \in {"library", "chat"} : Upload(r, scope)
    \/ \E c \in Chats : DeleteChat(r, c)
    \/ DeleteUserFile(r)
    \/ \E f \in Files : AddToKB(r, f) \/ DeleteFile(r, f) \/ Adopt(r, f)

Continue(r) ==
    \/ Insert(r) \/ Find(r) \/ Touch(r) \/ Reread(r) \/ DropOwnBlob(r) \/ Acknowledge(r)
    \/ DeleteAttachment(r) \/ DeleteObjects(r) \/ DeleteCopies(r) \/ DeleteUserFileRow(r)
    \/ Promote(r) \/ Rollback(r)
    \/ \E f \in Files :
         \/ CreateFile(r, f) \/ Enqueue(r, f) \/ DeleteFileBlob(r, f) \/ DeleteFileRow(r, f)
         \/ FindBySHA(r, f) \/ LinkFile(r, f) \/ DeleteOldBlob(r, f)

Sweep == SweepPending \/ SweepAttachment \/ SweepDelete \/ \E p \in Ids : SweepCheck(p)

Next ==
    \/ \E r \in Requests : Begin(r) \/ Continue(r) \/ Refuse(r) \/ CutShort(r)
    \/ \E c \in Chats : Send(c)
    \/ \E f \in Files : Retry(f)
    \/ \E p \in Ids : AgeBlob(p)
    \/ AgeRow \/ Sweep

Spec == Init /\ [][Next]_vars

\* Requests end, time passes, the sweep comes round.
FairSpec ==
    /\ Spec
    /\ \A r \in Requests : WF_vars(Continue(r))
    /\ \A p \in Ids : WF_vars(AgeBlob(p))
    /\ WF_vars(Sweep)

-----------------------------------------------------------------------------
TypeOK ==
    /\ row = NoRow \/ (row.id \in Ids /\ row.scope \in {"library", "chat"})
    /\ old \subseteq blobs /\ blobs \subseteq Ids \cup Legacy
    /\ \A f \in Files : files[f] # Gone => files[f].link = 0 \/ Exists(files[f].link)
    /\ \A f, g \in Files : files[f].link # 0 /\ files[f].link = files[g].link /\ KBOf[f] = KBOf[g] => f = g

\* "An orphan blob is cheaper than a row pointing at nothing": whatever is
\* uploaded, swept, adopted, refused or cut short, the row's blob is there.
RowHasBlob == row # NoRow => row.id \in blobs

\* A KB file whose delete nobody asked for can be read, before, during and after
\* its adoption, and whatever happens to the other files of the same blob.
FileHasBlob == \A f \in Files \ doomed : files[f] # Gone => files[f].path \in blobs

\* A library row's blob and a KB file's blob are there, whoever deletes, adopts,
\* refuses, rolls back or sweeps a row, a file or a blob of the same content.
BlobsAreThere == RowHasBlob /\ FileHasBlob

\* "An upload is kept for 24 h, long enough for the message it was uploaded
\* for, counted from the latest upload of the same bytes"; one to the library
\* until its owner deletes it.
UploadIsKept == promised \ withdrawn \subseteq {row.id}

\* What was sent with a message stays with it: only the chat's delete and the
\* file's own take it away, and no cleanup does by the way.
SentStays ==
    [][\A a \in attached \ attached' :
         \E r \in Requests : DeleteChat(r, a[1]) \/ DeleteUserFileRow(r)]_vars

\* A blob in the user's directory that no row refers to goes in the end.
OrphansGo == \A p \in Ids : p \in blobs /\ ~Referenced(p) ~> p \notin blobs \/ Referenced(p)
=============================================================================
