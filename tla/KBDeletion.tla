----------------------------- MODULE KBDeletion -----------------------------
(***************************************************************************)
(* What a delete takes along: the cascades of a file, a knowledge base and *)
(* a user (internal/cascade), which list, clean the vector database and    *)
(* the storage and then run one transaction, against uploads, runs of the  *)
(* worker (internal/processor/file_deleted.go), the sweep of orphaned      *)
(* vectors (internal/worker/maintenance.go) and owners that change.        *)
(* Library files, which DeleteUser takes first, are in UserLibrary.        *)
(***************************************************************************)
EXTENDS Naturals, FiniteSets

CONSTANTS
    Users, KBs, Files,
    KBOf,       \* the KB of each file
    FirstOwner, \* the owner of each KB, Nobody for one to be created
    Existing,   \* files that are there and ready at first
    Deleters,   \* requests that delete, at work at the same time
    Ops,        \* what users do, see DeletionNext
    Nobody,
    MaxFaults   \* bound: steps that fail, workers that crash

ASSUME DeletionAssumption ==
    /\ Nobody \notin Users
    /\ KBOf \in [Files -> KBs]
    /\ FirstOwner \in [KBs -> Users \cup {Nobody}]
    /\ Existing \subseteq {f \in Files : FirstOwner[KBOf[f]] # Nobody}
    /\ MaxFaults \in Nat

VARIABLES
    users,      \* users rows
    kb,         \* knowledge_bases rows with the owner's kb_members row
    rows,       \* files rows
    blobs,      \* files with an object in storage
    chunks,     \* files with rows in a document_chunks table
    side,       \* files with parent chunks or HyPE questions
    up,         \* how far the upload of a file is
    run,        \* what the task of a file is at
    del,        \* what each deleter is at
    sweep,      \* the file ids the sweep found, then those without a row
    faults,
    asked,      \* history: files whose delete was asked for, by their KB's or user's too
    settled     \* history: those of them whose task was over by then

data == <<blobs, chunks, side>>
history == <<asked, settled>>
deletionVars == <<users, kb, rows, data, up, run, del, sweep, faults, history>>

Unborn == [live |-> FALSE, public |-> FALSE, owner |-> Nobody, mirror |-> Nobody]
Private(u) == [live |-> TRUE, public |-> FALSE, owner |-> u, mirror |-> u]
Free == [op |-> "none", at |-> "free", user |-> Nobody, kbs |-> {}, todo |-> {}, files |-> {}]
Rest == [at |-> "rest", ids |-> {}]

DeletionInit ==
    /\ users = Users
    /\ kb = [k \in KBs |-> IF FirstOwner[k] = Nobody THEN Unborn ELSE Private(FirstOwner[k])]
    /\ rows = Existing /\ blobs = Existing /\ chunks = Existing /\ side = Existing
    /\ up = [f \in Files |-> IF f \in Existing THEN "done" ELSE "no"]
    /\ run = [f \in Files |-> IF f \in Existing THEN "over" ELSE "none"]
    /\ del = [d \in Deleters |-> Free]
    /\ sweep = Rest
    /\ faults = 0 /\ asked = {} /\ settled = {}

FilesIn(ks) == {f \in Files : KBOf[f] \in ks}
OwnedBy(u) == {k \in KBs : kb[k].live /\ kb[k].mirror = u}

-----------------------------------------------------------------------------
(* Knowledge bases and owners: each is one transaction.                    *)

CreateKB(u, k) ==
    /\ "create" \in Ops /\ u \in users /\ kb[k] = Unborn /\ FirstOwner[k] = Nobody
    /\ FilesIn({k}) \cap {f \in Files : up[f] # "no"} = {}
    /\ kb' = [kb EXCEPT ![k] = Private(u)]
    /\ UNCHANGED <<users, rows, data, up, run, del, sweep, faults, history>>

Transfer(k, u) ==
    /\ "transfer" \in Ops /\ kb[k].live /\ ~kb[k].public /\ u \in users
    /\ kb[k].owner \notin {Nobody, u}
    /\ kb' = [kb EXCEPT ![k] = Private(u)]
    /\ UNCHANGED <<users, rows, data, up, run, del, sweep, faults, history>>

Publish(k) ==
    /\ "publish" \in Ops /\ kb[k].live /\ ~kb[k].public
    /\ kb' = [kb EXCEPT ![k].public = TRUE, ![k].owner = Nobody, ![k].mirror = Nobody]
    /\ UNCHANGED <<users, rows, data, up, run, del, sweep, faults, history>>

Unpublish(k, u) ==
    /\ "publish" \in Ops /\ kb[k].live /\ kb[k].public /\ u \in users
    /\ kb' = [kb EXCEPT ![k] = Private(u)]
    /\ UNCHANGED <<users, rows, data, up, run, del, sweep, faults, history>>

-----------------------------------------------------------------------------
(* An upload and the task of its file.                                     *)

StoreBlob(f) ==
    /\ "upload" \in Ops /\ up[f] = "no" /\ kb[KBOf[f]].live
    /\ up' = [up EXCEPT ![f] = "blob"]
    /\ blobs' = blobs \cup {f}
    /\ UNCHANGED <<users, kb, rows, chunks, side, run, del, sweep, faults, history>>

\* The KB may be gone by now: then the blob goes too.
CreateRow(f) ==
    /\ up[f] = "blob"
    /\ up' = [up EXCEPT ![f] = "done"]
    /\ IF kb[KBOf[f]].live
       THEN /\ rows' = rows \cup {f} /\ UNCHANGED blobs
            /\ run' = [run EXCEPT ![f] = "queued"]
       ELSE blobs' = blobs \ {f} /\ UNCHANGED <<rows, run>>
    /\ UNCHANGED <<users, kb, chunks, side, del, sweep, faults, history>>

\* A file that is gone before its task starts is not touched.
StartTask(f) ==
    /\ run[f] = "queued"
    /\ run' = [run EXCEPT ![f] = IF f \in rows THEN "open" ELSE "over"]
    /\ UNCHANGED <<users, kb, rows, data, up, del, sweep, faults, history>>

DeleteOld(f) ==
    /\ run[f] = "open"
    /\ chunks' = chunks \ {f} /\ side' = side \ {f}
    /\ run' = [run EXCEPT ![f] = "writing"]
    /\ UNCHANGED <<users, kb, rows, blobs, up, del, sweep, faults, history>>

Write(f) ==
    /\ run[f] = "writing"
    /\ \/ f \notin chunks /\ chunks' = chunks \cup {f} /\ UNCHANGED side
       \/ f \notin side /\ side' = side \cup {f} /\ UNCHANGED chunks
    /\ UNCHANGED <<users, kb, rows, blobs, up, run, del, sweep, faults, history>>

\* The run returns nil: the row is not looked at again.
Finish(f) ==
    /\ run[f] = "writing" /\ (f \in chunks \/ f \notin rows)
    /\ run' = [run EXCEPT ![f] = "over"]
    /\ UNCHANGED <<users, kb, rows, data, up, del, sweep, faults, history>>

\* Mutant of Poll: a lookup that fails counts as a file that is gone.
PollFailClosed(f) ==
    /\ run[f] \in {"open", "writing"}
    /\ f \notin rows \/ faults < MaxFaults
    /\ faults' = IF f \in rows THEN faults + 1 ELSE faults
    /\ run' = [run EXCEPT ![f] = "stopped"]
    /\ UNCHANGED <<users, kb, rows, data, up, del, sweep, history>>

\* watchFileRow; a lookup that fails changes nothing.
Poll(f) ==
    /\ run[f] \in {"open", "writing"} /\ f \notin rows
    /\ run' = [run EXCEPT ![f] = "stopped"]
    /\ UNCHANGED <<users, kb, rows, data, up, del, sweep, faults, history>>

\* removeDeletedFileOutput: each delete is best effort.
RemoveOutput(f) ==
    /\ run[f] = "stopped"
    /\ \/ chunks' = chunks \ {f} /\ side' = side \ {f} /\ UNCHANGED faults
       \/ /\ faults < MaxFaults /\ faults' = faults + 1
          /\ \/ side' = side \ {f} /\ UNCHANGED chunks
             \/ chunks' = chunks \ {f} /\ UNCHANGED side
    /\ run' = [run EXCEPT ![f] = "over"]
    /\ UNCHANGED <<users, kb, rows, blobs, up, del, sweep, history>>

\* The worker dies; the queue delivers the task again.
Crash(f) ==
    /\ run[f] \in {"open", "writing", "stopped"} /\ faults < MaxFaults
    /\ faults' = faults + 1
    /\ run' = [run EXCEPT ![f] = "queued"]
    /\ UNCHANGED <<users, kb, rows, data, up, del, sweep, history>>

-----------------------------------------------------------------------------
(* Deleters.                                                               *)

Ask(fs) ==
    /\ asked' = asked \cup fs
    /\ settled' = settled \cup {f \in fs \ asked : run[f] = "over"}

\* The files are listed: from here on nothing that is added is seen.
List(d, next, fs) ==
    /\ del' = [del EXCEPT ![d] = [next EXCEPT !.files = fs, !.at = "chunks"]]
    /\ Ask(fs)

DeleteKB(d, k) ==
    /\ "kb" \in Ops /\ del[d] = Free /\ kb[k].live /\ ~kb[k].public
    /\ List(d, [Free EXCEPT !.op = "kb", !.kbs = {k}], rows \cap FilesIn({k}))
    /\ UNCHANGED <<users, kb, rows, data, up, run, sweep, faults>>

\* Nothing asks whether the KB is public.
DeleteGlobalKB(d, k) ==
    /\ "global" \in Ops /\ del[d] = Free /\ kb[k].live
    /\ List(d, [Free EXCEPT !.op = "global", !.kbs = {k}], rows \cap FilesIn({k}))
    /\ UNCHANGED <<users, kb, rows, data, up, run, sweep, faults>>

DeleteFile(d, f) ==
    /\ "file" \in Ops /\ del[d] = Free /\ f \in rows
    /\ List(d, [Free EXCEPT !.op = "file"], {f})
    /\ UNCHANGED <<users, kb, rows, data, up, run, sweep, faults>>

DeleteUser(d, u) ==
    /\ "user" \in Ops /\ del[d] = Free /\ u \in users
    /\ del' = [del EXCEPT ![d] = [Free EXCEPT !.op = "user", !.user = u, !.at = "next",
                                             !.kbs = OwnedBy(u), !.todo = OwnedBy(u)]]
    /\ Ask(rows \cap FilesIn(OwnedBy(u)))
    /\ UNCHANGED <<users, kb, rows, data, up, run, sweep, faults>>

NextKB(d, k) ==
    /\ del[d].at = "next" /\ k \in del[d].todo
    /\ List(d, [del[d] EXCEPT !.todo = @ \ {k}], rows \cap FilesIn({k}))
    /\ UNCHANGED <<users, kb, rows, data, up, run, sweep, faults>>

Clean(d, at, next) ==
    /\ del[d].at = at
    /\ del' = [del EXCEPT ![d].at = next]
    /\ UNCHANGED <<users, kb, rows, up, run, sweep, history>>

\* One of the best-effort deletes.
Less(set, fs) ==
    \/ set' = set \ fs /\ UNCHANGED faults
    \/ faults < MaxFaults /\ fs # {} /\ UNCHANGED set /\ faults' = faults + 1

DeleteChunks(d) ==
    /\ Clean(d, "chunks", "side")
    /\ Less(chunks, del[d].files) /\ UNCHANGED <<blobs, side>>

DeleteSide(d) ==
    /\ Clean(d, "side", "blobs")
    /\ Less(side, del[d].files) /\ UNCHANGED <<blobs, chunks>>

\* Mutant of DeleteBlobs: a user's delete goes on to its transaction after the first KB.
DeleteBlobsOfOne(d) ==
    /\ Clean(d, "blobs", "rows")
    /\ Less(blobs, del[d].files) /\ UNCHANGED <<chunks, side>>

DeleteBlobs(d) ==
    /\ Clean(d, "blobs", IF del[d].op = "user" THEN "next" ELSE "rows")
    /\ Less(blobs, del[d].files) /\ UNCHANGED <<chunks, side>>

Transaction(d) ==
    \/ del[d].at = "rows"
    \/ del[d].at = "next" /\ del[d].todo = {}

\* Rows of files go with their KB (ON DELETE CASCADE).
DropKBs(gone, emptied) ==
    /\ rows' = rows \ FilesIn(gone \cup emptied)
    /\ kb' = [k \in KBs |-> CASE k \in gone -> Unborn
                              [] k \in emptied \ gone -> [kb[k] EXCEPT !.owner = Nobody]
                              [] OTHER -> kb[k]]

DropFileRow(d) ==
    /\ del[d].op = "file"
    /\ rows' = rows \ del[d].files /\ UNCHANGED <<users, kb>>

\* Mutant of DropKB: the files go, the row stays.
DropKBRowKept(d) ==
    /\ del[d].op = "kb"
    /\ DropKBs({}, del[d].kbs) /\ UNCHANGED users

DropKB(d) ==
    /\ del[d].op = "kb"
    /\ DropKBs(del[d].kbs, {}) /\ UNCHANGED users

\* The row itself goes only if it is public.
DropGlobalKB(d) ==
    /\ del[d].op = "global"
    /\ DropKBs({k \in del[d].kbs : kb[k].public}, {k \in del[d].kbs : kb[k].live})
    /\ UNCHANGED users

\* The KBs that were listed lose what is in them, those that are the user's by
\* now go (ON DELETE CASCADE where no statement names them).
DropUser(d) ==
    /\ del[d].op = "user"
    /\ DropKBs(OwnedBy(del[d].user), {k \in del[d].kbs : kb[k].live})
    /\ users' = users \ {del[d].user}

Commit(d) ==
    /\ Transaction(d)
    /\ DropFileRow(d) \/ DropKB(d) \/ DropGlobalKB(d) \/ DropUser(d)
    /\ del' = [del EXCEPT ![d] = Free]
    /\ UNCHANGED <<data, up, run, sweep, faults, history>>

Fails(d) ==
    /\ Transaction(d) /\ faults < MaxFaults /\ faults' = faults + 1
    /\ del' = [del EXCEPT ![d] = Free]
    /\ UNCHANGED <<users, kb, rows, data, up, run, sweep, history>>

-----------------------------------------------------------------------------
(* cleanupOrphanedVectors looks at the document_chunks tables only.        *)

SweepList ==
    /\ sweep = Rest /\ chunks # {}
    /\ sweep' = [at |-> "listed", ids |-> chunks]
    /\ UNCHANGED <<users, kb, rows, data, up, run, del, faults, history>>

\* Mutant of SweepCheck: it asks for the KB, not for the file.
SweepCheckKB ==
    /\ sweep.at = "listed"
    /\ sweep' = [at |-> "orphans", ids |-> {f \in sweep.ids : ~kb[KBOf[f]].live}]
    /\ UNCHANGED <<users, kb, rows, data, up, run, del, faults, history>>

SweepCheck ==
    /\ sweep.at = "listed"
    /\ sweep' = [at |-> "orphans", ids |-> sweep.ids \ rows]
    /\ UNCHANGED <<users, kb, rows, data, up, run, del, faults, history>>

SweepDelete ==
    /\ sweep.at = "orphans"
    /\ Less(chunks, sweep.ids)
    /\ sweep' = Rest
    /\ UNCHANGED <<users, kb, rows, blobs, side, up, run, del, history>>

-----------------------------------------------------------------------------
Run(f) ==
    \/ StartTask(f) \/ DeleteOld(f) \/ Write(f) \/ Finish(f) \/ Poll(f) \/ RemoveOutput(f)

Delete(d) ==
    \/ \E k \in KBs : NextKB(d, k)
    \/ DeleteChunks(d) \/ DeleteSide(d) \/ DeleteBlobs(d) \/ Commit(d)

Sweep == SweepList \/ SweepCheck \/ SweepDelete

DeletionNext ==
    \/ \E k \in KBs : \/ Publish(k)
                      \/ \E u \in Users : CreateKB(u, k) \/ Transfer(k, u) \/ Unpublish(k, u)
    \/ \E f \in Files : StoreBlob(f) \/ CreateRow(f) \/ Run(f) \/ Crash(f)
    \/ \E d \in Deleters :
         \/ \E k \in KBs : DeleteKB(d, k) \/ DeleteGlobalKB(d, k)
         \/ \E f \in Files : DeleteFile(d, f)
         \/ \E u \in Users : DeleteUser(d, u)
         \/ Delete(d) \/ Fails(d)
    \/ Sweep

DeletionSpec == DeletionInit /\ [][DeletionNext]_deletionVars

\* The worker works through its queue, the sweep comes round.
DeletionFairSpec ==
    /\ DeletionSpec
    /\ \A f \in Files : WF_deletionVars(Run(f))
    /\ WF_deletionVars(Sweep)

-----------------------------------------------------------------------------
DeletionTypeOK ==
    /\ rows \subseteq {f \in Files : up[f] = "done" /\ kb[KBOf[f]].live}
    /\ chunks \cup side \subseteq {f \in Files : run[f] # "none"}
    /\ \A k \in KBs : kb[k].mirror \in users \cup {Nobody} /\ (kb[k].public => kb[k].mirror = Nobody)

\* A file that nobody deletes has its blob and, once its task is over, its
\* chunks: no sweep, no clean-up of a run and no delete of another KB, user or
\* file takes them.
UntouchedIsWhole ==
    \A f \in rows \ asked : f \in blobs /\ (run[f] = "over" => f \in chunks)

\* In every well-typed state.
UntouchedAreWhole == DeletionTypeOK /\ UntouchedIsWhole

\* Rows of files go with their KB or by a delete of their own: no KB that stays
\* loses all it has.
RowsGoWithTheirKB ==
    \A f \in rows \ rows' :
        \/ ~kb'[KBOf[f]].live
        \/ \E d \in Deleters : del[d].op = "file" /\ f \in del[d].files

FilesGoWithTheirKB == [][RowsGoWithTheirKB]_deletionVars

\* Where owners change meanwhile, a KB that stays may also be emptied: by the delete
\* of a user who had it when the KBs were listed, and by nothing else.
RowsGoAsListed ==
    \/ RowsGoWithTheirKB
    \/ \E d \in Deleters :
         /\ del[d].op = "user" /\ del[d].user \notin users'
         /\ rows \ rows' \subseteq FilesIn(del[d].kbs \cup OwnedBy(del[d].user))

\* The row goes last: of a file that was at rest when its delete was asked for
\* nothing is left without a row, unless a delete is still at it (no step fails).
RowGoesLast ==
    \A f \in settled \ rows :
        (\A d \in Deleters : f \notin del[d].files) => f \notin blobs \cup chunks \cup side

\* Chunks without a file go in the end, whichever step failed or came late: again
\* and again there are none.
ChunksGo == []<>(chunks \subseteq rows)

=============================================================================
