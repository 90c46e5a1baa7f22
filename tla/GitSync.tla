------------------------------ MODULE GitSync ------------------------------
(***************************************************************************)
(* The sync of one git repository (internal/gitrepo/sync.go): clone, stop  *)
(* if HEAD is the commit of the last sync, else reconcile the file rows    *)
(* with the tree by path and blob, delete, create, and record the commit.  *)
(*                                                                         *)
(* A clone, a statement, a storage call and an enqueue are one step each;  *)
(* the blob of a path is 0 where the tree does not have the path.  One     *)
(* worker runs the syncs of the source.                                    *)
(***************************************************************************)
EXTENDS Integers, FiniteSets

CONSTANTS Paths, Blobs,
          MaxRetry,      \* of a sync task
          MaxPushes,     \* bound: commits after the first
          MaxSyncs,      \* bound: sync tasks
          MaxCrashes,    \* bound: crashes, timeouts, failed clones
          MaxItemFaults, \* bound: failures of a single file
          None

ASSUME GitAssumption ==
    /\ 0 \notin Blobs /\ None \notin [path : Paths, blob : Blobs]
    /\ {MaxRetry, MaxPushes, MaxSyncs, MaxCrashes, MaxItemFaults} \subseteq Nat

VARIABLES
    head, tree,     \* the remote: number of the last commit, path -> blob
    files,          \* the rows of the source: [path, blob]
    queued,         \* those of them whose processing was enqueued
    stored,         \* the objects in storage, keyed by path and blob
    src,            \* status and last_commit_sha; commit 0: none yet
    sync,           \* the sync task
    syncs, crashes, itemFaults

vars == <<head, tree, files, queued, stored, src, sync, syncs, crashes, itemFaults>>
remote == <<head, tree>>
bounds == <<syncs, crashes, itemFaults>>

NoSync == [pc |-> "idle", retried |-> 0, last |-> 0, commit |-> 0,
           desired |-> {}, toCreate |-> {}, toDelete |-> {}, item |-> None]

Init ==
    /\ head = 1
    /\ tree \in [Paths -> Blobs]
    /\ files = {}
    /\ queued = {}
    /\ stored = {}
    /\ src = [status |-> "active", last |-> 0]
    /\ sync = NoSync
    /\ syncs = 0 /\ crashes = 0 /\ itemFaults = 0

At(pc) == sync.pc = pc
Crash == crashes < MaxCrashes /\ crashes' = crashes + 1 /\ UNCHANGED <<syncs, itemFaults>>
ItemFault == itemFaults < MaxItemFaults /\ itemFaults' = itemFaults + 1 /\ UNCHANGED <<syncs, crashes>>
TreeFiles == {[path |-> p, blob |-> tree[p]] : p \in {q \in Paths : tree[q] # 0}}

Again ==
    sync' = IF sync.retried < MaxRetry
            THEN [NoSync EXCEPT !.pc = "start", !.retried = sync.retried + 1]
            ELSE NoSync

-----------------------------------------------------------------------------
Trigger ==
    /\ At("idle")
    /\ syncs < MaxSyncs /\ syncs' = syncs + 1
    /\ sync' = [NoSync EXCEPT !.pc = "start"]
    /\ UNCHANGED <<remote, files, queued, stored, src, crashes, itemFaults>>

MarkSyncing ==
    /\ At("start")
    /\ src' = [src EXCEPT !.status = "syncing"]
    /\ sync' = [sync EXCEPT !.pc = "clone", !.last = src.last]
    /\ UNCHANGED <<remote, files, queued, stored, bounds>>

Clone ==
    /\ At("clone")
    /\ sync' = [sync EXCEPT !.pc = "compare", !.commit = head, !.desired = TreeFiles]
    /\ UNCHANGED <<remote, files, queued, stored, src, bounds>>

\* failSync: the token, the clone or the list of rows.
CloneFails ==
    /\ \/ At("clone")
       \/ At("compare") /\ sync.last # sync.commit
    /\ Crash
    /\ src' = [src EXCEPT !.status = "error"]
    /\ Again
    /\ UNCHANGED <<remote, files, queued, stored>>

\* Mutant of Unchanged: the state of the source is left as it is.
UnchangedSilently ==
    /\ At("compare") /\ sync.last = sync.commit
    /\ sync' = NoSync
    /\ UNCHANGED <<remote, files, queued, stored, src, bounds>>

Unchanged ==
    /\ At("compare") /\ sync.last = sync.commit
    /\ src' = [src EXCEPT !.status = "active"]
    /\ sync' = NoSync
    /\ UNCHANGED <<remote, files, queued, stored, bounds>>

\* Mutant of Reconcile: the commit is recorded before the files are.
ReconcileRecording ==
    /\ At("compare") /\ sync.last # sync.commit
    /\ src' = [src EXCEPT !.last = sync.commit]
    /\ sync' = [sync EXCEPT !.pc = "delete", !.toCreate = sync.desired \ files,
                            !.toDelete = files \ sync.desired]
    /\ UNCHANGED <<remote, files, queued, stored, bounds>>

\* Rows are compared by path; a map keeps one row of each path.
Reconcile ==
    /\ At("compare") /\ sync.last # sync.commit
    /\ \E row \in [Paths -> files \cup {None}] :
         /\ \A p \in Paths :
              IF \E f \in files : f.path = p THEN row[p] # None /\ row[p].path = p ELSE row[p] = None
         /\ LET changed == {d \in sync.desired : row[d.path] # None /\ row[d.path].blob # d.blob}
                kept == {d.path : d \in sync.desired}
            IN  sync' = [sync EXCEPT
                  !.pc = "delete",
                  !.toCreate = {d \in sync.desired : row[d.path] = None} \cup changed,
                  !.toDelete = {row[d.path] : d \in changed} \cup {f \in files : f.path \notin kept}]
    /\ UNCHANGED <<remote, files, queued, stored, src, bounds>>

\* A removed or changed file: its chunks and object, then its row; errors are
\* only logged (an object that stays behind harms nothing here).
DeleteObject ==
    /\ At("delete") /\ sync.item = None
    /\ \E f \in sync.toDelete :
         /\ sync' = [sync EXCEPT !.toDelete = @ \ {f}, !.item = f]
         /\ stored' = stored \ {f}
    /\ UNCHANGED <<remote, files, queued, src, bounds>>

DeleteRow ==
    /\ At("delete") /\ sync.item # None
    /\ \/ files' = files \ {sync.item} /\ queued' = queued \ {sync.item} /\ UNCHANGED bounds
       \/ ItemFault /\ UNCHANGED <<files, queued>>
    /\ sync' = [sync EXCEPT !.item = None]
    /\ UNCHANGED <<remote, stored, src>>

StoreObject ==
    /\ At("delete") /\ sync.toDelete = {} /\ sync.item = None
    /\ \E f \in sync.toCreate :
         \/ /\ sync' = [sync EXCEPT !.pc = "create", !.toCreate = @ \ {f}, !.item = f]
            /\ stored' = stored \cup {f}
            /\ UNCHANGED bounds
         \/ /\ ItemFault
            /\ sync' = [sync EXCEPT !.toCreate = @ \ {f}]
            /\ UNCHANGED stored
    /\ UNCHANGED <<remote, files, queued, src>>

CreateRow ==
    /\ At("create")
    /\ \/ files' = files \cup {sync.item} /\ sync' = [sync EXCEPT !.pc = "enqueue"] /\ UNCHANGED bounds
       \/ ItemFault /\ sync' = [sync EXCEPT !.pc = "delete", !.item = None] /\ UNCHANGED files
    /\ UNCHANGED <<remote, queued, stored, src>>

\* Mutant of CreateRow: the row is taken for enough.
CreateRowOnly ==
    /\ At("create")
    /\ files' = files \cup {sync.item} /\ sync' = [sync EXCEPT !.pc = "delete", !.item = None]
    /\ UNCHANGED <<remote, queued, stored, src, bounds>>

\* The task that processes the file.  A refused one is only logged: the row
\* stays, and later syncs take the file for done.
Enqueue ==
    /\ At("enqueue")
    /\ \/ queued' = queued \cup {sync.item} /\ UNCHANGED bounds
       \/ ItemFault /\ UNCHANGED queued
    /\ sync' = [sync EXCEPT !.pc = "delete", !.item = None]
    /\ UNCHANGED <<remote, files, stored, src>>

\* The commit is recorded whatever became of the single files.
Finish ==
    /\ At("delete") /\ sync.toDelete = {} /\ sync.toCreate = {} /\ sync.item = None
    /\ src' = [status |-> "active", last |-> sync.commit]
    /\ sync' = NoSync
    /\ UNCHANGED <<remote, files, queued, stored, bounds>>

\* The worker dies, or the task times out and its last write fails.
Interrupted ==
    /\ ~At("idle")
    /\ Crash
    /\ Again
    /\ UNCHANGED <<remote, files, queued, stored, src>>

\* A commit that changes, adds or removes a path, or reverts to a former blob.
Push ==
    /\ head <= MaxPushes
    /\ head' = head + 1
    /\ \E p \in Paths, b \in Blobs \cup {0} : tree[p] # b /\ tree' = [tree EXCEPT ![p] = b]
    /\ UNCHANGED <<files, queued, stored, src, sync, bounds>>

SyncStep ==
    \/ MarkSyncing \/ Clone \/ Unchanged \/ Reconcile \/ DeleteObject \/ DeleteRow
    \/ StoreObject \/ CreateRow \/ Enqueue \/ Finish

Next == Trigger \/ SyncStep \/ CloneFails \/ Interrupted \/ Push

Spec == Init /\ [][Next]_vars
-----------------------------------------------------------------------------
TypeOK ==
    /\ tree \in [Paths -> Blobs \cup {0}]
    /\ files \cup stored \subseteq [path : Paths, blob : Blobs] /\ queued \subseteq files
    /\ src.status \in {"active", "syncing", "error"} /\ src.last \in 0 .. head
    /\ sync.retried \in 0 .. MaxRetry

\* Files whose processing nobody was asked for: a sync that lists them again
\* finds path and blob unchanged and leaves them so.
Unprocessed == files \ queued

\* A sync that ends well leaves exactly the files of the commit it cloned, be
\* it the first attempt or one after crashes and failed clones, and whatever
\* was pushed, reverted or removed meanwhile, unless a single file failed.  And
\* a crash leaves at most one of them, the one in hand, without its task.
FilesAreThoseOfTheCommit ==
    [][(Finish \/ Unchanged) /\ itemFaults = 0 =>
         files = sync.desired /\ Cardinality(Unprocessed) <= crashes]_vars

\* 'syncing', which keeps a source off the schedule, is the state of a source
\* whose task is at work, as long as that task has retries left.
SyncingIsAtWork ==
    src.status = "syncing" /\ crashes <= MaxRetry => ~At("idle")

GitInv == TypeOK /\ SyncingIsAtWork
=============================================================================
