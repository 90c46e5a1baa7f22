-------------------------- MODULE ConnectorsProofs --------------------------
(***************************************************************************)
(* What is proved of the two connectors that reconcile files with a        *)
(* remote.  For any paths, blobs, pushes, retries and crashes: a sync of a *)
(* git repository that ends well, whichever attempt it is, leaves exactly  *)
(* the files of the commit it cloned, all but one per crash with their     *)
(* task, and a source says 'syncing' only while its task has an attempt    *)
(* left.  For any pages, edits, faults and retries: a sync of a Confluence *)
(* space in which nothing failed leaves one file for every page it listed  *)
(* with a content, whatever earlier syncs left behind.                     *)
(***************************************************************************)
EXTENDS GitSync, ConfluenceSync, FiniteSetTheorems, TLAPS

-----------------------------------------------------------------------------
(* Git.                                                                    *)


FileRows == [path : Paths, blob : Blobs]

\* One row per path, as a tree has one file per path.
OnePerPath(rows) == \A f, g \in rows : f.path = g.path => f = g

Syncs == [pc : {"idle", "start", "clone", "compare", "delete", "create", "enqueue"},
          retried : Nat, last : Nat, commit : Nat,
          desired : SUBSET FileRows, toCreate : SUBSET FileRows, toDelete : SUBSET FileRows,
          item : FileRows \cup {None}]

Types ==
    /\ head \in Nat \ {0} /\ tree \in [Paths -> Blobs \cup {0}]
    /\ files \subseteq FileRows /\ queued \subseteq files
    /\ src \in [status : {"active", "syncing", "error"}, last : Nat] /\ src.last <= head
    /\ sync \in Syncs /\ (sync.pc \in {"create", "enqueue"} => sync.item # None)
    /\ sync.pc \notin {"delete", "create", "enqueue"} => sync.item = None
    /\ sync.pc = "enqueue" => sync.item \in files
    /\ itemFaults \in Nat

\* What a sync has read is of the past, and of one commit.
ReadsAreOld ==
    /\ sync.pc \in {"clone", "compare", "delete", "create", "enqueue"} => sync.last = src.last
    /\ sync.pc \in {"compare", "delete", "create", "enqueue"} => sync.commit \in 1 .. head
    /\ sync.pc \in {"compare", "delete", "create", "enqueue"} /\ sync.commit = head => sync.desired = TreeFiles
    /\ sync.pc \in {"delete", "create", "enqueue"} => sync.last < sync.commit
    /\ sync.last <= head /\ (sync.pc = "compare" => sync.last <= sync.commit)
    /\ OnePerPath(sync.desired)

\* The files of the last commit are there, as far as the remote still has it.
LastIsThere ==
    /\ sync.pc \notin {"delete", "create", "enqueue"} /\ src.last = head => files = TreeFiles
    /\ sync.pc = "compare" /\ sync.last = sync.commit => files = sync.desired

\* What is left to delete and to create turns the files into those of the commit.
WorkIsRight ==
    /\ sync.pc = "delete" =>
         /\ sync.item # None => sync.item \in files \ (sync.toDelete \cup sync.desired)
         /\ sync.toDelete \subseteq files
         /\ (files \ (sync.toDelete \cup {sync.item})) \cup sync.toCreate = sync.desired
         /\ sync.toDelete \cap sync.desired = {}
    /\ sync.pc = "create" =>
         /\ sync.item \in sync.desired /\ sync.toDelete = {}
         /\ files \cup sync.toCreate \cup {sync.item} = sync.desired
    /\ sync.pc = "enqueue" =>
         /\ sync.toDelete = {} /\ files \cup sync.toCreate = sync.desired

\* The files without a task, but for the one that is about to have it: a crash
\* leaves one of them behind.
Lost == Unprocessed \ IF sync.pc = "enqueue" THEN {sync.item} ELSE {}
CrashesLose == crashes \in Nat /\ IsFiniteSet(Lost) /\ Cardinality(Lost) <= crashes

IInv ==
    /\ Types /\ ReadsAreOld
    /\ itemFaults = 0 => OnePerPath(files) /\ LastIsThere /\ WorkIsRight

LEMMA NoneIsNoRow == None \notin FileRows
BY GitAssumption DEF GitAssumption, FileRows

LEMMA InitInv == Init => IInv
BY GitAssumption DEF GitAssumption, Init, IInv, Types, ReadsAreOld, LastIsThere, WorkIsRight, OnePerPath, NoSync,
   Syncs, FileRows, TreeFiles

LEMMA TreeFilesTypes ==
    ASSUME Types PROVE TreeFiles \subseteq FileRows /\ OnePerPath(TreeFiles)
BY DEF Types, TreeFiles, FileRows, OnePerPath

\* The next attempt begins with nothing in hand; what was recorded stands.
LEMMA AgainStep ==
    ASSUME IInv, Again, UNCHANGED <<remote, files, queued, itemFaults>>,
           src' = src \/ src' = [src EXCEPT !.status = "error"]
    PROVE  IInv'
<1>. USE DEF remote
<1>1. /\ sync'.pc \in {"start", "idle"} /\ sync'.desired = {} /\ sync'.last = 0
      /\ sync'.item = None /\ sync' \in Syncs
  <2>1. sync.retried + 1 \in Nat /\ NoSync \in Syncs
    BY DEF IInv, Types, Syncs, NoSync
  <2>2. CASE sync' = NoSync
    BY <2>1, <2>2 DEF NoSync
  <2>3. CASE sync' = [NoSync EXCEPT !.pc = "start", !.retried = sync.retried + 1]
    BY <2>1, <2>3 DEF NoSync, Syncs
  <2>. QED BY <2>2, <2>3 DEF Again
<1>2. Types' /\ src'.last = src.last
  BY <1>1 DEF IInv, Types
<1>3. ReadsAreOld'
  BY <1>1, <1>2 DEF IInv, Types, ReadsAreOld, OnePerPath
<1>4. sync.pc \in {"delete", "create", "enqueue"} => src.last # head
  BY DEF IInv, Types, Syncs, ReadsAreOld
<1>5. itemFaults' = 0 => OnePerPath(files)' /\ LastIsThere' /\ WorkIsRight'
  BY <1>1, <1>2, <1>4 DEF IInv, OnePerPath, LastIsThere, WorkIsRight, TreeFiles
<1>. QED BY <1>2, <1>3, <1>5 DEF IInv

LEMMA Inductive == IInv /\ [Next]_vars => IInv'
<1>. SUFFICES ASSUME IInv, [Next]_vars PROVE IInv'
  OBVIOUS
<1>. USE DEF remote, bounds, At
<1>a. Types /\ ReadsAreOld /\ (itemFaults = 0 => OnePerPath(files) /\ LastIsThere /\ WorkIsRight)
  BY DEF IInv
<1>1. CASE Trigger
  <2>1. Types'
    BY <1>1, <1>a, NoneIsNoRow DEF Trigger, NoSync, Types, Syncs
  <2>2. ReadsAreOld'
    BY <1>1, <1>a DEF Trigger, NoSync, Types, Syncs, ReadsAreOld, OnePerPath, TreeFiles
  <2>3. itemFaults' = 0 => OnePerPath(files)' /\ LastIsThere'
    BY <1>1, <1>a DEF Trigger, NoSync, Types, Syncs, ReadsAreOld, OnePerPath, LastIsThere, WorkIsRight, TreeFiles
  <2>4. itemFaults' = 0 => WorkIsRight'
    BY <1>1, <1>a DEF Trigger, NoSync, Types, Syncs, ReadsAreOld, OnePerPath, WorkIsRight
  <2>. QED BY <2>1, <2>2, <2>3, <2>4 DEF IInv
<1>2. CASE MarkSyncing
  <2>1. Types'
    BY <1>2, <1>a, NoneIsNoRow DEF MarkSyncing, Types, Syncs
  <2>2. ReadsAreOld'
    BY <1>2, <1>a DEF MarkSyncing, Types, Syncs, ReadsAreOld, OnePerPath, TreeFiles
  <2>3. itemFaults' = 0 => OnePerPath(files)' /\ LastIsThere'
    BY <1>2, <1>a DEF MarkSyncing, Types, Syncs, ReadsAreOld, OnePerPath, LastIsThere, WorkIsRight, TreeFiles
  <2>4. itemFaults' = 0 => WorkIsRight'
    BY <1>2, <1>a DEF MarkSyncing, Types, Syncs, ReadsAreOld, OnePerPath, WorkIsRight
  <2>. QED BY <2>1, <2>2, <2>3, <2>4 DEF IInv
<1>3. CASE Clone
  <2>1. Types'
    BY <1>3, <1>a, GitAssumption, TreeFilesTypes DEF GitAssumption, Clone, Types, Syncs
  <2>2. ReadsAreOld'
    BY <1>3, <1>a, TreeFilesTypes DEF Clone, Types, Syncs, ReadsAreOld, OnePerPath, TreeFiles
  <2>3. itemFaults' = 0 => OnePerPath(files)' /\ LastIsThere'
    BY <1>3, <1>a DEF Clone, Types, Syncs, ReadsAreOld, OnePerPath, LastIsThere, WorkIsRight, TreeFiles
  <2>4. itemFaults' = 0 => WorkIsRight'
    BY <1>3, <1>a DEF Clone, Types, Syncs, ReadsAreOld, OnePerPath, WorkIsRight
  <2>. QED BY <2>1, <2>2, <2>3, <2>4 DEF IInv
<1>4. CASE Unchanged
  <2>1. Types'
    BY <1>4, <1>a, NoneIsNoRow DEF Unchanged, NoSync, Types, Syncs
  <2>2. ReadsAreOld'
    BY <1>4, <1>a DEF Unchanged, NoSync, Types, Syncs, ReadsAreOld, OnePerPath, TreeFiles
  <2>3. itemFaults' = 0 => OnePerPath(files)' /\ LastIsThere'
    BY <1>4, <1>a DEF Unchanged, NoSync, Types, Syncs, ReadsAreOld, OnePerPath, LastIsThere, WorkIsRight, TreeFiles
  <2>4. itemFaults' = 0 => WorkIsRight'
    BY <1>4, <1>a DEF Unchanged, NoSync, Types, Syncs, ReadsAreOld, OnePerPath, WorkIsRight
  <2>. QED BY <2>1, <2>2, <2>3, <2>4 DEF IInv
<1>5. CASE Reconcile
  <2>0. PICK row \in [Paths -> files \cup {None}] :
         /\ \A p \in Paths :
              IF \E f \in files : f.path = p THEN row[p] # None /\ row[p].path = p ELSE row[p] = None
         /\ LET changed == {d \in sync.desired : row[d.path] # None /\ row[d.path].blob # d.blob}
                kept == {d.path : d \in sync.desired}
            IN  sync' = [sync EXCEPT
                  !.pc = "delete",
                  !.toCreate = {d \in sync.desired : row[d.path] = None} \cup changed,
                  !.toDelete = {row[d.path] : d \in changed} \cup {f \in files : f.path \notin kept}]
    BY <1>5 DEF Reconcile
  <2>. DEFINE changed == {d \in sync.desired : row[d.path] # None /\ row[d.path].blob # d.blob}
              creates == {d \in sync.desired : row[d.path] = None} \cup changed
              deletes == {row[d.path] : d \in changed} \cup {f \in files : f.path \notin {d.path : d \in sync.desired}}
  <2>a. /\ sync.pc = "compare" /\ sync.last # sync.commit
        /\ UNCHANGED <<remote, files, queued, src, itemFaults>>
        /\ sync' = [sync EXCEPT !.pc = "delete", !.toCreate = creates, !.toDelete = deletes]
    BY <1>5, <2>0 DEF Reconcile
  <2>b. \A d \in sync.desired : d \in FileRows /\ d.path \in Paths /\ row[d.path] \in files \cup {None}
    BY <1>a DEF Types, Syncs, FileRows
  <2>c. creates \subseteq sync.desired /\ deletes \subseteq files
    BY <2>b
  <2>. HIDE DEF creates, deletes
  <2>1. Types'
    BY <2>a, <2>c, <1>a DEF Types, Syncs
  <2>2. ReadsAreOld'
    BY <2>a, <1>a DEF Types, Syncs, ReadsAreOld, OnePerPath, TreeFiles
  <2>3. itemFaults' = 0 => OnePerPath(files)' /\ LastIsThere'
    BY <2>a, <1>a DEF Types, Syncs, OnePerPath, LastIsThere
  <2>4. ASSUME itemFaults = 0
        PROVE  deletes = files \ sync.desired /\ creates = sync.desired \ files
    <3>1. \A f \in files : f \in FileRows /\ f # None /\ f.path \in Paths
      BY <1>a, NoneIsNoRow DEF Types, FileRows
    <3>2. \A f \in files : row[f.path] = f
      BY <3>1, <2>0, <1>a, <2>4 DEF OnePerPath
    <3>3. \A d \in sync.desired : row[d.path] # None => row[d.path] \in files /\ row[d.path].path = d.path
      BY <2>0, <2>b
    <3>4. \A d \in sync.desired : d \in files <=> row[d.path] # None /\ row[d.path].blob = d.blob
      BY <3>1, <3>2, <3>3, <2>b, <1>a DEF FileRows
    <3>5. creates = sync.desired \ files
      BY <3>4 DEF creates
    <3>6. \A f \in files : f \in deletes <=> f \notin sync.desired
      BY <3>1, <3>2, <3>3, <3>4, <2>b, <1>a DEF deletes, ReadsAreOld, OnePerPath
    <3>. QED BY <3>5, <3>6, <2>c
  <2>5. itemFaults' = 0 => WorkIsRight'
    BY <2>4, <2>a, <1>a, NoneIsNoRow DEF Types, Syncs, WorkIsRight
  <2>. QED BY <2>1, <2>2, <2>3, <2>5 DEF IInv
<1>6. CASE DeleteObject
  <2>1. Types'
    BY <1>6, <1>a, NoneIsNoRow DEF DeleteObject, Types, Syncs
  <2>2. ReadsAreOld'
    BY <1>6, <1>a, NoneIsNoRow DEF DeleteObject, Types, Syncs, ReadsAreOld, OnePerPath, TreeFiles
  <2>3. itemFaults' = 0 => OnePerPath(files)' /\ LastIsThere'
    BY <1>6, <1>a, NoneIsNoRow DEF DeleteObject, Types, Syncs, ReadsAreOld, OnePerPath, LastIsThere, WorkIsRight, TreeFiles
  <2>4. itemFaults' = 0 => WorkIsRight'
    BY <1>6, <1>a, NoneIsNoRow DEF DeleteObject, Types, Syncs, ReadsAreOld, OnePerPath, WorkIsRight
  <2>. QED BY <2>1, <2>2, <2>3, <2>4 DEF IInv
<1>7. CASE DeleteRow
  <2>1. Types'
    BY <1>7, <1>a, NoneIsNoRow DEF DeleteRow, ItemFault, Types, Syncs
  <2>2. ReadsAreOld'
    BY <1>7, <1>a, NoneIsNoRow DEF DeleteRow, ItemFault, Types, Syncs, ReadsAreOld, OnePerPath, TreeFiles
  <2>3. itemFaults' = 0 => OnePerPath(files)' /\ LastIsThere'
    BY <1>7, <1>a, NoneIsNoRow DEF DeleteRow, ItemFault, Types, Syncs, ReadsAreOld, OnePerPath, LastIsThere, WorkIsRight, TreeFiles
  <2>4. itemFaults' = 0 => WorkIsRight'
    BY <1>7, <1>a, NoneIsNoRow DEF DeleteRow, ItemFault, Types, Syncs, ReadsAreOld, OnePerPath, WorkIsRight
  <2>. QED BY <2>1, <2>2, <2>3, <2>4 DEF IInv
<1>8. CASE StoreObject
  <2>0. PICK f \in sync.toCreate :
          \/ /\ sync' = [sync EXCEPT !.pc = "create", !.toCreate = sync.toCreate \ {f}, !.item = f]
             /\ itemFaults' = itemFaults
          \/ /\ sync' = [sync EXCEPT !.toCreate = sync.toCreate \ {f}]
             /\ itemFaults' = itemFaults + 1
    BY <1>8 DEF StoreObject, ItemFault
  <2>a. /\ sync.pc = "delete" /\ sync.toDelete = {} /\ sync.item = None
        /\ UNCHANGED <<head, tree, files, queued, src>>
    BY <1>8 DEF StoreObject
  <2>b. f \in FileRows /\ f # None
    BY <1>a, NoneIsNoRow DEF Types, Syncs
  <2>1. CASE sync' = [sync EXCEPT !.pc = "create", !.toCreate = sync.toCreate \ {f}, !.item = f]
             /\ itemFaults' = itemFaults
    <3>0. /\ sync'.pc = "create" /\ sync'.item = f /\ sync'.toCreate = sync.toCreate \ {f}
          /\ sync'.desired = sync.desired /\ sync'.toDelete = {} /\ sync'.last = sync.last
          /\ sync'.commit = sync.commit /\ sync' \in Syncs
      BY <2>1, <2>a, <2>b, <1>a DEF Types, Syncs
    <3>1. Types'
      BY <3>0, <2>1, <2>a, <2>b, <1>a DEF Types
    <3>2. ReadsAreOld'
      BY <3>0, <2>a, <1>a DEF ReadsAreOld, TreeFiles
    <3>3. itemFaults' = 0 => OnePerPath(files)' /\ LastIsThere' /\ WorkIsRight'
      <4>. SUFFICES ASSUME itemFaults = 0 PROVE OnePerPath(files)' /\ LastIsThere' /\ WorkIsRight'
        BY <2>1
      <4>1. files \cup sync.toCreate = sync.desired
        BY <1>a, <2>a, NoneIsNoRow DEF WorkIsRight, Types
      <4>. QED BY <4>1, <3>0, <2>0, <2>a, <2>b, <1>a DEF LastIsThere, WorkIsRight, OnePerPath
    <3>. QED BY <3>1, <3>2, <3>3 DEF IInv
  <2>2. CASE sync' = [sync EXCEPT !.toCreate = sync.toCreate \ {f}] /\ itemFaults' = itemFaults + 1
    <3>0. /\ sync'.pc = "delete" /\ sync'.item = None
          /\ sync'.desired = sync.desired /\ sync'.last = sync.last
          /\ sync'.commit = sync.commit /\ sync' \in Syncs
      BY <2>2, <2>a, <1>a DEF Types, Syncs
    <3>1. Types' /\ itemFaults' # 0
      BY <3>0, <2>2, <2>a, <1>a DEF Types
    <3>2. ReadsAreOld'
      BY <3>0, <2>a, <1>a DEF ReadsAreOld, TreeFiles
    <3>. QED BY <3>1, <3>2 DEF IInv
  <2>. QED BY <2>0, <2>1, <2>2
<1>9. CASE CreateRow
  <2>a. /\ sync.pc = "create" /\ UNCHANGED <<head, tree, src, queued>>
        /\ \/ /\ sync' = [sync EXCEPT !.pc = "enqueue"]
              /\ files' = files \cup {sync.item} /\ itemFaults' = itemFaults
           \/ /\ sync' = [sync EXCEPT !.pc = "delete", !.item = None]
              /\ files' = files /\ itemFaults' = itemFaults + 1
    BY <1>9 DEF CreateRow, ItemFault
  <2>b. sync.item \in FileRows
    BY <2>a, <1>a DEF Types, Syncs
  <2>c. /\ \/ sync'.pc = "enqueue" /\ sync'.item = sync.item
           \/ sync'.pc = "delete" /\ sync'.item = None
        /\ sync'.toCreate = sync.toCreate /\ sync'.desired = sync.desired
        /\ sync'.toDelete = sync.toDelete /\ sync'.last = sync.last
        /\ sync'.commit = sync.commit /\ sync' \in Syncs
    BY <2>a, <1>a DEF Types, Syncs
  <2>n. itemFaults \in Nat
    BY <1>a DEF Types
  <2>o. itemFaults' = 0 =>
          sync' = [sync EXCEPT !.pc = "enqueue"] /\ files' = files \cup {sync.item} /\ itemFaults = 0
    BY <2>a, <2>n
  <2>d. /\ itemFaults' \in Nat /\ (itemFaults' = 0 => itemFaults = 0)
        /\ itemFaults' = 0 => sync'.pc = "enqueue" /\ sync'.item = sync.item /\ files' = files \cup {sync.item}
        /\ sync'.pc = "enqueue" => files' = files \cup {sync.item}
        /\ files \subseteq files' /\ files' \subseteq files \cup {sync.item}
    <3>1. itemFaults' \in Nat /\ (itemFaults' = 0 => itemFaults = 0)
      BY <2>a, <2>n
    <3>2. itemFaults' = 0 => sync'.pc = "enqueue" /\ sync'.item = sync.item /\ files' = files \cup {sync.item}
      BY <2>o, <1>a DEF Types, Syncs
    <3>3. sync'.pc = "enqueue" => files' = files \cup {sync.item}
      BY <2>a, <1>a DEF Types, Syncs
    <3>4. files \subseteq files' /\ files' \subseteq files \cup {sync.item}
      BY <2>a
    <3>. QED BY <3>1, <3>2, <3>3, <3>4
  <2>e. sync.item # None
    BY <2>a, <1>a DEF Types
  <2>1. Types'
    BY <2>a, <2>b, <2>c, <2>d, <2>e, <1>a DEF Types
  <2>2. ReadsAreOld'
    BY <2>a, <2>c, <1>a DEF ReadsAreOld, TreeFiles
  <2>3. ASSUME itemFaults' = 0 PROVE OnePerPath(files)' /\ LastIsThere' /\ WorkIsRight'
    <3>1. /\ sync.item \in sync.desired /\ sync.toDelete = {}
          /\ files \cup sync.toCreate \cup {sync.item} = sync.desired
          /\ files' = files \cup {sync.item} /\ sync'.pc = "enqueue" /\ sync'.item = sync.item
      BY <2>d, <2>3, <2>a, <2>c, <1>a DEF WorkIsRight
    <3>2. WorkIsRight'
      BY <3>1, <2>c DEF WorkIsRight
    <3>3. OnePerPath(files)' /\ LastIsThere'
      BY <3>1, <2>c, <1>a DEF LastIsThere, OnePerPath, ReadsAreOld
    <3>. QED BY <3>2, <3>3
  <2>. QED BY <2>1, <2>2, <2>3 DEF IInv
<1>15. CASE Enqueue
  <2>a. /\ sync.pc = "enqueue" /\ sync' = [sync EXCEPT !.pc = "delete", !.item = None]
        /\ UNCHANGED <<head, tree, src, files>>
        /\ \/ queued' = queued \cup {sync.item} /\ itemFaults' = itemFaults
           \/ queued' = queued /\ itemFaults' = itemFaults + 1
    BY <1>15 DEF Enqueue, ItemFault
  <2>c. /\ sync'.pc = "delete" /\ sync'.item = None /\ sync'.toCreate = sync.toCreate
        /\ sync'.desired = sync.desired /\ sync'.toDelete = sync.toDelete /\ sync'.last = sync.last
        /\ sync'.commit = sync.commit /\ sync' \in Syncs
    BY <2>a, <1>a DEF Types, Syncs
  <2>1. itemFaults' \in Nat /\ (itemFaults' = 0 => itemFaults = 0 /\ queued' = queued \cup {sync.item})
    BY <2>a, <1>a DEF Types
  <2>2. ReadsAreOld'
    BY <2>a, <2>c, <1>a DEF ReadsAreOld, TreeFiles
  <2>3. ASSUME itemFaults' = 0 PROVE OnePerPath(files)' /\ LastIsThere' /\ WorkIsRight'
    <3>1. sync.toDelete = {} /\ files \cup sync.toCreate = sync.desired /\ None \notin files
      BY <2>1, <2>3, <2>a, <1>a, NoneIsNoRow DEF WorkIsRight, Types
    <3>2. WorkIsRight'
      BY <3>1, <2>a, <2>c DEF WorkIsRight
    <3>3. OnePerPath(files)' /\ LastIsThere'
      BY <2>1, <2>3, <2>a, <2>c, <1>a DEF LastIsThere, OnePerPath
    <3>. QED BY <3>2, <3>3
  <2>4. sync.item \in files
    BY <2>a, <1>a DEF Types
  <2>5. Types'
    BY <2>a, <2>c, <2>1, <2>4, <1>a DEF Types
  <2>. QED BY <2>1, <2>2, <2>3, <2>5 DEF IInv
<1>10. CASE Finish
  <2>1. Types'
    BY <1>10, <1>a, NoneIsNoRow DEF Finish, NoSync, Types, Syncs, ReadsAreOld
  <2>2. ReadsAreOld'
    BY <1>10, <1>a, NoneIsNoRow DEF Finish, NoSync, Types, Syncs, ReadsAreOld, OnePerPath, TreeFiles
  <2>3. itemFaults' = 0 => OnePerPath(files)' /\ LastIsThere'
    BY <1>10, <1>a, NoneIsNoRow DEF Finish, NoSync, Types, Syncs, ReadsAreOld, OnePerPath, LastIsThere, WorkIsRight, TreeFiles
  <2>4. itemFaults' = 0 => WorkIsRight'
    BY <1>10, <1>a, NoneIsNoRow DEF Finish, NoSync, Types, Syncs, ReadsAreOld, OnePerPath, WorkIsRight
  <2>. QED BY <2>1, <2>2, <2>3, <2>4 DEF IInv
<1>11. CASE Push
  <2>1. Types'
    BY <1>11, <1>a, NoneIsNoRow DEF Push, Types, Syncs
  <2>2. ReadsAreOld'
    BY <1>11, <1>a DEF Push, Types, Syncs, ReadsAreOld, OnePerPath, TreeFiles
  <2>3. itemFaults' = 0 => OnePerPath(files)' /\ LastIsThere'
    BY <1>11, <1>a DEF Push, Types, Syncs, ReadsAreOld, OnePerPath, LastIsThere, WorkIsRight, TreeFiles
  <2>4. itemFaults' = 0 => WorkIsRight'
    BY <1>11, <1>a DEF Push, Types, Syncs, ReadsAreOld, OnePerPath, WorkIsRight
  <2>. QED BY <2>1, <2>2, <2>3, <2>4 DEF IInv
<1>12. CASE CloneFails
  BY <1>12, AgainStep DEF CloneFails, Crash
<1>13. CASE Interrupted
  BY <1>13, AgainStep DEF Interrupted, Crash
<1>14. CASE UNCHANGED vars
  BY <1>14 DEF vars, IInv, Types, ReadsAreOld, LastIsThere, WorkIsRight, OnePerPath, TreeFiles
<1>. QED BY <1>1, <1>2, <1>3, <1>4, <1>5, <1>6, <1>7, <1>8, <1>9, <1>10, <1>11, <1>12, <1>13, <1>14, <1>15
     DEF Next, SyncStep

\* No step but a crash loses a file.
LEMMA LostStep ==
    ASSUME IInv, itemFaults = 0, CrashesLose, [Next]_vars, itemFaults' = 0
    PROVE  CrashesLose'
<1>. USE DEF remote, bounds, At
<1>a. Types /\ sync \in Syncs
  BY DEF IInv, Types
<1>1. ASSUME crashes' = crashes, Lost' \subseteq Lost PROVE CrashesLose'
  BY <1>1, FS_Subset, FS_CardinalityType DEF CrashesLose
<1>2. ASSUME crashes' = crashes, UNCHANGED <<files, queued>>, sync.pc # "enqueue", sync'.pc # "enqueue"
      PROVE  CrashesLose'
  BY <1>1, <1>2 DEF Lost, Unprocessed
<1>3. CASE Again /\ Crash /\ UNCHANGED <<files, queued>>
  <2>1. Lost' \subseteq Lost \cup {sync.item} /\ sync'.pc # "enqueue" /\ crashes' = crashes + 1
    BY <1>3 DEF Again, NoSync, Crash, Lost, Unprocessed
  <2>2. /\ IsFiniteSet(Lost \cup {sync.item})
        /\ Cardinality(Lost) \in Nat /\ Cardinality(Lost \cup {sync.item}) <= Cardinality(Lost) + 1
    BY FS_AddElement, FS_CardinalityType DEF CrashesLose
  <2>3. IsFiniteSet(Lost') /\ Cardinality(Lost') <= Cardinality(Lost \cup {sync.item}) /\ Cardinality(Lost') \in Nat
    BY <2>1, <2>2, FS_Subset, FS_CardinalityType
  <2>. QED BY <2>1, <2>2, <2>3, FS_CardinalityType DEF CrashesLose
<1>4. CASE CloneFails \/ Interrupted
  BY <1>3, <1>4 DEF CloneFails, Interrupted
<1>5. CASE Trigger \/ MarkSyncing \/ Clone \/ Unchanged \/ Finish
  <2>1. UNCHANGED <<files, queued, crashes>> /\ sync.pc # "enqueue"
    BY <1>5 DEF Trigger, MarkSyncing, Clone, Unchanged, Finish
  <2>2. sync'.pc # "enqueue"
    <3>1. CASE Trigger \/ Unchanged \/ Finish
      BY <3>1 DEF Trigger, Unchanged, Finish, NoSync
    <3>2. CASE MarkSyncing \/ Clone
      BY <3>2, <1>a DEF MarkSyncing, Clone, Syncs
    <3>. QED BY <1>5, <3>1, <3>2
  <2>. QED BY <1>2, <2>1, <2>2
<1>6. CASE Reconcile
  <2>1. sync.pc = "compare" /\ sync'.pc = "delete" /\ UNCHANGED <<files, queued, crashes>>
    BY <1>6, <1>a DEF Reconcile, Syncs
  <2>. QED BY <1>2, <2>1
<1>7. CASE DeleteObject
  BY <1>2, <1>7, <1>a DEF DeleteObject, Syncs
<1>8. CASE DeleteRow
  <2>1. Lost' \subseteq Lost /\ crashes' = crashes
    BY <1>8, <1>a DEF DeleteRow, ItemFault, Lost, Unprocessed, Syncs
  <2>. QED BY <1>1, <2>1
<1>9. CASE StoreObject
  <2>1. sync.pc = "delete" /\ sync'.pc # "enqueue" /\ UNCHANGED <<files, queued, crashes>>
    BY <1>9, <1>a DEF StoreObject, ItemFault, Syncs
  <2>. QED BY <1>2, <2>1
<1>10. CASE CreateRow
  <2>1. Lost' \subseteq Lost /\ crashes' = crashes
    BY <1>10, <1>a DEF CreateRow, ItemFault, Lost, Unprocessed, Syncs
  <2>. QED BY <1>1, <2>1
<1>11. CASE Enqueue
  <2>1. /\ sync.pc = "enqueue" /\ sync'.pc = "delete" /\ UNCHANGED <<files, crashes>>
        /\ queued' = queued \cup {sync.item}
    BY <1>11, <1>a DEF Enqueue, ItemFault, Syncs
  <2>2. Lost' \subseteq Lost
    BY <2>1 DEF Lost, Unprocessed
  <2>. QED BY <1>1, <2>1, <2>2
<1>12. CASE Push
  BY <1>1, <1>12 DEF Push, Lost, Unprocessed
<1>13. CASE UNCHANGED vars
  BY <1>1, <1>13 DEF vars, Lost, Unprocessed
<1>. QED BY <1>4, <1>5, <1>6, <1>7, <1>8, <1>9, <1>10, <1>11, <1>12, <1>13 DEF Next, SyncStep

\* A single file that failed once stays a failure.
LEMMA FaultsStay == IInv /\ [Next]_vars => (itemFaults' = 0 => itemFaults = 0)
<1>. SUFFICES ASSUME IInv, [Next]_vars PROVE itemFaults' \in {itemFaults, itemFaults + 1}
  BY DEF IInv, Types
<1>1. CASE DeleteRow \/ StoreObject \/ CreateRow \/ Enqueue
  BY <1>1 DEF DeleteRow, StoreObject, CreateRow, Enqueue, ItemFault, bounds
<1>2. CASE Trigger \/ MarkSyncing \/ Clone \/ Unchanged \/ Reconcile \/ DeleteObject \/ Finish
  BY <1>2 DEF Trigger, MarkSyncing, Clone, Unchanged, Reconcile, DeleteObject, Finish, bounds
<1>3. CASE CloneFails \/ Interrupted \/ Push \/ UNCHANGED vars
  BY <1>3 DEF CloneFails, Interrupted, Push, Crash, vars, bounds
<1>. QED BY <1>1, <1>2, <1>3 DEF Next, SyncStep

\* Every sync that ends well leaves the files of the commit it cloned, all but
\* one per crash with their task, unless a single file failed
\* (FilesAreThoseOfTheCommit).
THEOREM SyncsAreComplete == Spec => FilesAreThoseOfTheCommit
<1>. DEFINE Kept == itemFaults = 0 => CrashesLose
<1>1. IInv /\ Kept /\ [Next]_vars =>
        ((Finish \/ Unchanged) /\ itemFaults = 0 =>
           files = sync.desired /\ Cardinality(Unprocessed) <= crashes)
  BY NoneIsNoRow DEF IInv, Finish, Unchanged, At, LastIsThere, WorkIsRight, Types, CrashesLose, Lost
<1>2. Init => Kept
  <2>. SUFFICES ASSUME Init PROVE CrashesLose
    OBVIOUS
  <2>1. Lost = {} /\ crashes = 0
    BY DEF Init, Lost, Unprocessed
  <2>. QED BY <2>1, FS_EmptySet DEF CrashesLose
<1>3. IInv /\ Kept /\ [Next]_vars => Kept'
  BY LostStep, FaultsStay
<1>. QED BY InitInv, Inductive, <1>1, <1>2, <1>3, PTL DEF Spec, FilesAreThoseOfTheCommit

\* A task has been retried for a crash each time, so one that gives up has had
\* more crashes than it has retries.
RetriesAreForCrashes ==
    /\ stored \subseteq FileRows /\ crashes \in Nat
    /\ sync.retried \in 0 .. MaxRetry /\ sync.retried <= crashes
    /\ SyncingIsAtWork

LEMMA RetriesStep ==
    ASSUME IInv, RetriesAreForCrashes, [Next]_vars PROVE RetriesAreForCrashes'
<1>. USE GitAssumption DEF GitAssumption, remote, bounds, At, RetriesAreForCrashes, SyncingIsAtWork
<1>0. sync \in Syncs /\ src \in [status : {"active", "syncing", "error"}, last : Nat] /\ Types
  BY DEF IInv, Types
<1>1. ASSUME Again, Crash, stored' = stored, src'.status \in {src.status, "error"}
      PROVE  RetriesAreForCrashes'
  <2>1. crashes' = crashes + 1
    BY <1>1 DEF Crash
  <2>2. CASE sync.retried < MaxRetry
    <3>1. sync'.pc = "start" /\ sync'.retried = sync.retried + 1
      BY <1>1, <2>2 DEF Again, NoSync
    <3>. QED BY <1>1, <2>1, <2>2, <3>1
  <2>3. CASE ~(sync.retried < MaxRetry)
    <3>1. sync'.retried = 0
      BY <1>1, <2>3 DEF Again, NoSync
    <3>2. crashes' > MaxRetry
      BY <2>1, <2>3
    <3>. QED BY <1>1, <2>1, <3>1, <3>2
  <2>. QED BY <2>2, <2>3
<1>2. CASE CloneFails \/ Interrupted
  BY <1>0, <1>1, <1>2 DEF CloneFails, Interrupted
<1>3. CASE Trigger
  BY <1>3 DEF Trigger, NoSync
<1>4. CASE MarkSyncing
  BY <1>0, <1>4 DEF MarkSyncing, Syncs
<1>5. CASE Clone \/ Reconcile
  BY <1>0, <1>5 DEF Clone, Reconcile, Syncs
<1>6. CASE Unchanged \/ Finish
  BY <1>0, <1>6 DEF Unchanged, Finish, NoSync
<1>7. CASE DeleteObject
  BY <1>0, <1>7 DEF DeleteObject, Syncs
<1>8. CASE DeleteRow
  BY <1>0, <1>8 DEF DeleteRow, ItemFault, Syncs
<1>9. CASE StoreObject
  <2>1. PICK f \in sync.toCreate :
           \/ /\ sync' = [sync EXCEPT !.pc = "create", !.toCreate = @ \ {f}, !.item = f]
              /\ stored' = stored \cup {f}
              /\ UNCHANGED crashes
           \/ /\ sync' = [sync EXCEPT !.toCreate = @ \ {f}]
              /\ UNCHANGED <<stored, crashes>>
    BY <1>9 DEF StoreObject, ItemFault
  <2>2. f \in FileRows /\ sync.pc = "delete" /\ src' = src
    BY <1>0, <1>9 DEF StoreObject, Syncs
  <2>. QED BY <1>0, <2>1, <2>2 DEF Syncs
<1>10. CASE CreateRow \/ Enqueue
  BY <1>0, <1>10 DEF CreateRow, Enqueue, ItemFault, Syncs
<1>11. CASE Push
  BY <1>11 DEF Push
<1>12. CASE UNCHANGED vars
  BY <1>12 DEF vars
<1>. QED BY <1>2, <1>3, <1>4, <1>5, <1>6, <1>7, <1>8, <1>9, <1>10, <1>11, <1>12 DEF Next, SyncStep

\* The variables keep their types, and while a task has retries left, 'syncing'
\* is the state of a source whose task is at work (GitInv).
THEOREM SourcesAreNotStuck == Spec => []GitInv
<1>1. Init => RetriesAreForCrashes
  BY GitAssumption DEF GitAssumption, Init, RetriesAreForCrashes, SyncingIsAtWork, NoSync, FileRows
<1>2. IInv /\ RetriesAreForCrashes => GitInv
  BY DEF IInv, Types, RetriesAreForCrashes, GitInv, TypeOK, FileRows
<1>. QED BY InitInv, Inductive, RetriesStep, <1>1, <1>2, PTL DEF Spec

-----------------------------------------------------------------------------
(* Confluence.                                                             *)

Ids == Pages \X Nat \X Workers \X Nat
PageRows == [page : Pages, created : Nat, status : {"pending", "ready", "error"}, task : BOOLEAN, id : Ids]

Sizes == Nat \cup {Cardinality(rows) : rows \in SUBSET PageRows}

Importing == {"import", "create", "enqueue"}

Tasks == [pc : {"idle", "start", "list", "files", "delete", "mark", "write"} \cup Importing,
          retried : 0 .. MaxTaskRetry, failures : Nat, listed : [Pages -> Nat], undated : SUBSET Pages,
          existing : SUBSET PageRows, todo : SUBSET Pages, page : Pages \cup {NoPage},
          row : Ids \cup {NoPage}, blank : SUBSET Pages,
          ok : Nat, clean : BOOLEAN, total : Sizes, done : Sizes]

\* The id of a file begins with its page.
RowTypes(rows) == \A f \in rows : f \in PageRows /\ f.id[1] = f.page

TaskTypes(t) ==
    /\ t \in Tasks /\ RowTypes(t.existing)
    /\ t.pc \notin Importing => t.todo = {}
    /\ t.pc \notin Importing \cup {"write"} => t.blank = {}
    /\ t.pc \in {"create", "enqueue"} <=> t.page # NoPage
    /\ t.page \notin t.todo

SpaceTypes ==
    /\ clock \in Nat \ {0} /\ space \in [Pages -> 0 .. clock] /\ pageSyncs \in Nat
    /\ RowTypes(pageFiles) /\ \A f \in pageFiles : f.created \in 1 .. clock
    /\ source \in [status : Statuses, pageCount : Nat, failures : Nat]
    /\ tasks \in [Workers -> Tasks]
    /\ \A w \in Workers : TaskTypes(tasks[w])

\* What is counted is a part of the pages.
TaskCounts(t) ==
    /\ t.pc \notin Importing \cup {"write"} => t.ok = 0
    /\ t.ok + Cardinality((t.todo \cup {t.page}) \ {NoPage}) <= Cardinality(Pages)

CountsFit ==
    /\ source.pageCount <= Cardinality(Pages)
    /\ \A w \in Workers : TaskCounts(tasks[w])

NoFile(p) == \A f \in pageFiles : f.page # p
OneFile(p) == \A f, g \in pageFiles : f.page = p /\ g.page = p => f = g
Outdated(p, version) == \E f \in pageFiles : f.page = p /\ f.created < version

\* A page that has two files has an old one, by which the next sync finds it.
DoublesAreFound(p) == OneFile(p) \/ space[p] = 0 \/ Outdated(p, space[p])

\* The rows a sync has read are those of the page, whatever became of their tasks.
SameRows(w, p) ==
    /\ \A f \in pageFiles : f.page = p =>
          \E g \in tasks[w].existing : g.page = p /\ g.id = f.id /\ g.created = f.created
    /\ \A g \in tasks[w].existing : g.page = p =>
          \E f \in pageFiles : f.page = p /\ g.id = f.id /\ g.created = f.created

HasList(w) == tasks[w].pc \in {"files", "delete", "mark", "write"} \cup Importing

\* The sync has yet to decide about the page.
Untouched(w, p) ==
    \/ tasks[w].pc \in {"files", "delete"}
    \/ tasks[w].pc = "mark" /\ tasks[w].listed[p] # 0
    \/ tasks[w].pc \in Importing /\ p \in tasks[w].todo

\* It has fetched the page and not written its file yet.
InHand(w, p) == tasks[w].pc = "create" /\ tasks[w].page = p

\* It is done with a page it listed.
Imported(w, p) ==
    /\ tasks[w].pc \in Importing \cup {"write"}
    /\ tasks[w].listed[p] # 0 /\ p \notin tasks[w].todo /\ ~InHand(w, p)

PageIsFine(w, p) ==
    LET t == tasks[w]
    IN  /\ HasList(w) => t.listed[p] <= clock /\ (space[p] = 0 \/ t.listed[p] <= space[p])
        /\ p \in t.todo => t.listed[p] # 0
        /\ p \in t.blank => t.listed[p] # 0 /\ p \notin t.todo /\ p # t.page
        /\ Untouched(w, p) => OneFile(p) \/ t.listed[p] = 0 \/ Outdated(p, t.listed[p])
        /\ Untouched(w, p) /\ t.pc # "files" => SameRows(w, p)
        /\ InHand(w, p) => /\ t.listed[p] # 0
                           /\ NoFile(p) \/ Outdated(p, t.listed[p])
                           /\ t.clean => NoFile(p)
        /\ t.clean /\ t.pc \in {"mark", "write"} \cup Importing /\ t.listed[p] = 0 => NoFile(p)
        /\ t.clean /\ Imported(w, p) =>
             /\ NoFile(p) <=> p \in t.blank
             /\ p \notin t.undated => OneFile(p) /\ ~Outdated(p, t.listed[p])

\* Two syncs of one source at a time are no part of the promise: the second reads
\* the rows the first is about to replace.
OneWorker == \A v, w \in Workers : v = w

-----------------------------------------------------------------------------
LEMMA TaskUpdate ==
    ASSUME SpaceTypes, NEW w \in Workers, NEW t, tasks' = [tasks EXCEPT ![w] = t]
    PROVE  tasks'[w] = t /\ \A v \in Workers \ {w} : tasks'[v] = tasks[v]
BY DEF SpaceTypes

LEMMA NoTaskType ==
    /\ NoTask \in Tasks /\ NoTask.pc = "idle" /\ NoTask.existing = {} /\ NoTask.todo = {}
    /\ NoTask.page = NoPage /\ NoTask.ok = 0 /\ NoTask.blank = {}
BY SpaceAssumption DEF SpaceAssumption, NoTask, Tasks, Sizes

\* A task that is over, or that begins again.
LEMMA AgainType ==
    ASSUME SpaceTypes, NEW w \in Workers, TaskAgain(w)
    PROVE  \E t \in Tasks : /\ tasks' = [tasks EXCEPT ![w] = t]
                            /\ t.pc \in {"idle", "start"} /\ t.existing = {} /\ t.todo = {}
                            /\ t.page = NoPage /\ t.ok = 0 /\ t.blank = {}
<1>1. tasks[w] \in Tasks
  BY DEF SpaceTypes
<1>2. CASE tasks[w].retried < MaxTaskRetry
  <2>. DEFINE t == [NoTask EXCEPT !.pc = "start", !.retried = tasks[w].retried + 1]
  <2>1. tasks' = [tasks EXCEPT ![w] = t]
    BY <1>2 DEF TaskAgain
  <2>2. tasks[w].retried + 1 \in 0 .. MaxTaskRetry
    BY <1>1, <1>2, SpaceAssumption DEF Tasks, SpaceAssumption
  <2>3. t \in Tasks /\ t.pc = "start" /\ t.existing = {} /\ t.todo = {} /\ t.page = NoPage
        /\ t.ok = 0 /\ t.blank = {}
    BY <2>2, NoTaskType DEF Tasks
  <2>. QED BY <2>1, <2>3
<1>3. CASE ~(tasks[w].retried < MaxTaskRetry)
  BY <1>3, NoTaskType DEF TaskAgain
<1>. QED BY <1>2, <1>3

LEMMA TypesOfTasks ==
    ASSUME SpaceTypes, NEW w \in Workers, NEW t, tasks' = [tasks EXCEPT ![w] = t], TaskTypes(t),
           UNCHANGED <<clock, space>>, pageSyncs' \in Nat,
           RowTypes(pageFiles'), \A f \in pageFiles' : f.created \in 1 .. clock,
           source' \in [status : Statuses, pageCount : Nat, failures : Nat]
    PROVE  SpaceTypes'
<1>1. tasks' \in [Workers -> Tasks]
  BY DEF SpaceTypes, TaskTypes
<1>2. \A v \in Workers : tasks'[v] = IF v = w THEN t ELSE tasks[v]
  BY TaskUpdate
<1>. QED BY <1>1, <1>2 DEF SpaceTypes, TaskTypes, RowTypes

\* The fields of a task that has fetched a page.
FetchedTask(w, p, deleted, body, t) ==
    /\ t \in Tasks /\ t.pc = (IF body = "text" THEN "create" ELSE "import")
    /\ t.todo = tasks[w].todo \ {p} /\ t.page = (IF body = "text" THEN p ELSE NoPage)
    /\ t.blank = (IF body = "empty" THEN tasks[w].blank \cup {p} ELSE tasks[w].blank)
    /\ t.ok = (IF body = "empty" THEN tasks[w].ok + 1 ELSE tasks[w].ok)
    /\ t.clean = (IF deleted /\ body # "none" THEN tasks[w].clean ELSE FALSE)
    /\ t.listed = tasks[w].listed /\ t.undated = tasks[w].undated /\ t.existing = tasks[w].existing

LEMMA FetchedFields ==
    ASSUME NEW w \in Workers, tasks[w] \in Tasks, NEW p \in Pages, NEW deleted \in BOOLEAN,
           NEW body \in {"text", "empty", "none"}
    PROVE  FetchedTask(w, p, deleted, body, Fetched(w, p, deleted, body))
<1>. DEFINE pc == IF body = "text" THEN "create" ELSE "import"
            todo == tasks[w].todo \ {p}
            page == IF body = "text" THEN p ELSE NoPage
            blank == IF body = "empty" THEN tasks[w].blank \cup {p} ELSE tasks[w].blank
            ok == IF body = "empty" THEN tasks[w].ok + 1 ELSE tasks[w].ok
            clean == IF deleted /\ body # "none" THEN tasks[w].clean ELSE FALSE
            u == [tasks[w] EXCEPT !.pc = pc, !.todo = todo, !.page = page, !.blank = blank,
                                  !.ok = ok, !.clean = clean]
<1>0. /\ tasks[w].ok \in Nat /\ tasks[w].clean \in BOOLEAN
      /\ tasks[w].todo \subseteq Pages /\ tasks[w].blank \subseteq Pages
  BY DEF Tasks
<1>1. pc \in {"create", "import"}
  OBVIOUS
<1>2. todo \in SUBSET Pages /\ page \in Pages \cup {NoPage}
  BY <1>0
<1>3. blank \in SUBSET Pages
  BY <1>0
<1>4. ok \in Nat /\ clean \in BOOLEAN
  <2>1. ok \in Nat
    BY <1>0
  <2>2. clean \in BOOLEAN
    BY Zenon, <1>0
  <2>. QED BY <2>1, <2>2
<1>5. Fetched(w, p, deleted, body) = u
  BY DEF Fetched
<1>. HIDE DEF pc, todo, page, blank, ok, clean
<1>6. /\ u \in Tasks /\ u.pc = pc /\ u.todo = todo /\ u.page = page /\ u.blank = blank
      /\ u.ok = ok /\ u.clean = clean /\ u.listed = tasks[w].listed
      /\ u.undated = tasks[w].undated /\ u.existing = tasks[w].existing
  BY <1>1, <1>2, <1>3, <1>4 DEF Tasks, Importing
<1>. HIDE DEF u
<1>. QED BY <1>5, <1>6 DEF FetchedTask, pc, todo, page, blank, ok, clean

LEMMA NoTaskFits ==
    ASSUME NEW t \in Tasks, t.pc \in {"idle", "start"}, t.existing = {}, t.todo = {}, t.page = NoPage,
           t.blank = {}
    PROVE  TaskTypes(t)
BY DEF TaskTypes, RowTypes, Importing

\* Rows that go, and rows that change their status.
LEMMA FewerRows ==
    ASSUME SpaceTypes, pageFiles' \subseteq pageFiles
    PROVE  RowTypes(pageFiles') /\ \A f \in pageFiles' : f.created \in 1 .. clock
BY DEF SpaceTypes, RowTypes

LEMMA TypesStep == ASSUME SpaceTypes, [SpaceNext]_spaceVars PROVE SpaceTypes'
<1>. USE SpaceAssumption DEF SpaceAssumption, TaskAt, NoFault, Fault, Importing
<1>0. /\ \A w \in Workers : TaskTypes(tasks[w])
      /\ RowTypes(pageFiles) /\ \A f \in pageFiles : f.created \in 1 .. clock
      /\ source \in [status : Statuses, pageCount : Nat, failures : Nat] /\ pageSyncs \in Nat
      /\ clock \in Nat \ {0} /\ space \in [Pages -> 0 .. clock]
  BY DEF SpaceTypes, TaskTypes
<1>1. ASSUME NEW w \in Workers, TriggerSync(w) PROVE SpaceTypes'
  <2>. DEFINE t == [tasks[w] EXCEPT !.pc = "start"]
  <2>1. tasks' = [tasks EXCEPT ![w] = t]
    BY <1>1 DEF TriggerSync, GoTo
  <2>2. TaskTypes(t)
    BY <1>0, <1>1 DEF TriggerSync, TaskTypes, Tasks
  <2>. HIDE DEF t
  <2>3. pageSyncs' \in Nat
    BY <1>0, <1>1 DEF TriggerSync
  <2>. QED BY <1>0, <1>1, <2>1, <2>2, <2>3, TypesOfTasks DEF TriggerSync
<1>2. ASSUME NEW w \in Workers, ReadSource(w) PROVE SpaceTypes'
  <2>1. CASE source.status = "paused"
    <3>1. tasks' = [tasks EXCEPT ![w] = NoTask]
      BY <1>2, <2>1 DEF ReadSource
    <3>. QED BY <1>0, <1>2, <3>1, NoTaskType, NoTaskFits, TypesOfTasks DEF ReadSource
  <2>2. CASE source.status # "paused"
    <3>. DEFINE t == [tasks[w] EXCEPT !.pc = "list", !.failures = source.failures]
    <3>1. tasks' = [tasks EXCEPT ![w] = t]
      BY <1>2, <2>2 DEF ReadSource
    <3>2. TaskTypes(t)
      BY ZenonT(60), <1>0, <1>2 DEF ReadSource, TaskTypes, Tasks
    <3>. HIDE DEF t
    <3>. QED BY <1>0, <1>2, <3>1, <3>2, TypesOfTasks DEF ReadSource
  <2>. QED BY <2>1, <2>2
<1>3. ASSUME NEW w \in Workers, ListPages(w) PROVE SpaceTypes'
  <2>0. PICK undated \in SUBSET Pages :
           tasks' = [tasks EXCEPT ![w].pc = "files", ![w].listed = space, ![w].undated = undated]
    BY <1>3 DEF ListPages
  <2>. DEFINE t == [tasks[w] EXCEPT !.pc = "files", !.listed = space, !.undated = undated]
  <2>1. tasks' = [tasks EXCEPT ![w] = t]
    BY <2>0
  <2>2. space \in [Pages -> Nat] /\ tasks[w] \in Tasks
    BY <1>0 DEF TaskTypes
  <2>3. TaskTypes(t)
    BY <1>0, <1>3, <2>2 DEF ListPages, TaskTypes, Tasks
  <2>. HIDE DEF t
  <2>. QED BY <1>0, <1>3, <2>1, <2>3, TypesOfTasks DEF ListPages
<1>4. ASSUME NEW w \in Workers, ListFails(w) PROVE SpaceTypes'
  <2>1. PICK t \in Tasks : /\ tasks' = [tasks EXCEPT ![w] = t]
                           /\ t.pc \in {"idle", "start"} /\ t.existing = {} /\ t.todo = {}
                           /\ t.page = NoPage /\ t.ok = 0 /\ t.blank = {}
    BY <1>4, AgainType DEF ListFails
  <2>2. tasks[w].failures + 1 \in Nat
    BY <1>0 DEF TaskTypes, Tasks
  <2>3. source' \in [status : Statuses, pageCount : Nat, failures : Nat]
    BY <1>4, <2>2 DEF ListFails, Statuses
  <2>. QED BY <1>0, <1>4, <2>1, <2>3, NoTaskFits, TypesOfTasks DEF ListFails
<1>5. ASSUME NEW w \in Workers, ReadFiles(w) PROVE SpaceTypes'
  <2>. DEFINE t == [tasks[w] EXCEPT !.pc = "delete", !.existing = pageFiles]
  <2>1. tasks' = [tasks EXCEPT ![w] = t]
    BY <1>5 DEF ReadFiles
  <2>2. t.existing = pageFiles /\ pageFiles \subseteq PageRows /\ tasks[w] \in Tasks
    BY <1>0 DEF RowTypes, TaskTypes, Tasks
  <2>3. TaskTypes(t)
    BY <1>0, <1>5, <2>2 DEF ReadFiles, TaskTypes, Tasks
  <2>. HIDE DEF t
  <2>. QED BY <1>0, <1>5, <2>1, <2>3, TypesOfTasks DEF ReadFiles
<1>6. ASSUME NEW w \in Workers, DeleteRemoved(w) PROVE SpaceTypes'
  <2>1. PICK clean \in BOOLEAN : tasks' = [tasks EXCEPT ![w] = [tasks[w] EXCEPT !.pc = "mark", !.clean = clean]]
    <3>1. tasks[w].clean \in BOOLEAN /\ [tasks[w] EXCEPT !.pc = "mark"]
                                        = [tasks[w] EXCEPT !.pc = "mark", !.clean = tasks[w].clean]
      BY <1>0 DEF TaskTypes, Tasks
    <3>. QED BY ZenonT(60), <1>6, <3>1 DEF DeleteRemoved, GoTo
  <2>. DEFINE t == [tasks[w] EXCEPT !.pc = "mark", !.clean = clean]
  <2>2. TaskTypes(t)
    BY ZenonT(60), <1>0, <1>6 DEF DeleteRemoved, TaskTypes, Tasks
  <2>3. pageFiles' \subseteq pageFiles
    BY <1>6 DEF DeleteRemoved, Without
  <2>. HIDE DEF t
  <2>. QED BY <1>0, <1>6, <2>1, <2>2, <2>3, FewerRows, TypesOfTasks DEF DeleteRemoved, t
<1>7. ASSUME NEW w \in Workers, MarkSpaceSyncing(w) PROVE SpaceTypes'
  <2>. DEFINE t == [tasks[w] EXCEPT !.pc = "import", !.todo = {p \in Pages : tasks[w].listed[p] # 0}]
  <2>1. tasks' = [tasks EXCEPT ![w] = t]
    BY <1>7 DEF MarkSpaceSyncing
  <2>2. TaskTypes(t)
    BY ZenonT(60), <1>0, <1>7 DEF MarkSpaceSyncing, TaskTypes, Tasks
  <2>3. source' \in [status : Statuses, pageCount : Nat, failures : Nat]
    BY <1>0, <1>7 DEF MarkSpaceSyncing, Statuses
  <2>. HIDE DEF t
  <2>. QED BY <1>0, <1>7, <2>1, <2>2, <2>3, TypesOfTasks DEF MarkSpaceSyncing
<1>8. ASSUME NEW w \in Workers, SkipPage(w) PROVE SpaceTypes'
  <2>1. PICK p \in tasks[w].todo :
           tasks' = [tasks EXCEPT ![w] = [tasks[w] EXCEPT !.todo = tasks[w].todo \ {p}, !.ok = tasks[w].ok + 1]]
    BY <1>8 DEF SkipPage
  <2>. DEFINE t == [tasks[w] EXCEPT !.todo = tasks[w].todo \ {p}, !.ok = tasks[w].ok + 1]
  <2>2. tasks[w] \in Tasks /\ tasks[w].ok + 1 \in Nat /\ tasks[w].pc = "import" /\ tasks[w].page = NoPage
    BY <1>0, <1>8 DEF SkipPage, TaskTypes, Tasks
  <2>3. t \in Tasks
    BY <2>2 DEF Tasks
  <2>4. TaskTypes(t)
    BY <1>0, <2>2, <2>3 DEF TaskTypes, Tasks
  <2>. HIDE DEF t
  <2>. QED BY <1>0, <1>8, <2>1, <2>4, TypesOfTasks DEF SkipPage, t
<1>9. ASSUME NEW w \in Workers, FetchPage(w) PROVE SpaceTypes'
  <2>1. PICK p \in tasks[w].todo, deleted \in BOOLEAN, body \in {"text", "empty", "none"} :
           tasks' = [tasks EXCEPT ![w] = Fetched(w, p, deleted, body)]
    BY <1>9 DEF FetchPage
  <2>. DEFINE t == Fetched(w, p, deleted, body)
  <2>2. tasks[w].pc = "import" /\ tasks[w] \in Tasks /\ tasks[w].todo \subseteq Pages
    BY <1>0, <1>9 DEF FetchPage, TaskTypes, Tasks
  <2>3. TaskTypes(t)
    <3>1. p \in Pages /\ p # NoPage
      BY <2>2
    <3>0. FetchedTask(w, p, deleted, body, t)
      BY <2>1, <2>2, <3>1, FetchedFields
    <3>. HIDE DEF t
    <3>2. /\ t \in Tasks /\ t.pc = (IF body = "text" THEN "create" ELSE "import")
          /\ t.todo = tasks[w].todo \ {p} /\ t.page = (IF body = "text" THEN p ELSE NoPage)
          /\ t.existing = tasks[w].existing
      BY <3>0 DEF FetchedTask
    <3>3. RowTypes(t.existing)
      BY <1>0, <3>2 DEF TaskTypes
    <3>. QED BY <2>2, <3>1, <3>2, <3>3 DEF TaskTypes
  <2>. HIDE DEF t
  <2>4. pageFiles' \subseteq pageFiles /\ tasks' = [tasks EXCEPT ![w] = t]
    BY <1>9, <2>1 DEF FetchPage, Without, t
  <2>. QED BY <1>0, <1>9, <2>3, <2>4, FewerRows, TypesOfTasks DEF FetchPage
<1>10. ASSUME NEW w \in Workers, CreateFile(w) PROVE SpaceTypes'
  <2>. DEFINE id == <<tasks[w].page, clock, w, pageSyncs>>
              t == [tasks[w] EXCEPT !.pc = "enqueue", !.row = id]
              row == [page |-> tasks[w].page, created |-> clock, status |-> "pending", task |-> FALSE, id |-> id]
  <2>1. tasks' = [tasks EXCEPT ![w] = t] /\ tasks[w] \in Tasks /\ tasks[w].pc = "create"
        /\ pageFiles' = pageFiles \cup {row}
    BY <1>0, <1>10 DEF CreateFile, TaskTypes
  <2>2. tasks[w].page \in Pages /\ id \in Ids /\ id[1] = tasks[w].page
    BY <1>0, <2>1 DEF TaskTypes, Tasks, Ids
  <2>3. row \in PageRows /\ row.id[1] = row.page /\ row.created \in 1 .. clock
    BY <1>0, <2>2 DEF PageRows
  <2>. HIDE DEF id, row
  <2>4. TaskTypes(t)
    BY <1>0, <2>1, <2>2 DEF TaskTypes, Tasks
  <2>. HIDE DEF t
  <2>6. RowTypes(pageFiles') /\ \A f \in pageFiles' : f.created \in 1 .. clock
    BY <1>0, <2>1, <2>3 DEF RowTypes
  <2>. QED BY <1>0, <1>10, <2>1, <2>4, <2>6, TypesOfTasks DEF CreateFile
<1>18. ASSUME NEW w \in Workers, CreateFails(w) PROVE SpaceTypes'
  <2>. DEFINE t == [tasks[w] EXCEPT !.pc = "import", !.page = NoPage, !.clean = FALSE]
  <2>1. tasks' = [tasks EXCEPT ![w] = t] /\ tasks[w] \in Tasks /\ tasks[w].pc = "create"
    BY <1>0, <1>18 DEF CreateFails, TaskTypes
  <2>2. TaskTypes(t)
    BY <1>0, <2>1 DEF TaskTypes, Tasks
  <2>. HIDE DEF t
  <2>. QED BY <1>0, <1>18, <2>1, <2>2, TypesOfTasks DEF CreateFails
<1>19. ASSUME NEW w \in Workers, EnqueueFile(w) PROVE SpaceTypes'
  <2>. DEFINE t == [tasks[w] EXCEPT !.pc = "import", !.page = NoPage, !.row = NoPage, !.ok = tasks[w].ok + 1]
  <2>0. tasks' = [tasks EXCEPT ![w] = t]
    BY <1>19 DEF EnqueueFile
  <2>1. tasks[w] \in Tasks /\ tasks[w].pc = "enqueue" /\ tasks[w].ok + 1 \in Nat
    BY <1>0, <1>19 DEF EnqueueFile, TaskTypes, Tasks
  <2>2. TaskTypes(t)
    <3>1. t \in Tasks
      BY <2>1 DEF Tasks
    <3>. QED BY <1>0, <2>1, <3>1 DEF TaskTypes, Tasks
  <2>. HIDE DEF t
  <2>3. \A f \in pageFiles : LET g == [f EXCEPT !.task = TRUE]
                           IN  g \in PageRows /\ g.id = f.id /\ g.page = f.page /\ g.created = f.created
    BY <1>0 DEF RowTypes, PageRows
  <2>4. \A f \in pageFiles' : \E g \in pageFiles : f = g \/ f = [g EXCEPT !.task = TRUE]
    BY <1>19 DEF EnqueueFile
  <2>5. \A f \in pageFiles' : f \in PageRows /\ f.id[1] = f.page /\ f.created \in 1 .. clock
    <3>. TAKE f \in pageFiles'
    <3>1. PICK g \in pageFiles : f = g \/ f = [g EXCEPT !.task = TRUE]
      BY <2>4
    <3>2. f \in PageRows /\ f.id = g.id /\ f.page = g.page /\ f.created = g.created
      BY <1>0, <2>3, <3>1 DEF RowTypes
    <3>. QED BY <1>0, <3>2 DEF RowTypes
  <2>. QED BY <1>0, <1>19, <2>0, <2>1, <2>2, <2>5, TypesOfTasks DEF EnqueueFile, RowTypes
<1>11. ASSUME NEW w \in Workers, TaskInterrupted(w) PROVE SpaceTypes'
  <2>1. PICK t \in Tasks : /\ tasks' = [tasks EXCEPT ![w] = t]
                           /\ t.pc \in {"idle", "start"} /\ t.existing = {} /\ t.todo = {}
                           /\ t.page = NoPage /\ t.ok = 0 /\ t.blank = {}
    BY <1>11, AgainType DEF TaskInterrupted
  <2>. QED BY <1>0, <1>11, <2>1, NoTaskFits, TypesOfTasks DEF TaskInterrupted
<1>12. ASSUME NEW w \in Workers, CountFiles(w) PROVE SpaceTypes'
  <2>. DEFINE t == [tasks[w] EXCEPT !.pc = "write", !.total = Cardinality(pageFiles),
                                    !.done = Cardinality(pageFiles \ Waiting)]
  <2>1. tasks' = [tasks EXCEPT ![w] = t]
    BY <1>12 DEF CountFiles
  <2>2. Cardinality(pageFiles) \in Sizes /\ Cardinality(pageFiles \ Waiting) \in Sizes
    BY <1>0 DEF RowTypes, Sizes
  <2>3. tasks[w] \in Tasks /\ tasks[w].todo = {} /\ tasks[w].page = NoPage
    BY <1>0, <1>12 DEF CountFiles, TaskTypes
  <2>. DEFINE total == Cardinality(pageFiles)
              done == Cardinality(pageFiles \ Waiting)
  <2>. HIDE DEF total, done
  <2>4. t \in Tasks
    BY <2>2, <2>3 DEF Tasks, total, done
  <2>5. TaskTypes(t)
    BY <1>0, <2>3, <2>4 DEF TaskTypes, Tasks
  <2>. HIDE DEF t
  <2>. QED BY <1>0, <1>12, <2>1, <2>5, TypesOfTasks DEF CountFiles
<1>13. ASSUME NEW w \in Workers, Finalize(w) PROVE SpaceTypes'
  <2>1. tasks[w].ok \in Nat
    BY <1>0 DEF TaskTypes, Tasks
  <2>2. source' \in [status : Statuses, pageCount : Nat, failures : Nat]
    BY <1>0, <1>13, <2>1 DEF Finalize, Statuses
  <2>. QED BY <1>0, <1>13, <2>2, NoTaskType, NoTaskFits, TypesOfTasks DEF Finalize
<1>14. ASSUME NEW f \in pageFiles, ProcessFile(f) \/ SweepFile(f) PROVE SpaceTypes'
  <2>1. PICK status \in {"ready", "error"} :
            pageFiles' = (pageFiles \ {f}) \cup {[f EXCEPT !.status = status, !.task = FALSE]}
    BY <1>14 DEF ProcessFile, SweepFile
  <2>. DEFINE row == [f EXCEPT !.status = status, !.task = FALSE]
  <2>2. row \in PageRows /\ row.id = f.id /\ row.page = f.page /\ row.created = f.created
    BY <1>0 DEF RowTypes, PageRows
  <2>. HIDE DEF row
  <2>3. pageFiles' \subseteq pageFiles \cup {row}
    BY <2>1 DEF row
  <2>4. RowTypes(pageFiles') /\ \A g \in pageFiles' : g.created \in 1 .. clock
    BY <1>0, <2>2, <2>3 DEF RowTypes
  <2>5. UNCHANGED <<clock, space, source, tasks, pageSyncs>>
    BY <1>14 DEF ProcessFile, SweepFile
  <2>. QED BY <1>0, <2>4, <2>5 DEF SpaceTypes
<1>15. ASSUME NEW x \in wraps, WrapSource(x) \/ WrapProgress(x) \/ WrapWrite(x) PROVE SpaceTypes'
  <2>1. UNCHANGED <<clock, space, pageFiles, tasks, pageSyncs>>
    BY <1>15 DEF WrapSource, WrapProgress, WrapWrite
  <2>2. source' \in {source, [source EXCEPT !.status = "active", !.failures = 0]}
    BY <1>15 DEF WrapSource, WrapProgress, WrapWrite
  <2>3. "active" \in Statuses /\ 0 \in Nat
    BY DEF Statuses
  <2>4. [source EXCEPT !.status = "active", !.failures = 0] \in [status : Statuses, pageCount : Nat, failures : Nat]
    BY <1>0, <2>3
  <2>. QED BY <1>0, <2>1, <2>2, <2>4 DEF SpaceTypes, RowTypes
<1>16. ASSUME NEW p \in Pages, EditPage(p) PROVE SpaceTypes'
  <2>1. clock' = clock + 1 /\ UNCHANGED <<pageFiles, source, tasks, pageSyncs>>
    BY <1>16 DEF EditPage
  <2>2. space' \in [Pages -> 0 .. clock'] /\ clock' \in Nat \ {0}
    BY <1>0, <1>16, <2>1 DEF EditPage
  <2>3. \A n \in 1 .. clock : n \in 1 .. clock'
    BY <1>0, <2>1
  <2>. QED BY <2>1, <2>2, <2>3 DEF SpaceTypes, RowTypes
<1>17. CASE UNCHANGED spaceVars
  BY <1>17 DEF spaceVars, SpaceTypes, RowTypes
<1>. QED BY <1>1, <1>2, <1>3, <1>4, <1>5, <1>6, <1>7, <1>8, <1>9, <1>10, <1>11, <1>12, <1>13, <1>14, <1>15, <1>16, <1>17, <1>18, <1>19
     DEF SpaceNext, TaskStep, FileStep

-----------------------------------------------------------------------------
(* What is counted.                                                        *)

LEMMA PagesCount ==
    /\ Cardinality(Pages) \in Nat
    /\ \A S \in SUBSET Pages : IsFiniteSet(S) /\ Cardinality(S) \in 0 .. Cardinality(Pages)
    /\ \A S \in SUBSET Pages : \A p \in S : Cardinality(S \ {p}) = Cardinality(S) - 1
BY SpaceAssumption, FS_CardinalityType, FS_Subset, FS_RemoveElement DEF SpaceAssumption

LEMMA CountsKept ==
    ASSUME SpaceTypes, CountsFit, NEW w \in Workers, NEW t, tasks' = [tasks EXCEPT ![w] = t],
           TaskCounts(t), source'.pageCount <= Cardinality(Pages)
    PROVE  CountsFit'
<1>1. \A v \in Workers : tasks'[v] = IF v = w THEN t ELSE tasks[v]
  BY TaskUpdate
<1>. QED BY <1>1 DEF CountsFit, TaskCounts

\* Nothing counted, nothing to do.
LEMMA NothingCounted ==
    ASSUME NEW t, t.ok = 0, t.todo = {}, t.page = NoPage PROVE TaskCounts(t)
<1>1. (t.todo \cup {t.page}) \ {NoPage} = {}
  OBVIOUS
<1>. QED BY <1>1, PagesCount, FS_EmptySet DEF TaskCounts

\* A step that leaves what is counted alone.
LEMMA CountsSame ==
    ASSUME NEW t, NEW u, TaskCounts(t), u.ok = t.ok, u.todo = t.todo, u.page = t.page,
           u.pc \notin Importing \cup {"write"} => t.pc \notin Importing \cup {"write"}
    PROVE  TaskCounts(u)
BY DEF TaskCounts

LEMMA CountsStep == ASSUME SpaceTypes, CountsFit, [SpaceNext]_spaceVars PROVE CountsFit'
<1>. USE SpaceAssumption DEF SpaceAssumption, TaskAt, Importing
<1>0. /\ \A w \in Workers : tasks[w] \in Tasks /\ TaskCounts(tasks[w]) /\ tasks[w].page \notin tasks[w].todo
                            /\ (tasks[w].pc \notin Importing => tasks[w].todo = {})
                            /\ (tasks[w].pc \in {"create", "enqueue"} <=> tasks[w].page # NoPage)
      /\ source \in [status : Statuses, pageCount : Nat, failures : Nat]
      /\ source.pageCount <= Cardinality(Pages) /\ Cardinality(Pages) \in Nat
  BY PagesCount DEF SpaceTypes, CountsFit, TaskTypes
<1>1. ASSUME NEW w \in Workers, TriggerSync(w) PROVE CountsFit'
  <2>. DEFINE t == [tasks[w] EXCEPT !.pc = "start"]
  <2>1. tasks' = [tasks EXCEPT ![w] = t] /\ source' = source
    BY <1>1 DEF TriggerSync, GoTo
  <2>2. tasks[w].pc = "idle" /\ t.ok = tasks[w].ok /\ t.todo = tasks[w].todo /\ t.page = tasks[w].page
    BY <1>0, <1>1 DEF TriggerSync, Tasks
  <2>. HIDE DEF t
  <2>. QED BY <1>0, <2>1, <2>2, CountsSame, CountsKept
<1>2. ASSUME NEW w \in Workers, ReadSource(w) PROVE CountsFit'
  <2>1. CASE source.status = "paused"
    BY <1>0, <1>2, <2>1, NoTaskType, NothingCounted, CountsKept DEF ReadSource
  <2>2. CASE source.status # "paused"
    <3>. DEFINE t == [tasks[w] EXCEPT !.pc = "list", !.failures = source.failures]
    <3>1. tasks' = [tasks EXCEPT ![w] = t] /\ source' = source
      BY <1>2, <2>2 DEF ReadSource
    <3>2. tasks[w].pc = "start" /\ t.ok = tasks[w].ok /\ t.todo = tasks[w].todo /\ t.page = tasks[w].page
      BY <1>0, <1>2 DEF ReadSource, Tasks
    <3>. HIDE DEF t
    <3>. QED BY <1>0, <3>1, <3>2, CountsSame, CountsKept
  <2>. QED BY <2>1, <2>2
<1>3. ASSUME NEW w \in Workers, ListPages(w) \/ ReadFiles(w) PROVE CountsFit'
  <2>1. PICK t : tasks' = [tasks EXCEPT ![w] = t] /\ source' = source /\ tasks[w].pc \notin Importing \cup {"write"}
                 /\ t.ok = tasks[w].ok /\ t.todo = tasks[w].todo /\ t.page = tasks[w].page
    <3>1. CASE ListPages(w)
      <4>1. PICK undated \in SUBSET Pages :
               tasks' = [tasks EXCEPT ![w].pc = "files", ![w].listed = space, ![w].undated = undated]
        BY <3>1 DEF ListPages
      <4>. WITNESS [tasks[w] EXCEPT !.pc = "files", !.listed = space, !.undated = undated]
      <4>2. tasks' = [tasks EXCEPT ![w] = [tasks[w] EXCEPT !.pc = "files", !.listed = space, !.undated = undated]]
        BY <4>1
      <4>3. source' = source /\ tasks[w].pc = "list"
        BY <3>1 DEF ListPages
      <4>. QED BY <1>0, <4>2, <4>3 DEF Tasks
    <3>2. CASE ReadFiles(w)
      <4>. WITNESS [tasks[w] EXCEPT !.pc = "delete", !.existing = pageFiles]
      <4>1. /\ tasks' = [tasks EXCEPT ![w] = [tasks[w] EXCEPT !.pc = "delete", !.existing = pageFiles]]
            /\ source' = source /\ tasks[w].pc = "files"
        BY <3>2 DEF ReadFiles
      <4>. QED BY <1>0, <4>1 DEF Tasks
    <3>. QED BY <1>3, <3>1, <3>2
  <2>. QED BY <1>0, <2>1, CountsSame, CountsKept
<1>4. ASSUME NEW w \in Workers, ListFails(w) \/ TaskInterrupted(w) PROVE CountsFit'
  <2>1. PICK t \in Tasks : /\ tasks' = [tasks EXCEPT ![w] = t]
                           /\ t.pc \in {"idle", "start"} /\ t.existing = {} /\ t.todo = {}
                           /\ t.page = NoPage /\ t.ok = 0 /\ t.blank = {}
    BY <1>4, AgainType DEF ListFails, TaskInterrupted
  <2>2. source'.pageCount \in {0, source.pageCount}
    BY <1>4 DEF ListFails, TaskInterrupted
  <2>3. source'.pageCount <= Cardinality(Pages)
    BY <1>0, <2>2
  <2>4. TaskCounts(t)
    BY <2>1, NothingCounted
  <2>. QED BY <2>1, <2>3, <2>4, CountsKept
<1>5. ASSUME NEW w \in Workers, DeleteRemoved(w) PROVE CountsFit'
  <2>1. PICK t : tasks' = [tasks EXCEPT ![w] = t] /\ tasks[w].pc = "delete"
                 /\ t.ok = tasks[w].ok /\ t.todo = tasks[w].todo /\ t.page = tasks[w].page
    <3>1. CASE GoTo(w, "mark")
      <4>. WITNESS [tasks[w] EXCEPT !.pc = "mark"]
      <4>. QED BY <1>0, <1>5, <3>1 DEF DeleteRemoved, GoTo, Tasks
    <3>2. CASE tasks' = [tasks EXCEPT ![w].pc = "mark", ![w].clean = FALSE]
      <4>. WITNESS [tasks[w] EXCEPT !.pc = "mark", !.clean = FALSE]
      <4>. QED BY ZenonT(60), <1>0, <1>5, <3>2 DEF DeleteRemoved, Tasks
    <3>. QED BY <1>5, <3>1, <3>2 DEF DeleteRemoved
  <2>2. source' = source
    BY <1>5 DEF DeleteRemoved
  <2>. QED BY <1>0, <2>1, <2>2, CountsSame, CountsKept
<1>6. ASSUME NEW w \in Workers, MarkSpaceSyncing(w) PROVE CountsFit'
  <2>. DEFINE t == [tasks[w] EXCEPT !.pc = "import", !.todo = {p \in Pages : tasks[w].listed[p] # 0}]
  <2>1. tasks' = [tasks EXCEPT ![w] = t] /\ source'.pageCount = 0
    BY <1>0, <1>6 DEF MarkSpaceSyncing
  <2>2. tasks[w].pc = "mark" /\ t.ok = 0 /\ t.page = NoPage /\ t.todo \subseteq Pages /\ t.pc = "import"
    BY <1>0, <1>6 DEF MarkSpaceSyncing, Tasks, TaskCounts
  <2>. HIDE DEF t
  <2>3. (t.todo \cup {t.page}) \ {NoPage} = t.todo
    BY <2>2
  <2>4. TaskCounts(t)
    BY <2>2, <2>3, PagesCount DEF TaskCounts
  <2>5. source'.pageCount <= Cardinality(Pages)
    BY <1>0, <2>1
  <2>. QED BY <2>1, <2>4, <2>5, CountsKept
<1>7. ASSUME NEW w \in Workers, SkipPage(w) PROVE CountsFit'
  <2>1. PICK p \in tasks[w].todo :
           tasks' = [tasks EXCEPT ![w] = [tasks[w] EXCEPT !.todo = tasks[w].todo \ {p}, !.ok = tasks[w].ok + 1]]
    BY <1>7 DEF SkipPage
  <2>. DEFINE t == [tasks[w] EXCEPT !.todo = tasks[w].todo \ {p}, !.ok = tasks[w].ok + 1]
  <2>2. /\ t.todo = tasks[w].todo \ {p} /\ t.ok = tasks[w].ok + 1 /\ t.page = NoPage /\ tasks[w].page = NoPage
        /\ t.pc = "import" /\ tasks[w].todo \subseteq Pages /\ tasks[w].ok \in Nat
    BY <1>0, <1>7 DEF SkipPage, Tasks
  <2>3. tasks' = [tasks EXCEPT ![w] = t] /\ source' = source
    BY <1>7, <2>1 DEF SkipPage
  <2>. HIDE DEF t
  <2>4. /\ (t.todo \cup {t.page}) \ {NoPage} = tasks[w].todo \ {p}
        /\ (tasks[w].todo \cup {tasks[w].page}) \ {NoPage} = tasks[w].todo
    BY <2>2
  <2>5. Cardinality(tasks[w].todo \ {p}) = Cardinality(tasks[w].todo) - 1 /\ Cardinality(tasks[w].todo) \in Nat
    BY <2>2, PagesCount
  <2>6. tasks[w].ok + Cardinality(tasks[w].todo) <= Cardinality(Pages)
    BY <1>0, <2>4 DEF TaskCounts
  <2>7. tasks[w].ok + 1 + Cardinality(tasks[w].todo \ {p}) <= Cardinality(Pages)
    BY <1>0, <2>2, <2>5, <2>6
  <2>8. TaskCounts(t)
    BY <2>2, <2>4, <2>7 DEF TaskCounts
  <2>. QED BY <1>0, <2>3, <2>8, CountsKept
<1>8. ASSUME NEW w \in Workers, FetchPage(w) PROVE CountsFit'
  <2>1. PICK p \in tasks[w].todo, deleted \in BOOLEAN, body \in {"text", "empty", "none"} :
           tasks' = [tasks EXCEPT ![w] = Fetched(w, p, deleted, body)]
    BY <1>8 DEF FetchPage
  <2>. DEFINE t == Fetched(w, p, deleted, body)
              left == (t.todo \cup {t.page}) \ {NoPage}
  <2>2. tasks[w].pc = "import" /\ tasks[w] \in Tasks /\ tasks[w].todo \subseteq Pages /\ tasks[w].ok \in Nat
    BY <1>0, <1>8 DEF FetchPage, Tasks
  <2>3. p \in Pages /\ p # NoPage /\ tasks[w].page = NoPage
    BY <1>0, <2>2
  <2>4. FetchedTask(w, p, deleted, body, t)
    BY <2>1, <2>2, <2>3, FetchedFields
  <2>5. tasks' = [tasks EXCEPT ![w] = t] /\ source' = source
    BY <1>8, <2>1 DEF FetchPage
  <2>. HIDE DEF t
  <2>6. /\ Cardinality(tasks[w].todo \ {p}) = Cardinality(tasks[w].todo) - 1
        /\ Cardinality(tasks[w].todo) \in Nat /\ Cardinality(tasks[w].todo \ {p}) \in Nat
    BY <2>2, PagesCount
  <2>7. tasks[w].ok + Cardinality(tasks[w].todo) <= Cardinality(Pages)
    <3>1. (tasks[w].todo \cup {tasks[w].page}) \ {NoPage} = tasks[w].todo
      BY <2>2, <2>3
    <3>. QED BY <1>0, <3>1 DEF TaskCounts
  <2>8. t.pc \in Importing
    BY <2>4 DEF FetchedTask
  <2>9. CASE body = "text"
    <3>1. left = tasks[w].todo /\ t.ok = tasks[w].ok
      BY <2>2, <2>3, <2>4, <2>9 DEF FetchedTask
    <3>2. TaskCounts(t)
      BY <2>7, <2>8, <3>1 DEF TaskCounts
    <3>. QED BY <1>0, <2>5, <3>2, CountsKept
  <2>10. CASE body # "text"
    <3>1. left = tasks[w].todo \ {p} /\ t.ok \in {tasks[w].ok, tasks[w].ok + 1}
      BY <2>2, <2>3, <2>4, <2>10 DEF FetchedTask
    <3>2. t.ok + Cardinality(tasks[w].todo \ {p}) <= Cardinality(Pages)
      BY <1>0, <2>2, <2>6, <2>7, <3>1
    <3>3. TaskCounts(t)
      BY <2>8, <3>1, <3>2 DEF TaskCounts
    <3>. QED BY <1>0, <2>5, <3>3, CountsKept
  <2>. QED BY <2>9, <2>10
<1>9. ASSUME NEW w \in Workers, CreateFile(w) PROVE CountsFit'
  <2>. DEFINE id == <<tasks[w].page, clock, w, pageSyncs>>
              t == [tasks[w] EXCEPT !.pc = "enqueue", !.row = id]
  <2>1. tasks' = [tasks EXCEPT ![w] = t] /\ source' = source /\ tasks[w].pc = "create"
    BY <1>9 DEF CreateFile
  <2>. HIDE DEF id
  <2>2. t.ok = tasks[w].ok /\ t.todo = tasks[w].todo /\ t.page = tasks[w].page /\ t.pc = "enqueue"
    BY <1>0 DEF Tasks
  <2>. HIDE DEF t
  <2>. QED BY <1>0, <2>1, <2>2, CountsSame, CountsKept
<1>16. ASSUME NEW w \in Workers, CreateFails(w) \/ EnqueueFile(w) PROVE CountsFit'
  <2>. DEFINE todo == tasks[w].todo \cup {tasks[w].page}
  <2>1. PICK t : /\ tasks' = [tasks EXCEPT ![w] = t] /\ t.pc = "import" /\ t.todo = tasks[w].todo
                 /\ t.page = NoPage /\ t.ok \in {tasks[w].ok, tasks[w].ok + 1}
    <3>1. CASE CreateFails(w)
      <4>. WITNESS [tasks[w] EXCEPT !.pc = "import", !.page = NoPage, !.clean = FALSE]
      <4>1. tasks' = [tasks EXCEPT ![w] = [tasks[w] EXCEPT !.pc = "import", !.page = NoPage, !.clean = FALSE]]
        BY <3>1 DEF CreateFails
      <4>. QED BY <1>0, <4>1 DEF Tasks
    <3>2. CASE EnqueueFile(w)
      <4>. WITNESS [tasks[w] EXCEPT !.pc = "import", !.page = NoPage, !.row = NoPage, !.ok = tasks[w].ok + 1]
      <4>1. tasks' = [tasks EXCEPT ![w] = [tasks[w] EXCEPT !.pc = "import", !.page = NoPage, !.row = NoPage, !.ok = tasks[w].ok + 1]]
        BY <3>2 DEF EnqueueFile
      <4>. QED BY <1>0, <4>1 DEF Tasks
    <3>. QED BY <1>16, <3>1, <3>2
  <2>2. source' = source /\ tasks[w].pc \in {"create", "enqueue"}
    BY <1>16 DEF CreateFails, EnqueueFile
  <2>3. tasks[w].page \in Pages /\ tasks[w].todo \subseteq Pages /\ tasks[w].ok \in Nat
    BY <1>0, <2>2 DEF Tasks
  <2>4. /\ (t.todo \cup {t.page}) \ {NoPage} = todo \ {tasks[w].page}
        /\ (tasks[w].todo \cup {tasks[w].page}) \ {NoPage} = todo
        /\ todo \subseteq Pages
    BY <1>0, <2>1, <2>3
  <2>5. /\ Cardinality(todo \ {tasks[w].page}) = Cardinality(todo) - 1
        /\ Cardinality(todo) \in Nat /\ Cardinality(todo \ {tasks[w].page}) \in Nat
    BY <2>4, PagesCount
  <2>6. tasks[w].ok + Cardinality(todo) <= Cardinality(Pages)
    BY <1>0, <2>4 DEF TaskCounts
  <2>7. t.ok + Cardinality(todo \ {tasks[w].page}) <= Cardinality(Pages)
    BY <1>0, <2>1, <2>3, <2>5, <2>6
  <2>8. TaskCounts(t)
    BY <2>1, <2>4, <2>7 DEF TaskCounts
  <2>. QED BY <1>0, <2>1, <2>2, <2>8, CountsKept
<1>10. ASSUME NEW w \in Workers, CountFiles(w) PROVE CountsFit'
  <2>. DEFINE t == [tasks[w] EXCEPT !.pc = "write", !.total = Cardinality(pageFiles),
                                    !.done = Cardinality(pageFiles \ Waiting)]
  <2>1. tasks' = [tasks EXCEPT ![w] = t] /\ source' = source
    BY <1>10 DEF CountFiles
  <2>2. t.pc = "write" /\ t.ok = tasks[w].ok /\ t.todo = tasks[w].todo /\ t.page = tasks[w].page
    BY <1>0, <1>10 DEF CountFiles, Tasks
  <2>. HIDE DEF t
  <2>. QED BY <1>0, <2>1, <2>2, CountsSame, CountsKept
<1>11. ASSUME NEW w \in Workers, Finalize(w) PROVE CountsFit'
  <2>1. tasks[w].todo = {} /\ tasks[w].page = NoPage /\ tasks[w].ok \in Nat
    BY <1>0, <1>11 DEF Finalize, Tasks
  <2>2. (tasks[w].todo \cup {tasks[w].page}) \ {NoPage} = {} /\ Cardinality({}) = 0
    BY <2>1, FS_EmptySet
  <2>3. tasks[w].ok <= Cardinality(Pages)
    BY <1>0, <2>1, <2>2 DEF TaskCounts
  <2>4. source'.pageCount = tasks[w].ok /\ tasks' = [tasks EXCEPT ![w] = NoTask]
    BY <1>11 DEF Finalize
  <2>. QED BY <2>3, <2>4, NoTaskType, NothingCounted, CountsKept
<1>12. ASSUME NEW f \in pageFiles, ProcessFile(f) \/ SweepFile(f) PROVE CountsFit'
  BY <1>12 DEF ProcessFile, SweepFile, CountsFit, TaskCounts
<1>13. ASSUME NEW x \in wraps, WrapSource(x) \/ WrapProgress(x) \/ WrapWrite(x) PROVE CountsFit'
  <2>1. tasks' = tasks /\ source' \in {source, [source EXCEPT !.status = "active", !.failures = 0]}
    BY <1>13 DEF WrapSource, WrapProgress, WrapWrite
  <2>2. source'.pageCount = source.pageCount
    BY <1>0, <2>1
  <2>. QED BY <2>1, <2>2 DEF CountsFit, TaskCounts
<1>14. ASSUME NEW p \in Pages, EditPage(p) PROVE CountsFit'
  BY <1>14 DEF EditPage, CountsFit, TaskCounts
<1>15. CASE UNCHANGED spaceVars
  BY <1>15 DEF spaceVars, CountsFit, TaskCounts
<1>. QED BY <1>1, <1>2, <1>3, <1>4, <1>5, <1>6, <1>7, <1>8, <1>9, <1>10, <1>11, <1>12, <1>13, <1>14, <1>15, <1>16
     DEF SpaceNext, TaskStep, FileStep

-----------------------------------------------------------------------------
(* The files of the pages.                                                 *)

PagesFine == \A p \in Pages : DoublesAreFound(p) /\ \A w \in Workers : PageIsFine(w, p)

\* A page whose rows a step leaves alone.
LEMMA PageKept ==
    ASSUME NEW p, \A f : f.page = p => (f \in pageFiles' <=> f \in pageFiles)
    PROVE  /\ NoFile(p)' <=> NoFile(p)
           /\ OneFile(p)' <=> OneFile(p)
           /\ \A version : Outdated(p, version) <=> \E h \in pageFiles' : h.page = p /\ h.created < version
           /\ \A w : tasks'[w].existing = tasks[w].existing => (SameRows(w, p)' <=> SameRows(w, p))
BY DEF NoFile, OneFile, Outdated, SameRows

\* Rows that change their status or their task only.
LEMMA Restamped ==
    ASSUME NEW p, NEW g, pageFiles' = {g[f] : f \in pageFiles},
           \A f \in pageFiles : g[f].page = f.page /\ g[f].id = f.id /\ g[f].created = f.created
    PROVE  /\ NoFile(p)' <=> NoFile(p)
           /\ OneFile(p) => OneFile(p)'
           /\ \A version : Outdated(p, version) <=> \E h \in pageFiles' : h.page = p /\ h.created < version
           /\ \A w : tasks'[w].existing = tasks[w].existing => (SameRows(w, p) => SameRows(w, p)')
<1>1. /\ \A h \in pageFiles' : \E f \in pageFiles : h = g[f] /\ h.page = f.page /\ h.id = f.id /\ h.created = f.created
      /\ \A f \in pageFiles : g[f] \in pageFiles'
  OBVIOUS
<1>2. NoFile(p)' <=> NoFile(p)
  BY <1>1 DEF NoFile
<1>3. OneFile(p) => OneFile(p)'
  BY <1>1 DEF OneFile
<1>4. ASSUME NEW version PROVE Outdated(p, version) <=> \E h \in pageFiles' : h.page = p /\ h.created < version
  BY <1>1 DEF Outdated
<1>5. ASSUME NEW w, SameRows(w, p), tasks'[w].existing = tasks[w].existing PROVE SameRows(w, p)'
  BY <1>1, <1>5 DEF SameRows
<1>. QED BY <1>2, <1>3, <1>4, <1>5

\* The rows of a page that are deleted by the ids a sync has read are all its rows,
\* and no others.
LEMMA PageDeleted ==
    ASSUME SpaceTypes, NEW w \in Workers, NEW q, SameRows(w, q), pageFiles' = Without(Existing(w, q))
    PROVE  NoFile(q)' /\ \A f : f.page # q => (f \in pageFiles' <=> f \in pageFiles)
<1>1. \A f \in pageFiles : f.page = q => f \notin pageFiles'
  BY DEF SameRows, Without, Existing
<1>2. \A f \in pageFiles : f.page # q => f \in pageFiles'
  BY DEF SpaceTypes, TaskTypes, RowTypes, Without, Existing
<1>3. pageFiles' \subseteq pageFiles
  BY DEF Without
<1>. QED BY <1>1, <1>2, <1>3 DEF NoFile

\* What the step of a task has to show for one page.
LEMMA FineTask ==
    ASSUME OneWorker, SpaceTypes, PagesFine, NEW w \in Workers,
           \A p \in Pages : DoublesAreFound(p)' /\ PageIsFine(w, p)'
    PROVE  PagesFine'
BY DEF PagesFine, OneWorker

\* A task that has read nothing.
LEMMA FreshTask ==
    ASSUME NEW w \in Workers, NEW p \in Pages, tasks'[w].pc \in {"idle", "start", "list"}, tasks'[w].todo = {},
           tasks'[w].page = NoPage, tasks'[w].blank = {}
    PROVE  PageIsFine(w, p)'
BY SpaceAssumption DEF SpaceAssumption, PageIsFine, HasList, Untouched, InHand, Imported, Importing

LEMMA DoublesKept ==
    ASSUME NEW p \in Pages, DoublesAreFound(p), UNCHANGED <<space, pageFiles>>
    PROVE  DoublesAreFound(p)'
BY DEF DoublesAreFound, OneFile, Outdated

LEMMA PagesStep ==
    ASSUME OneWorker, SpaceTypes, PagesFine, [SpaceNext]_spaceVars
    PROVE  PagesFine'
<1>. USE SpaceAssumption DEF SpaceAssumption, TaskAt, Importing
<1>0. /\ \A w \in Workers : /\ tasks[w] \in Tasks /\ RowTypes(tasks[w].existing) /\ tasks[w].page \notin tasks[w].todo
                            /\ tasks[w].pc \notin Importing => tasks[w].todo = {}
                            /\ tasks[w].pc \notin Importing \cup {"write"} => tasks[w].blank = {}
                            /\ tasks[w].pc \in {"create", "enqueue"} <=> tasks[w].page # NoPage
      /\ \A p \in Pages : DoublesAreFound(p) /\ \A w \in Workers : PageIsFine(w, p)
      /\ clock \in Nat \ {0} /\ space \in [Pages -> 0 .. clock] /\ RowTypes(pageFiles)
      /\ \A f \in pageFiles : f.created \in 1 .. clock
  BY DEF SpaceTypes, PagesFine, TaskTypes
<1>1. ASSUME NEW w \in Workers, TriggerSync(w) PROVE PagesFine'
  <2>1. /\ UNCHANGED <<space, pageFiles>>
        /\ tasks'[w].pc = "start" /\ tasks'[w].todo = {} /\ tasks'[w].page = NoPage /\ tasks'[w].blank = {}
    BY <1>0, <1>1 DEF TriggerSync, GoTo, SpaceTypes, Tasks
  <2>. QED BY <1>0, <2>1, FreshTask, DoublesKept, FineTask
<1>2. ASSUME NEW w \in Workers, ReadSource(w) PROVE PagesFine'
  <2>1. UNCHANGED <<space, pageFiles>> /\ tasks[w].todo = {} /\ tasks[w].page = NoPage /\ tasks[w] \in Tasks
        /\ tasks[w].blank = {}
    BY <1>0, <1>2 DEF ReadSource
  <2>2. tasks'[w].pc \in {"idle", "list"} /\ tasks'[w].todo = {} /\ tasks'[w].page = NoPage /\ tasks'[w].blank = {}
    <3>1. CASE source.status = "paused"
      BY <1>2, <3>1, NoTaskType, TaskUpdate DEF ReadSource
    <3>2. CASE source.status # "paused"
      <4>. DEFINE t == [tasks[w] EXCEPT !.pc = "list", !.failures = source.failures]
      <4>1. tasks' = [tasks EXCEPT ![w] = t]
        BY <1>2, <3>2 DEF ReadSource
      <4>2. t.pc = "list" /\ t.todo = {} /\ t.page = NoPage /\ t.blank = {}
        BY <2>1 DEF Tasks
      <4>. HIDE DEF t
      <4>. QED BY <4>1, <4>2, TaskUpdate
    <3>. QED BY <3>1, <3>2
  <2>. QED BY <1>0, <2>1, <2>2, FreshTask, DoublesKept, FineTask
<1>3. ASSUME NEW w \in Workers, ListFails(w) \/ TaskInterrupted(w) PROVE PagesFine'
  <2>1. PICK t \in Tasks : /\ tasks' = [tasks EXCEPT ![w] = t]
                           /\ t.pc \in {"idle", "start"} /\ t.existing = {} /\ t.todo = {}
                           /\ t.page = NoPage /\ t.ok = 0 /\ t.blank = {}
    BY <1>3, AgainType DEF ListFails, TaskInterrupted
  <2>2. UNCHANGED <<space, pageFiles>> /\ tasks'[w] = t
    BY <1>3, <2>1, TaskUpdate DEF ListFails, TaskInterrupted
  <2>. QED BY <1>0, <2>1, <2>2, FreshTask, DoublesKept, FineTask
<1>4. ASSUME NEW w \in Workers, Finalize(w) PROVE PagesFine'
  <2>1. UNCHANGED <<space, pageFiles>> /\ tasks'[w] = NoTask
    BY <1>4, TaskUpdate DEF Finalize
  <2>. QED BY <1>0, <2>1, NoTaskType, FreshTask, DoublesKept, FineTask
<1>5. ASSUME NEW w \in Workers, ListPages(w) PROVE PagesFine'
  <2>0. PICK undated \in SUBSET Pages :
           tasks' = [tasks EXCEPT ![w].pc = "files", ![w].listed = space, ![w].undated = undated]
    BY <1>5 DEF ListPages
  <2>1. /\ UNCHANGED <<clock, space, pageFiles>> /\ tasks'[w].pc = "files" /\ tasks'[w].listed = space
        /\ tasks'[w].todo = {} /\ tasks'[w].page = NoPage /\ tasks'[w].blank = {}
    BY <1>0, <1>5, <2>0 DEF ListPages, SpaceTypes, Tasks
  <2>2. ASSUME NEW p \in Pages PROVE PageIsFine(w, p)'
    <3>1. OneFile(p) \/ space[p] = 0 \/ Outdated(p, space[p])
      BY <1>0 DEF DoublesAreFound
    <3>2. OneFile(p)' \/ space'[p] = 0 \/ Outdated(p, space[p])'
      BY <2>1, <3>1 DEF OneFile, Outdated
    <3>3. space[p] \in 0 .. clock
      BY <1>0
    <3>. QED BY <2>1, <3>2, <3>3 DEF PageIsFine, Untouched, HasList, InHand, Imported
  <2>. QED BY <1>0, <2>1, <2>2, DoublesKept, FineTask
<1>6. ASSUME NEW w \in Workers, ReadFiles(w) PROVE PagesFine'
  <2>1. /\ UNCHANGED <<clock, space, pageFiles>> /\ tasks[w].pc = "files" /\ tasks'[w].pc = "delete"
        /\ tasks'[w].listed = tasks[w].listed /\ tasks'[w].existing = pageFiles
        /\ tasks'[w].todo = {} /\ tasks'[w].page = NoPage /\ tasks'[w].blank = {}
    BY <1>0, <1>6 DEF ReadFiles, SpaceTypes, Tasks
  <2>2. ASSUME NEW p \in Pages PROVE PageIsFine(w, p)'
    <3>1. /\ OneFile(p) \/ tasks[w].listed[p] = 0 \/ Outdated(p, tasks[w].listed[p])
          /\ tasks[w].listed[p] <= clock /\ (space[p] = 0 \/ tasks[w].listed[p] <= space[p])
      BY <1>0, <2>1 DEF PageIsFine, Untouched, HasList, InHand, Imported
    <3>2. OneFile(p)' \/ tasks'[w].listed[p] = 0 \/ Outdated(p, tasks[w].listed[p])'
      BY <2>1, <3>1 DEF OneFile, Outdated
    <3>3. SameRows(w, p)'
      BY <2>1 DEF SameRows
    <3>. QED BY <2>1, <3>1, <3>2, <3>3 DEF PageIsFine, Untouched, HasList, InHand, Imported
  <2>. QED BY <1>0, <2>1, <2>2, DoublesKept, FineTask
<1>7. ASSUME NEW w \in Workers, DeleteRemoved(w) PROVE PagesFine'
  <2>1. /\ UNCHANGED <<clock, space>> /\ tasks[w].pc = "delete" /\ tasks'[w].pc = "mark"
        /\ tasks'[w].listed = tasks[w].listed /\ tasks'[w].existing = tasks[w].existing
        /\ tasks'[w].todo = {} /\ tasks'[w].page = NoPage /\ tasks'[w].blank = {}
    <3>1. /\ UNCHANGED <<clock, space>> /\ tasks[w].pc = "delete"
      BY <1>7 DEF DeleteRemoved, TaskAt
    <3>2. CASE tasks' = [tasks EXCEPT ![w].pc = "mark"]
      BY <1>0, <3>1, <3>2 DEF SpaceTypes, Tasks
    <3>3. CASE tasks' = [tasks EXCEPT ![w].pc = "mark", ![w].clean = FALSE]
      BY <1>0, <3>1, <3>3 DEF SpaceTypes, Tasks
    <3>. QED BY <1>7, <3>1, <3>2, <3>3 DEF DeleteRemoved, GoTo
  <2>2. \/ pageFiles' = Without({f \in tasks[w].existing : tasks[w].listed[f.page] = 0})
        \/ pageFiles' = pageFiles /\ ~tasks'[w].clean
    <3>1. CASE tasks' = [tasks EXCEPT ![w].pc = "mark", ![w].clean = FALSE] /\ UNCHANGED pageFiles
      BY <1>0, <3>1 DEF SpaceTypes, Tasks
    <3>. QED BY <1>7, <3>1 DEF DeleteRemoved
  <2>3. ASSUME NEW p \in Pages, tasks[w].listed[p] # 0
        PROVE  \A f : f.page = p => (f \in pageFiles' <=> f \in pageFiles)
    <3>1. CASE pageFiles' = Without({f \in tasks[w].existing : tasks[w].listed[f.page] = 0})
      <4>1. \A f \in pageFiles, g \in tasks[w].existing :
                f.page = p /\ tasks[w].listed[g.page] = 0 => f.id # g.id
        BY <1>0, <2>3 DEF RowTypes
      <4>. QED BY <3>1, <4>1 DEF Without
    <3>. QED BY <2>2, <3>1
  <2>4. ASSUME NEW p \in Pages, tasks[w].listed[p] = 0, tasks'[w].clean PROVE NoFile(p)'
    <3>1. SameRows(w, p)
      BY <1>0, <2>1 DEF PageIsFine, Untouched
    <3>2. pageFiles' = Without({f \in tasks[w].existing : tasks[w].listed[f.page] = 0})
      BY <2>2, <2>4
    <3>. QED BY <2>4, <3>1, <3>2 DEF SameRows, Without, NoFile
  <2>5. pageFiles' \subseteq pageFiles /\ \A p \in Pages : tasks[w].listed[p] = 0 =>
           \/ pageFiles' = pageFiles
           \/ NoFile(p)'
    <3>1. ASSUME NEW p \in Pages, tasks[w].listed[p] = 0,
                 pageFiles' = Without({f \in tasks[w].existing : tasks[w].listed[f.page] = 0})
          PROVE  NoFile(p)'
      <4>1. SameRows(w, p)
        BY <1>0, <2>1 DEF PageIsFine, Untouched
      <4>. QED BY <3>1, <4>1 DEF SameRows, Without, NoFile
    <3>. QED BY <2>2, <3>1 DEF Without
  <2>6. ASSUME NEW p \in Pages PROVE DoublesAreFound(p)'
    <3>1. CASE tasks[w].listed[p] # 0
      BY <1>0, <2>1, <2>3, <3>1, PageKept DEF DoublesAreFound, Outdated
    <3>2. CASE pageFiles' = pageFiles
      BY <1>0, <2>1, <3>2, DoublesKept
    <3>3. CASE NoFile(p)'
      BY <3>3 DEF DoublesAreFound, NoFile, OneFile
    <3>. QED BY <2>5, <3>1, <3>2, <3>3
  <2>7. ASSUME NEW p \in Pages PROVE PageIsFine(w, p)'
    <3>1. /\ OneFile(p) \/ tasks[w].listed[p] = 0 \/ Outdated(p, tasks[w].listed[p])
          /\ tasks[w].listed[p] <= clock /\ (space[p] = 0 \/ tasks[w].listed[p] <= space[p])
          /\ SameRows(w, p)
      BY <1>0, <2>1 DEF PageIsFine, Untouched, HasList, InHand, Imported
    <3>2. tasks[w].listed[p] # 0 => SameRows(w, p)' /\ (OneFile(p)' \/ Outdated(p, tasks[w].listed[p])')
      BY <2>1, <2>3, <3>1, PageKept DEF Outdated
    <3>. QED BY <2>1, <2>4, <3>1, <3>2 DEF PageIsFine, Untouched, HasList, InHand, Imported
  <2>. QED BY <2>6, <2>7, FineTask
<1>8. ASSUME NEW w \in Workers, MarkSpaceSyncing(w) PROVE PagesFine'
  <2>1. /\ UNCHANGED <<clock, space, pageFiles>> /\ tasks[w].pc = "mark" /\ tasks'[w].pc = "import"
        /\ tasks'[w].listed = tasks[w].listed /\ tasks'[w].existing = tasks[w].existing
        /\ tasks'[w].todo = {p \in Pages : tasks[w].listed[p] # 0} /\ tasks'[w].page = NoPage
        /\ tasks'[w].clean = tasks[w].clean /\ tasks'[w].blank = {}
    BY <1>0, <1>8 DEF MarkSpaceSyncing, SpaceTypes, Tasks
  <2>2. ASSUME NEW p \in Pages PROVE PageIsFine(w, p)'
    <3>1. /\ tasks[w].listed[p] <= clock /\ (space[p] = 0 \/ tasks[w].listed[p] <= space[p])
          /\ tasks[w].listed[p] # 0 => SameRows(w, p) /\ (OneFile(p) \/ Outdated(p, tasks[w].listed[p]))
          /\ tasks[w].clean /\ tasks[w].listed[p] = 0 => NoFile(p)
      BY <1>0, <2>1 DEF PageIsFine, Untouched, HasList, InHand, Imported
    <3>2. /\ tasks'[w].listed[p] # 0 => SameRows(w, p)' /\ (OneFile(p)' \/ Outdated(p, tasks[w].listed[p])')
          /\ NoFile(p) => NoFile(p)'
      BY <2>1, <3>1, PageKept DEF Outdated
    <3>. QED BY <2>1, <3>1, <3>2 DEF PageIsFine, Untouched, HasList, InHand, Imported
  <2>. QED BY <1>0, <2>1, <2>2, DoublesKept, FineTask
<1>9. ASSUME NEW w \in Workers, SkipPage(w) PROVE PagesFine'
  <2>1. PICK q \in tasks[w].todo :
           /\ ~Updated(w, q)
           /\ tasks' = [tasks EXCEPT ![w] = [tasks[w] EXCEPT !.todo = tasks[w].todo \ {q}, !.ok = tasks[w].ok + 1]]
    BY <1>9 DEF SkipPage
  <2>2. /\ UNCHANGED <<clock, space, pageFiles>> /\ tasks[w].pc = "import" /\ tasks'[w].pc = "import"
        /\ tasks'[w].listed = tasks[w].listed /\ tasks'[w].existing = tasks[w].existing
        /\ tasks'[w].todo = tasks[w].todo \ {q} /\ tasks'[w].page = NoPage /\ tasks[w].page = NoPage
        /\ tasks'[w].clean = tasks[w].clean /\ tasks'[w].blank = tasks[w].blank
        /\ tasks'[w].undated = tasks[w].undated
    <3>1. UNCHANGED <<clock, space, pageFiles>> /\ tasks[w].pc = "import" /\ tasks[w].page = NoPage
      BY <1>0, <1>9 DEF SkipPage
    <3>. DEFINE t == [tasks[w] EXCEPT !.todo = tasks[w].todo \ {q}, !.ok = tasks[w].ok + 1]
    <3>2. /\ t.pc = tasks[w].pc /\ t.listed = tasks[w].listed /\ t.existing = tasks[w].existing
          /\ t.todo = tasks[w].todo \ {q} /\ t.page = tasks[w].page /\ t.clean = tasks[w].clean
          /\ t.blank = tasks[w].blank /\ t.undated = tasks[w].undated
      BY <1>0 DEF Tasks
    <3>3. tasks' = [tasks EXCEPT ![w] = t]
      BY <2>1
    <3>. HIDE DEF t
    <3>4. tasks'[w] = t
      BY <3>3, TaskUpdate
    <3>. QED BY <3>1, <3>2, <3>4
  <2>3. q \in Pages /\ SameRows(w, q) /\ (OneFile(q) \/ Outdated(q, tasks[w].listed[q])) /\ tasks[w].listed[q] \in Nat
        /\ q \notin tasks[w].blank
    BY <1>0, <2>2 DEF PageIsFine, Untouched, Tasks
  <2>4. ~NoFile(q) /\ (q \notin tasks[w].undated => OneFile(q) /\ ~Outdated(q, tasks[w].listed[q]))
    <3>1. PICK g \in tasks[w].existing : g.page = q
      BY <2>1 DEF Updated, Existing
    <3>2. ~NoFile(q)
      BY <2>3, <3>1 DEF SameRows, NoFile
    <3>3. ASSUME q \notin tasks[w].undated, NEW f \in pageFiles, f.page = q, f.created < tasks[w].listed[q]
          PROVE  FALSE
      <4>1. PICK k \in tasks[w].existing : k.page = q /\ k.created = f.created
        BY <2>3, <3>3 DEF SameRows
      <4>. QED BY <2>1, <3>3, <4>1 DEF Updated, Existing
    <3>. QED BY <2>3, <3>2, <3>3 DEF Outdated
  <2>5. ASSUME NEW p \in Pages PROVE PageIsFine(w, p)'
    <3>1. /\ NoFile(p)' <=> NoFile(p)
          /\ OneFile(p)' <=> OneFile(p)
          /\ Outdated(p, tasks[w].listed[p])' <=> Outdated(p, tasks[w].listed[p])
          /\ SameRows(w, p)' <=> SameRows(w, p)
      BY <2>2, PageKept DEF Outdated
    <3>2. PageIsFine(w, p)
      BY <1>0
    <3>. QED BY <2>2, <2>4, <3>1, <3>2 DEF PageIsFine, Untouched, HasList, InHand, Imported
  <2>. QED BY <1>0, <2>2, <2>5, DoublesKept, FineTask
<1>10. ASSUME NEW w \in Workers, FetchPage(w) PROVE PagesFine'
  <2>0. PICK q \in tasks[w].todo, deleted \in BOOLEAN, body \in {"text", "empty", "none"} :
           /\ Updated(w, q)
           /\ deleted \/ Existing(w, q) # {}
           /\ pageFiles' = IF deleted THEN Without(Existing(w, q)) ELSE pageFiles
           /\ tasks' = [tasks EXCEPT ![w] = Fetched(w, q, deleted, body)]
    BY <1>10 DEF FetchPage
  <2>1. Updated(w, q)
    BY <2>0
  <2>2. /\ UNCHANGED <<clock, space>> /\ tasks[w].pc = "import" /\ tasks[w].page = NoPage /\ q \in Pages
        /\ tasks[w] \in Tasks
    BY <1>0, <1>10 DEF FetchPage, Tasks
  <2>b. tasks'[w] = Fetched(w, q, deleted, body)
    BY <2>0, TaskUpdate
  <2>a. FetchedTask(w, q, deleted, body, tasks'[w])
    BY <2>0, <2>2, <2>b, FetchedFields
  <2>3. /\ tasks'[w].pc \in {"import", "create"} /\ tasks'[w].listed = tasks[w].listed
        /\ tasks'[w].existing = tasks[w].existing /\ tasks'[w].todo = tasks[w].todo \ {q}
        /\ tasks'[w].undated = tasks[w].undated
        /\ tasks'[w].page \in {q, NoPage} /\ (tasks'[w].pc = "create" <=> tasks'[w].page = q)
        /\ tasks'[w].clean => tasks[w].clean
        /\ \/ tasks'[w].blank = tasks[w].blank
           \/ tasks'[w].blank = tasks[w].blank \cup {q} /\ tasks'[w].page = NoPage
        /\ tasks'[w].clean => /\ tasks'[w].page = q \/ q \in tasks'[w].blank
                             /\ pageFiles' = Without(Existing(w, q))
        /\ \/ pageFiles' = Without(Existing(w, q))
           \/ Existing(w, q) # {} /\ UNCHANGED pageFiles
    <3>1. q # NoPage
      BY <2>2
    <3>2. /\ tasks'[w].pc \in {"import", "create"} /\ tasks'[w].listed = tasks[w].listed
          /\ tasks'[w].existing = tasks[w].existing /\ tasks'[w].todo = tasks[w].todo \ {q}
          /\ tasks'[w].undated = tasks[w].undated
      BY <2>a DEF FetchedTask
    <3>3. \/ pageFiles' = Without(Existing(w, q))
          \/ Existing(w, q) # {} /\ UNCHANGED pageFiles
      BY <2>0
    <3>7. tasks'[w].clean => deleted /\ body # "none" /\ tasks[w].clean
      BY <2>a DEF FetchedTask
    <3>8. deleted => pageFiles' = Without(Existing(w, q))
      BY <2>0
    <3>4. CASE body = "text"
      <4>1. tasks'[w].pc = "create" /\ tasks'[w].page = q /\ tasks'[w].blank = tasks[w].blank
        BY <2>a, <3>4 DEF FetchedTask
      <4>. QED BY <3>2, <3>3, <3>7, <3>8, <4>1
    <3>5. CASE body = "empty"
      <4>1. /\ tasks'[w].pc = "import" /\ tasks'[w].page = NoPage
            /\ tasks'[w].blank = tasks[w].blank \cup {q}
        BY <2>a, <3>5 DEF FetchedTask
      <4>. QED BY <3>1, <3>2, <3>3, <3>7, <3>8, <4>1
    <3>6. CASE body = "none"
      <4>1. tasks'[w].pc = "import" /\ tasks'[w].page = NoPage /\ tasks'[w].blank = tasks[w].blank
        BY <2>a, <3>6 DEF FetchedTask
      <4>. QED BY <3>1, <3>2, <3>3, <3>6, <3>7, <4>1
    <3>. QED BY <3>4, <3>5, <3>6
  <2>4. PageIsFine(w, q) /\ SameRows(w, q) /\ tasks[w].listed[q] # 0 /\ q \notin tasks[w].blank
    BY <1>0, <2>2 DEF PageIsFine, Untouched
  <2>5. \A f : f.page # q => (f \in pageFiles' <=> f \in pageFiles)
    BY <2>3, <2>4, PageDeleted
  <2>6. pageFiles' = Without(Existing(w, q)) => NoFile(q)'
    BY <2>4, PageDeleted
  <2>7. UNCHANGED pageFiles /\ Existing(w, q) # {} => Outdated(q, tasks[w].listed[q])'
    <3>1. ASSUME Existing(w, q) # {} PROVE Outdated(q, tasks[w].listed[q])
      <4>1. tasks[w].listed[q] \in Nat
        BY <2>2 DEF Tasks
      <4>2. PICK g \in tasks[w].existing : g.page = q /\ tasks[w].listed[q] > g.created
        BY <2>1, <3>1 DEF Updated, Existing
      <4>3. PICK f \in pageFiles : f.page = q /\ f.created = g.created
        BY <2>4, <4>2 DEF SameRows
      <4>. QED BY <1>0, <4>1, <4>2, <4>3 DEF Outdated
    <3>. QED BY <2>3, <3>1 DEF Outdated
  <2>8. ASSUME NEW p \in Pages PROVE DoublesAreFound(p)'
    <3>1. CASE p # q
      BY <1>0, <2>2, <2>5, <3>1, PageKept DEF DoublesAreFound, Outdated
    <3>2. CASE p = q /\ pageFiles' = Without(Existing(w, q))
      BY <2>6, <3>2 DEF DoublesAreFound, NoFile, OneFile
    <3>3. CASE UNCHANGED pageFiles
      BY <1>0, <2>2, <3>3, DoublesKept
    <3>. QED BY <2>3, <3>1, <3>2, <3>3
  <2>9. ASSUME NEW p \in Pages PROVE PageIsFine(w, p)'
    <3>0. PageIsFine(w, p)
      BY <1>0
    <3>1. CASE p # q
      <4>1. /\ NoFile(p)' <=> NoFile(p)
            /\ OneFile(p)' <=> OneFile(p)
            /\ Outdated(p, tasks[w].listed[p])' <=> Outdated(p, tasks[w].listed[p])
            /\ SameRows(w, p)' <=> SameRows(w, p)
        BY <2>3, <2>5, <3>1, PageKept DEF Outdated
      <4>2. /\ p # tasks'[w].page /\ p # tasks[w].page /\ (p \in tasks'[w].todo <=> p \in tasks[w].todo)
            /\ p \in tasks'[w].blank <=> p \in tasks[w].blank
        BY <2>2, <2>3, <3>1
      <4>. QED BY <2>2, <2>3, <3>0, <4>1, <4>2 DEF PageIsFine, Untouched, HasList, InHand, Imported
    <3>2. CASE p = q
      <4>1. NoFile(p)' \/ Outdated(p, tasks[w].listed[p])'
        BY <2>3, <2>6, <2>7, <3>2
      <4>2. tasks'[w].clean => NoFile(p)' /\ (tasks'[w].page = p \/ p \in tasks'[w].blank)
        BY <2>3, <2>6, <3>2
      <4>3. p \notin tasks'[w].todo /\ tasks[w].listed[p] # 0 /\ (p \in tasks'[w].blank => p # tasks'[w].page)
        BY <2>2, <2>3, <2>4, <3>2
      <4>4. NoFile(p)' => OneFile(p)' /\ ~Outdated(p, tasks[w].listed[p])'
        BY DEF NoFile, OneFile, Outdated
      <4>. QED BY <2>2, <2>3, <3>0, <4>1, <4>2, <4>3, <4>4 DEF PageIsFine, Untouched, HasList, InHand, Imported
    <3>. QED BY <3>1, <3>2
  <2>. QED BY <2>8, <2>9, FineTask
<1>11. ASSUME NEW w \in Workers, CreateFile(w) PROVE PagesFine'
  <2>1. PICK q \in Pages : q = tasks[w].page
    BY <1>0, <1>11 DEF CreateFile, Tasks
  <2>2. /\ UNCHANGED <<clock, space>> /\ tasks[w].pc = "create"
        /\ tasks'[w].pc = "enqueue" /\ tasks'[w].listed = tasks[w].listed
        /\ tasks'[w].existing = tasks[w].existing /\ tasks'[w].todo = tasks[w].todo
        /\ tasks'[w].page = q /\ tasks'[w].clean = tasks[w].clean
        /\ tasks'[w].blank = tasks[w].blank /\ tasks'[w].undated = tasks[w].undated
    <3>. DEFINE id == <<tasks[w].page, clock, w, pageSyncs>>
                t == [tasks[w] EXCEPT !.pc = "enqueue", !.row = id]
    <3>1. tasks' = [tasks EXCEPT ![w] = t] /\ UNCHANGED <<clock, space>> /\ tasks[w].pc = "create"
      BY <1>11 DEF CreateFile
    <3>. HIDE DEF id
    <3>2. /\ t.pc = "enqueue" /\ t.listed = tasks[w].listed /\ t.existing = tasks[w].existing
          /\ t.todo = tasks[w].todo /\ t.page = tasks[w].page /\ t.clean = tasks[w].clean
          /\ t.blank = tasks[w].blank /\ t.undated = tasks[w].undated
      BY <1>0 DEF Tasks
    <3>. HIDE DEF t
    <3>3. tasks'[w] = t
      BY <3>1, TaskUpdate
    <3>. QED BY <2>1, <3>1, <3>2, <3>3
  <2>3. PICK row : pageFiles' = pageFiles \cup {row} /\ row.page = q /\ row.created = clock
    <3>. DEFINE id == <<tasks[w].page, clock, w, pageSyncs>>
                file == [page |-> tasks[w].page, created |-> clock, status |-> "pending", task |-> FALSE, id |-> id]
    <3>1. pageFiles' = pageFiles \cup {file}
      BY <1>11 DEF CreateFile
    <3>2. file.page = q /\ file.created = clock
      BY <2>1
    <3>. HIDE DEF file
    <3>. QED BY <3>1, <3>2
  <2>4. \A f : f.page # q => (f \in pageFiles' <=> f \in pageFiles)
    BY <2>3
  <2>5. /\ NoFile(q) \/ Outdated(q, tasks[w].listed[q])
        /\ tasks[w].clean => NoFile(q)
        /\ tasks[w].listed[q] # 0 /\ tasks[w].listed[q] <= clock /\ q \notin tasks[w].todo \cup tasks[w].blank
        /\ space[q] = 0 \/ tasks[w].listed[q] <= space[q]
    BY <1>0, <2>1, <2>2 DEF PageIsFine, HasList, InHand
  <2>6. tasks[w].listed[q] \in Nat /\ space[q] \in Nat /\ clock \in Nat /\ \A f \in pageFiles : f.created \in Nat
    BY <1>0 DEF Tasks
  <2>7. row \in pageFiles' /\ ~(row.created < tasks[w].listed[q])
    BY <2>3, <2>5, <2>6
  <2>8. NoFile(q) => OneFile(q)' /\ ~NoFile(q)' /\ ~Outdated(q, tasks[w].listed[q])'
    <3>1. ASSUME NoFile(q) PROVE \A f \in pageFiles' : f.page = q => f = row
      BY <2>3, <3>1 DEF NoFile
    <3>. QED BY <2>2, <2>3, <2>7, <3>1 DEF OneFile, NoFile, Outdated
  <2>9. Outdated(q, tasks[w].listed[q]) => space[q] = 0 \/ Outdated(q, space[q])'
    BY <2>2, <2>3, <2>5, <2>6 DEF Outdated
  <2>10. ASSUME NEW p \in Pages PROVE DoublesAreFound(p)'
    <3>1. CASE p # q
      BY <1>0, <2>2, <2>4, <3>1, PageKept DEF DoublesAreFound, Outdated
    <3>2. CASE p = q
      BY <2>2, <2>5, <2>8, <2>9, <3>2 DEF DoublesAreFound
    <3>. QED BY <3>1, <3>2
  <2>11. ASSUME NEW p \in Pages PROVE PageIsFine(w, p)'
    <3>0. PageIsFine(w, p)
      BY <1>0
    <3>1. CASE p # q
      <4>1. /\ NoFile(p)' <=> NoFile(p)
            /\ OneFile(p)' <=> OneFile(p)
            /\ Outdated(p, tasks[w].listed[p])' <=> Outdated(p, tasks[w].listed[p])
            /\ SameRows(w, p)' <=> SameRows(w, p)
        BY <2>2, <2>4, <3>1, PageKept DEF Outdated
      <4>2. p # tasks[w].page /\ p # tasks'[w].page
        BY <2>1, <2>2, <3>1
      <4>. QED BY <2>2, <3>0, <4>1, <4>2 DEF PageIsFine, Untouched, HasList, InHand, Imported
    <3>2. CASE p = q
      <4>1. tasks'[w].clean => OneFile(p)' /\ ~NoFile(p)' /\ ~Outdated(p, tasks[w].listed[p])'
        BY <2>2, <2>5, <2>8, <3>2
      <4>2. p \notin tasks'[w].todo \cup tasks'[w].blank /\ tasks'[w].listed[p] # 0
        BY <2>2, <2>5, <3>2
      <4>. QED BY <2>2, <3>0, <4>1, <4>2 DEF PageIsFine, Untouched, HasList, InHand, Imported
    <3>. QED BY <3>1, <3>2
  <2>. QED BY <2>10, <2>11, FineTask
<1>18. ASSUME NEW w \in Workers, CreateFails(w) PROVE PagesFine'
  <2>. DEFINE t == [tasks[w] EXCEPT !.pc = "import", !.page = NoPage, !.clean = FALSE]
  <2>1. /\ tasks' = [tasks EXCEPT ![w] = t] /\ UNCHANGED <<clock, space, pageFiles>> /\ tasks[w].pc = "create"
    BY <1>18 DEF CreateFails
  <2>2. /\ t.pc = "import" /\ t.listed = tasks[w].listed /\ t.existing = tasks[w].existing
        /\ t.todo = tasks[w].todo /\ t.page = NoPage /\ t.clean = FALSE /\ t.blank = tasks[w].blank
    BY <1>0 DEF Tasks
  <2>. HIDE DEF t
  <2>3. tasks'[w] = t
    BY <2>1, TaskUpdate
  <2>4. ASSUME NEW p \in Pages PROVE PageIsFine(w, p)'
    <3>1. /\ OneFile(p)' <=> OneFile(p)
          /\ Outdated(p, tasks[w].listed[p])' <=> Outdated(p, tasks[w].listed[p])
          /\ SameRows(w, p)' <=> SameRows(w, p)
      BY <2>1, <2>2, <2>3, PageKept DEF Outdated
    <3>2. PageIsFine(w, p) /\ p # NoPage
      BY <1>0
    <3>. QED BY <2>1, <2>2, <2>3, <3>1, <3>2 DEF PageIsFine, Untouched, HasList, InHand, Imported
  <2>. QED BY <1>0, <2>1, <2>4, DoublesKept, FineTask
<1>19. ASSUME NEW w \in Workers, EnqueueFile(w) PROVE PagesFine'
  <2>. DEFINE t == [tasks[w] EXCEPT !.pc = "import", !.page = NoPage, !.row = NoPage, !.ok = tasks[w].ok + 1]
  <2>1. /\ tasks' = [tasks EXCEPT ![w] = t]
    BY <1>19 DEF EnqueueFile
  <2>2. UNCHANGED <<clock, space>> /\ tasks[w].pc = "enqueue"
    BY <1>19 DEF EnqueueFile
  <2>3. /\ t.pc = "import" /\ t.listed = tasks[w].listed /\ t.existing = tasks[w].existing
        /\ t.todo = tasks[w].todo /\ t.page = NoPage /\ t.clean = tasks[w].clean /\ t.blank = tasks[w].blank
        /\ t.undated = tasks[w].undated
    BY <1>0 DEF Tasks
  <2>. HIDE DEF t
  <2>4. tasks'[w] = t
    BY <2>1, TaskUpdate
  <2>5. PICK g : /\ pageFiles' = {g[f] : f \in pageFiles}
                 /\ \A f \in pageFiles : g[f].page = f.page /\ g[f].id = f.id /\ g[f].created = f.created
    <3>1. CASE UNCHANGED pageFiles
      <4>. WITNESS [f \in pageFiles |-> f]
      <4>. QED BY <3>1
    <3>2. CASE pageFiles' = {IF f.id = tasks[w].row THEN [f EXCEPT !.task = TRUE] ELSE f : f \in pageFiles}
      <4>. WITNESS [f \in pageFiles |-> IF f.id = tasks[w].row THEN [f EXCEPT !.task = TRUE] ELSE f]
      <4>1. \A f \in pageFiles : f \in PageRows
        BY <1>0 DEF RowTypes
      <4>. QED BY <3>2, <4>1 DEF PageRows
    <3>. QED BY <1>19, <3>1, <3>2 DEF EnqueueFile
  <2>6. ASSUME NEW p \in Pages
        PROVE  /\ NoFile(p)' <=> NoFile(p)
               /\ OneFile(p) => OneFile(p)'
               /\ Outdated(p, tasks[w].listed[p])' <=> Outdated(p, tasks[w].listed[p])
               /\ Outdated(p, space[p])' <=> Outdated(p, space[p])
               /\ SameRows(w, p) => SameRows(w, p)'
    BY <2>2, <2>3, <2>4, <2>5, Restamped DEF Outdated
  <2>7. ASSUME NEW p \in Pages PROVE DoublesAreFound(p)'
    BY <1>0, <2>2, <2>6 DEF DoublesAreFound
  <2>8. ASSUME NEW p \in Pages PROVE PageIsFine(w, p)'
    <3>1. PageIsFine(w, p) /\ p # NoPage
      BY <1>0
    <3>. QED BY <2>2, <2>3, <2>4, <2>6, <3>1 DEF PageIsFine, Untouched, HasList, InHand, Imported
  <2>. QED BY <2>7, <2>8, FineTask
<1>12. ASSUME NEW w \in Workers, CountFiles(w) PROVE PagesFine'
  <2>. DEFINE total == Cardinality(pageFiles)
              done == Cardinality(pageFiles \ Waiting)
  <2>1. /\ UNCHANGED <<clock, space, pageFiles>> /\ tasks[w].pc = "import" /\ tasks[w].todo = {}
        /\ tasks[w].page = NoPage
        /\ tasks' = [tasks EXCEPT ![w].pc = "write", ![w].total = total, ![w].done = done]
    BY <1>0, <1>12 DEF CountFiles
  <2>. HIDE DEF total, done
  <2>2. /\ tasks'[w].pc = "write" /\ tasks'[w].listed = tasks[w].listed
        /\ tasks'[w].existing = tasks[w].existing /\ tasks'[w].todo = tasks[w].todo
        /\ tasks'[w].page = tasks[w].page /\ tasks'[w].clean = tasks[w].clean
        /\ tasks'[w].blank = tasks[w].blank /\ tasks'[w].undated = tasks[w].undated
    BY <2>1 DEF SpaceTypes, Tasks
  <2>3. ASSUME NEW p \in Pages PROVE PageIsFine(w, p)'
    <3>1. /\ NoFile(p)' <=> NoFile(p)
          /\ OneFile(p)' <=> OneFile(p)
          /\ Outdated(p, tasks[w].listed[p])' <=> Outdated(p, tasks[w].listed[p])
      BY <2>1, <2>2, PageKept DEF Outdated
    <3>2. PageIsFine(w, p)
      BY <1>0
    <3>. QED BY <2>1, <2>2, <3>1, <3>2 DEF PageIsFine, Untouched, HasList, InHand, Imported
  <2>. QED BY <1>0, <2>1, <2>3, DoublesKept, FineTask
<1>13. ASSUME NEW f \in pageFiles, ProcessFile(f) \/ SweepFile(f) PROVE PagesFine'
  <2>1. PICK status \in {"ready", "error"} :
            pageFiles' = (pageFiles \ {f}) \cup {[f EXCEPT !.status = status, !.task = FALSE]}
    BY <1>13 DEF ProcessFile, SweepFile
  <2>2. UNCHANGED <<clock, space, tasks>>
    BY <1>13 DEF ProcessFile, SweepFile
  <2>3. PICK g : /\ pageFiles' = {g[h] : h \in pageFiles}
                 /\ \A h \in pageFiles : g[h].page = h.page /\ g[h].id = h.id /\ g[h].created = h.created
    <3>. DEFINE row == [f EXCEPT !.status = status, !.task = FALSE]
    <3>1. row.page = f.page /\ row.id = f.id /\ row.created = f.created
      BY <1>0 DEF RowTypes, PageRows
    <3>2. pageFiles' = (pageFiles \ {f}) \cup {row}
      BY <2>1
    <3>. HIDE DEF row
    <3>. WITNESS [h \in pageFiles |-> IF h = f THEN row ELSE h]
    <3>. QED BY <3>1, <3>2
  <2>4. ASSUME NEW p \in Pages PROVE DoublesAreFound(p)'
    <3>1. OneFile(p) \/ space[p] = 0 \/ Outdated(p, space[p])
      BY <1>0 DEF DoublesAreFound
    <3>2. OneFile(p)' \/ space'[p] = 0 \/ Outdated(p, space[p])'
      BY <2>2, <2>3, <3>1, Restamped DEF Outdated
    <3>. QED BY <3>2 DEF DoublesAreFound
  <2>5. ASSUME NEW p \in Pages, NEW w \in Workers PROVE PageIsFine(w, p)'
    <3>1. /\ NoFile(p)' <=> NoFile(p)
          /\ OneFile(p) => OneFile(p)'
          /\ Outdated(p, tasks[w].listed[p])' <=> Outdated(p, tasks[w].listed[p])
          /\ SameRows(w, p) => SameRows(w, p)'
      BY <2>2, <2>3, Restamped DEF Outdated
    <3>2. PageIsFine(w, p)
      BY <1>0
    <3>. QED BY <2>2, <3>1, <3>2 DEF PageIsFine, Untouched, HasList, InHand, Imported
  <2>. QED BY <2>4, <2>5 DEF PagesFine
<1>14. CASE UNCHANGED <<clock, space, pageFiles, tasks>>
  <2>1. ASSUME NEW p \in Pages, NEW w \in Workers PROVE PageIsFine(w, p)'
    <3>1. /\ NoFile(p)' <=> NoFile(p)
          /\ OneFile(p)' <=> OneFile(p)
          /\ Outdated(p, tasks[w].listed[p])' <=> Outdated(p, tasks[w].listed[p])
          /\ SameRows(w, p)' <=> SameRows(w, p)
      BY <1>14, PageKept DEF Outdated
    <3>2. PageIsFine(w, p)
      BY <1>0
    <3>. QED BY <1>14, <3>1, <3>2 DEF PageIsFine, Untouched, HasList, InHand, Imported
  <2>. QED BY <1>0, <1>14, <2>1, DoublesKept DEF PagesFine
<1>15. ASSUME NEW q \in Pages, EditPage(q) PROVE PagesFine'
  <2>1. /\ clock' = clock + 1 /\ UNCHANGED <<pageFiles, tasks>>
        /\ \A p \in Pages : space'[p] = space[p] \/ space'[p] = 0 \/ space'[p] = clock + 1
    BY <1>0, <1>15 DEF EditPage
  <2>2. ASSUME NEW p \in Pages PROVE DoublesAreFound(p)'
    <3>1. CASE space'[p] = space[p]
      BY <1>0, <2>1, <3>1 DEF DoublesAreFound, OneFile, Outdated
    <3>2. CASE space'[p] = 0
      BY <3>2 DEF DoublesAreFound
    <3>3. CASE space'[p] = clock + 1
      <4>1. ~OneFile(p) => \E f \in pageFiles : f.page = p
        BY DEF OneFile
      <4>2. \A f \in pageFiles : f.created < clock + 1
        BY <1>0
      <4>. QED BY <2>1, <3>3, <4>1, <4>2 DEF DoublesAreFound, OneFile, Outdated
    <3>. QED BY <2>1, <3>1, <3>2, <3>3
  <2>3. ASSUME NEW p \in Pages, NEW w \in Workers PROVE PageIsFine(w, p)'
    <3>1. /\ NoFile(p)' <=> NoFile(p)
          /\ OneFile(p)' <=> OneFile(p)
          /\ Outdated(p, tasks[w].listed[p])' <=> Outdated(p, tasks[w].listed[p])
          /\ SameRows(w, p)' <=> SameRows(w, p)
      BY <2>1, PageKept DEF Outdated
    <3>2. PageIsFine(w, p)
      BY <1>0
    <3>3. tasks[w].listed[p] \in Nat /\ space[p] \in Nat /\ clock \in Nat
      BY <1>0 DEF Tasks
    <3>4. HasList(w)' => tasks'[w].listed[p] <= clock' /\ (space'[p] = 0 \/ tasks'[w].listed[p] <= space'[p])
      BY <2>1, <3>2, <3>3 DEF PageIsFine, HasList
    <3>. QED BY <2>1, <3>1, <3>2, <3>4 DEF PageIsFine, Untouched, HasList, InHand, Imported
  <2>. QED BY <2>2, <2>3 DEF PagesFine
<1>16. ASSUME NEW x \in wraps, WrapSource(x) \/ WrapProgress(x) \/ WrapWrite(x) PROVE PagesFine'
  BY <1>14, <1>16 DEF WrapSource, WrapProgress, WrapWrite
<1>17. CASE UNCHANGED spaceVars
  BY <1>14, <1>17 DEF spaceVars
<1>. QED BY <1>1, <1>2, <1>3, <1>4, <1>5, <1>6, <1>7, <1>8, <1>9, <1>10, <1>11, <1>12, <1>13, <1>15, <1>16, <1>17, <1>18, <1>19
     DEF SpaceNext, TaskStep, FileStep

-----------------------------------------------------------------------------
LEMMA SpaceInitInv == SpaceInit => SpaceTypes /\ CountsFit /\ PagesFine
<1>. SUFFICES ASSUME SpaceInit PROVE SpaceTypes /\ CountsFit /\ PagesFine
  OBVIOUS
<1>1. \A w \in Workers : tasks[w] = NoTask
  BY DEF SpaceInit
<1>2. SpaceTypes
  <2>1. /\ clock \in Nat \ {0} /\ space \in [Pages -> 0 .. clock] /\ pageSyncs \in Nat /\ pageFiles = {}
        /\ source \in [status : Statuses, pageCount : Nat, failures : Nat]
        /\ tasks \in [Workers -> Tasks]
    BY NoTaskType DEF SpaceInit, Statuses
  <2>2. \A w \in Workers : TaskTypes(tasks[w])
    BY <1>1, NoTaskType, NoTaskFits
  <2>. QED BY <2>1, <2>2 DEF SpaceTypes, RowTypes
<1>3. CountsFit
  <2>1. source.pageCount = 0
    BY DEF SpaceInit
  <2>2. \A w \in Workers : TaskCounts(tasks[w])
    BY <1>1, NoTaskType, NothingCounted
  <2>. QED BY <2>1, <2>2, PagesCount DEF CountsFit
<1>4. PagesFine
  <2>1. \A p \in Pages : DoublesAreFound(p)
    BY DEF SpaceInit, DoublesAreFound, OneFile
  <2>2. \A p \in Pages, w \in Workers : PageIsFine(w, p)
    BY <1>1, NoTaskType, SpaceAssumption DEF SpaceAssumption, PageIsFine, HasList, Untouched, InHand, Imported, Importing
  <2>. QED BY <2>1, <2>2 DEF PagesFine
<1>. QED BY <1>2, <1>3, <1>4

\* A sync that finishes clean has settled every page.
LEMMA CleanFinish ==
    ASSUME SpaceTypes, PagesFine, NEW w \in Workers, Finalize(w), tasks[w].clean, NEW p \in Pages
    PROVE  Settled(w, p)
<1>1. /\ tasks[w].pc = "write" /\ tasks[w].todo = {} /\ tasks[w].page = NoPage /\ tasks[w] \in Tasks
  BY DEF Finalize, TaskAt, SpaceTypes, TaskTypes, Importing
<1>2. /\ tasks[w].listed[p] = 0 => NoFile(p) /\ p \notin tasks[w].blank
      /\ tasks[w].listed[p] # 0 => (NoFile(p) <=> p \in tasks[w].blank)
      /\ tasks[w].listed[p] # 0 /\ p \notin tasks[w].undated => OneFile(p) /\ ~Outdated(p, tasks[w].listed[p])
  BY <1>1, SpaceAssumption DEF SpaceAssumption, PagesFine, PageIsFine, Imported, InHand
<1>3. FilesOf(p) = {} <=> NoFile(p)
  BY DEF FilesOf, NoFile
<1>4. ASSUME p \notin tasks[w].undated
      PROVE  Cardinality(FilesOf(p)) <= 1 /\ \A f \in FilesOf(p) : f.created >= tasks[w].listed[p]
  <2>1. CASE NoFile(p)
    BY <1>3, <2>1, FS_EmptySet
  <2>2. CASE ~NoFile(p)
    <3>1. PICK f \in pageFiles : f.page = p
      BY <2>2 DEF NoFile
    <3>0. OneFile(p) /\ ~Outdated(p, tasks[w].listed[p])
      BY <1>2, <1>4, <2>2
    <3>2. FilesOf(p) = {f}
      BY <3>0, <3>1 DEF OneFile, FilesOf
    <3>3. f.created \in Nat /\ tasks[w].listed[p] \in Nat
      BY <1>1 DEF SpaceTypes, RowTypes, PageRows, Tasks
    <3>4. ~(f.created < tasks[w].listed[p])
      BY <3>0, <3>1 DEF Outdated
    <3>. QED BY <3>2, <3>3, <3>4, FS_Singleton
  <2>. QED BY <2>1, <2>2
<1>5. FilesOf(p) = {} <=> tasks[w].listed[p] = 0 \/ p \in tasks[w].blank
  BY <1>2, <1>3
<1>. QED BY <1>4, <1>5 DEF Settled

\* As long as one worker at a time syncs a source: a sync of a Confluence space
\* without a failure leaves one file for each page it listed with a content, none
\* for any other, and no page with a readable date that a second sync would import
\* again, whatever earlier syncs that failed or crashed left (PagesAreComplete).
THEOREM CleanSyncsAreComplete == ASSUME OneWorker PROVE SpaceSpec => PagesAreComplete
<1>. DEFINE Inv == SpaceTypes /\ CountsFit /\ PagesFine
            Clean == \A w \in Workers : Finalize(w) /\ tasks[w].clean => \A p \in Pages : Settled(w, p)
<1>1. SpaceInit => Inv
  BY SpaceInitInv
<1>2. Inv /\ [SpaceNext]_spaceVars => Inv'
  BY TypesStep, CountsStep, PagesStep
<1>3. Inv => Clean
  BY CleanFinish
<1>4. Inv => SpaceTypeOK
  BY PagesCount DEF SpaceTypes, CountsFit, SpaceTypeOK, TaskTypes, RowTypes, PageRows, Tasks, Statuses
<1>. HIDE DEF Inv
<1>. QED BY <1>1, <1>2, <1>3, <1>4, PTL DEF SpaceSpec, PagesAreComplete, CleanSyncIsComplete
=============================================================================
