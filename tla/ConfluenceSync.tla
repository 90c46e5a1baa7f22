--------------------------- MODULE ConfluenceSync ---------------------------
(***************************************************************************)
(* The sync of one Confluence source (internal/confluence/sync.go): the    *)
(* sync task lists the pages of the space, replaces the files of the pages *)
(* that changed and marks the source; each new file is processed by a task *)
(* of its own, whose wrapper flips the source back to 'active' when it was *)
(* the last one (UpdateSourceProgressAfterFile).                           *)
(*                                                                         *)
(* Every statement and every request to Confluence is one step.  Pages are *)
(* imported one after another (the code runs a bounded pool of them);      *)
(* attachments, which are files of their page, are left out.  A version of *)
(* a page is the instant it was saved at; any page may come without a date *)
(* that can be read, and any content may be empty.                         *)
(***************************************************************************)
EXTENDS Integers, FiniteSets

CONSTANTS Pages,
          Workers,       \* workers that may run a sync task at the same time
          MaxTaskRetry,  \* of a sync task
          MaxFailures,   \* failed syncs in a row that pause a source
          MaxPageSyncs,  \* bound: sync tasks, triggered or scheduled
          MaxEdits,      \* bound: edits of the space
          MaxFaults,     \* bound: failed requests and statements, crashes
          NoPage

ASSUME SpaceAssumption ==
    /\ IsFiniteSet(Pages) /\ NoPage \notin Pages
    /\ {MaxTaskRetry, MaxPageSyncs, MaxEdits, MaxFaults} \subseteq Nat /\ MaxFailures \in Nat \ {0}

VARIABLES
    clock,
    space,      \* page -> the version Confluence has; 0: no such page
    pageFiles,  \* the files rows of the source
    source,     \* the confluence_sources row
    tasks,      \* worker -> the sync task it runs
    wraps,      \* wrappers that run after a file task
    pageSyncs, faults

spaceVars == <<clock, space, pageFiles, source, tasks, wraps, pageSyncs, faults>>

Statuses == {"active", "syncing", "error", "paused"}
NoTask == [pc |-> "idle", retried |-> 0, failures |-> 0, listed |-> [p \in Pages |-> 0],
           undated |-> {}, existing |-> {}, todo |-> {}, page |-> NoPage, row |-> NoPage,
           blank |-> {}, ok |-> 0, clean |-> TRUE, total |-> 0, done |-> 0]

SpaceInit ==
    /\ clock = 1
    /\ space = [p \in Pages |-> 1]
    /\ pageFiles = {}
    /\ source = [status |-> "active", pageCount |-> 0, failures |-> 0]
    /\ tasks = [w \in Workers |-> NoTask]
    /\ wraps = {}
    /\ pageSyncs = 0
    /\ faults = 0

Fault == faults < MaxFaults /\ faults' = faults + 1
NoFault == UNCHANGED faults
TaskAt(w, pc) == tasks[w].pc = pc
GoTo(w, pc) == tasks' = [tasks EXCEPT ![w].pc = pc]
FilesOf(p) == {f \in pageFiles : f.page = p}
Without(gone) == {f \in pageFiles : f.id \notin {g.id : g \in gone}}
Waiting == {f \in pageFiles : f.status = "pending"}

\* asynq runs a failed task again until its retries are used up.
TaskAgain(w) ==
    tasks' = [tasks EXCEPT ![w] =
               IF tasks[w].retried < MaxTaskRetry
               THEN [NoTask EXCEPT !.pc = "start", !.retried = tasks[w].retried + 1]
               ELSE NoTask]

-----------------------------------------------------------------------------
(* The sync task.                                                          *)

\* TriggerSync or the sweeper; neither asks whether a sync is running.
TriggerSync(w) ==
    /\ TaskAt(w, "idle")
    /\ pageSyncs < MaxPageSyncs /\ pageSyncs' = pageSyncs + 1
    /\ GoTo(w, "start")
    /\ UNCHANGED <<clock, space, pageFiles, source, wraps, faults>>

ReadSource(w) ==
    /\ TaskAt(w, "start")
    /\ tasks' = [tasks EXCEPT ![w] =
                  IF source.status = "paused" THEN NoTask
                  ELSE [@ EXCEPT !.pc = "list", !.failures = source.failures]]
    /\ UNCHANGED <<clock, space, pageFiles, source, wraps, pageSyncs, faults>>

ListPages(w) ==
    /\ TaskAt(w, "list")
    /\ \E undated \in SUBSET {p \in Pages : space[p] # 0} :
         tasks' = [tasks EXCEPT ![w].pc = "files", ![w].listed = space, ![w].undated = undated]
    /\ UNCHANGED <<clock, space, pageFiles, source, wraps, pageSyncs, faults>>

\* recordSyncFailure: no connection, the space cannot be read.
ListFails(w) ==
    /\ TaskAt(w, "list")
    /\ Fault
    /\ LET failures == tasks[w].failures + 1
       IN  source' = [status    |-> IF failures >= MaxFailures THEN "paused" ELSE "error",
                   pageCount |-> 0, failures |-> failures]
    /\ TaskAgain(w)
    /\ UNCHANGED <<clock, space, pageFiles, wraps, pageSyncs>>

ReadFiles(w) ==
    /\ TaskAt(w, "files")
    /\ tasks' = [tasks EXCEPT ![w].pc = "delete", ![w].existing = pageFiles]
    /\ UNCHANGED <<clock, space, pageFiles, source, wraps, pageSyncs, faults>>

\* Files of the pages that are gone; a failure is only logged.
DeleteRemoved(w) ==
    /\ TaskAt(w, "delete")
    /\ \/ /\ pageFiles' = Without({f \in tasks[w].existing : tasks[w].listed[f.page] = 0})
          /\ NoFault
          /\ GoTo(w, "mark")
       \/ /\ \E f \in tasks[w].existing : tasks[w].listed[f.page] = 0
          /\ Fault
          /\ tasks' = [tasks EXCEPT ![w].pc = "mark", ![w].clean = FALSE]
          /\ UNCHANGED pageFiles
    /\ UNCHANGED <<clock, space, source, wraps, pageSyncs>>

MarkSpaceSyncing(w) ==
    /\ TaskAt(w, "mark")
    /\ source' = [source EXCEPT !.status = "syncing", !.pageCount = 0]
    /\ tasks' = [tasks EXCEPT ![w].pc = "import",
                            ![w].todo = {p \in Pages : tasks[w].listed[p] # 0}]
    /\ UNCHANGED <<clock, space, pageFiles, wraps, pageSyncs, faults>>

Existing(w, p) == {f \in tasks[w].existing : f.page = p}

\* A page without a file, or saved after its oldest file was created (the rows
\* come ordered by created_at and the first one is looked at).  A page whose
\* date cannot be read counts as unchanged.
Updated(w, p) ==
    \/ Existing(w, p) = {}
    \/ p \notin tasks[w].undated /\ \E f \in Existing(w, p) : tasks[w].listed[p] > f.created

SkipPage(w) ==
    /\ TaskAt(w, "import")
    /\ \E p \in tasks[w].todo :
         /\ ~Updated(w, p)
         /\ tasks' = [tasks EXCEPT ![w].todo = @ \ {p}, ![w].ok = @ + 1]
    /\ UNCHANGED <<clock, space, pageFiles, source, wraps, pageSyncs, faults>>

\* Mutant of FetchPage: the old files of an updated page stay.
FetchPageKeeping(w) ==
    /\ TaskAt(w, "import")
    /\ \E p \in tasks[w].todo :
         /\ Updated(w, p) /\ space[p] # 0
         /\ tasks' = [tasks EXCEPT ![w].pc = "create", ![w].todo = @ \ {p}, ![w].page = p]
    /\ UNCHANGED <<clock, space, pageFiles, source, wraps, pageSyncs, faults>>

\* The import of a page once its content was asked for: a text goes on to its
\* file, an empty one is imported without one, and a failure ends it.
Fetched(w, p, deleted, body) ==
    [tasks[w] EXCEPT !.pc    = IF body = "text" THEN "create" ELSE "import",
                     !.todo  = @ \ {p},
                     !.page  = IF body = "text" THEN p ELSE NoPage,
                     !.blank = IF body = "empty" THEN @ \cup {p} ELSE @,
                     !.ok    = IF body = "empty" THEN @ + 1 ELSE @,
                     !.clean = IF deleted /\ body # "none" THEN @ ELSE FALSE]

\* The old files of a changed page are deleted, then its content is fetched;
\* either may fail, and only the second costs the page its import.
FetchPage(w) ==
    /\ TaskAt(w, "import")
    /\ \E p \in tasks[w].todo, deleted \in BOOLEAN, body \in {"text", "empty", "none"} :
         /\ Updated(w, p)
         /\ deleted \/ Existing(w, p) # {}
         /\ body # "none" => space[p] # 0
         /\ IF deleted /\ (body = "none" => space[p] = 0) THEN NoFault ELSE Fault
         /\ pageFiles' = IF deleted THEN Without(Existing(w, p)) ELSE pageFiles
         /\ tasks' = [tasks EXCEPT ![w] = Fetched(w, p, deleted, body)]
    /\ UNCHANGED <<clock, space, source, wraps, pageSyncs>>

CreateFile(w) ==
    /\ TaskAt(w, "create")
    /\ LET id == <<tasks[w].page, clock, w, pageSyncs>>
       IN  /\ pageFiles' = pageFiles \cup {[page |-> tasks[w].page, created |-> clock,
                                             status |-> "pending", task |-> FALSE, id |-> id]}
           /\ tasks' = [tasks EXCEPT ![w].pc = "enqueue", ![w].row = id]
    /\ NoFault
    /\ UNCHANGED <<clock, space, source, wraps, pageSyncs>>

\* The file could not be stored, or its row not be written.
CreateFails(w) ==
    /\ TaskAt(w, "create")
    /\ Fault
    /\ tasks' = [tasks EXCEPT ![w].pc = "import", ![w].page = NoPage, ![w].clean = FALSE]
    /\ UNCHANGED <<clock, space, pageFiles, source, wraps, pageSyncs>>

\* The task of the new file; a failed enqueue is only logged.
EnqueueFile(w) ==
    /\ TaskAt(w, "enqueue")
    /\ \/ NoFault /\ pageFiles' = {IF f.id = tasks[w].row THEN [f EXCEPT !.task = TRUE] ELSE f : f \in pageFiles}
       \/ Fault /\ UNCHANGED pageFiles
    /\ tasks' = [tasks EXCEPT ![w].pc = "import", ![w].page = NoPage, ![w].row = NoPage, ![w].ok = @ + 1]
    /\ UNCHANGED <<clock, space, source, wraps, pageSyncs>>

\* The task times out, or its worker dies, while pages are imported.
TaskInterrupted(w) ==
    /\ tasks[w].pc \notin {"idle", "start"}
    /\ Fault
    /\ TaskAgain(w)
    /\ UNCHANGED <<clock, space, pageFiles, source, wraps, pageSyncs>>

CountFiles(w) ==
    /\ TaskAt(w, "import") /\ tasks[w].todo = {}
    /\ tasks' = [tasks EXCEPT ![w].pc = "write", ![w].total = Cardinality(pageFiles),
                            ![w].done = Cardinality(pageFiles \ Waiting)]
    /\ UNCHANGED <<clock, space, pageFiles, source, wraps, pageSyncs, faults>>

\* The source is active if every file was processed already; else its page
\* count tells the wrappers that the import is over.
Finalize(w) ==
    /\ TaskAt(w, "write")
    /\ source' = [status    |-> IF tasks[w].done >= tasks[w].total THEN "active" ELSE source.status,
               pageCount |-> tasks[w].ok, failures |-> 0]
    /\ tasks' = [tasks EXCEPT ![w] = NoTask]
    /\ UNCHANGED <<clock, space, pageFiles, wraps, pageSyncs, faults>>

-----------------------------------------------------------------------------
(* The tasks of the files.                                                 *)

\* The last attempt of a file's task ends, whichever way; its wrapper follows.
ProcessFile(f) ==
    /\ f \in pageFiles /\ f.status = "pending" /\ f.task
    /\ \E status \in {"ready", "error"} :
         pageFiles' = (pageFiles \ {f}) \cup {[f EXCEPT !.status = status, !.task = FALSE]}
    /\ wraps' = wraps \cup {[id |-> f.id, pc |-> "source", finished |-> FALSE, all |-> FALSE]}
    /\ UNCHANGED <<clock, space, source, tasks, pageSyncs, faults>>

\* The worker dies in the last attempt of a file: the maintenance sweep marks
\* it, and no wrapper runs.  (A file whose task was never enqueued stays
\* 'pending': the sweep looks at 'processing' rows only.)
SweepFile(f) ==
    /\ f \in pageFiles /\ f.status = "pending" /\ f.task
    /\ Fault
    /\ pageFiles' = (pageFiles \ {f}) \cup {[f EXCEPT !.status = "error", !.task = FALSE]}
    /\ UNCHANGED <<clock, space, source, tasks, wraps, pageSyncs>>

WrapSource(x) ==
    /\ x.pc = "source"
    /\ wraps' = (wraps \ {x}) \cup
                 IF /\ \E f \in pageFiles : f.id = x.id
                    /\ source.status = "syncing"
                 THEN {[x EXCEPT !.pc = "progress", !.finished = source.pageCount > 0]}
                 ELSE {}
    /\ UNCHANGED <<clock, space, pageFiles, source, tasks, pageSyncs, faults>>

WrapProgress(x) ==
    /\ x.pc = "progress"
    /\ wraps' = (wraps \ {x}) \cup
                 IF pageFiles = {} THEN {} ELSE {[x EXCEPT !.pc = "write", !.all = Waiting = {}]}
    /\ UNCHANGED <<clock, space, pageFiles, source, tasks, pageSyncs, faults>>

WrapWrite(x) ==
    /\ x.pc = "write"
    /\ wraps' = wraps \ {x}
    /\ source' = IF x.all /\ x.finished THEN [source EXCEPT !.status = "active", !.failures = 0] ELSE source
    /\ UNCHANGED <<clock, space, pageFiles, tasks, pageSyncs, faults>>

-----------------------------------------------------------------------------
\* The authors of the space save, remove or bring back a page.
EditPage(p) ==
    /\ clock <= MaxEdits
    /\ clock' = clock + 1
    /\ space' \in {[space EXCEPT ![p] = clock + 1], [space EXCEPT ![p] = 0]}
    /\ UNCHANGED <<pageFiles, source, tasks, wraps, pageSyncs, faults>>

TaskStep(w) ==
    \/ ReadSource(w) \/ ListPages(w) \/ ListFails(w) \/ ReadFiles(w) \/ DeleteRemoved(w)
    \/ MarkSpaceSyncing(w) \/ SkipPage(w) \/ FetchPage(w) \/ CreateFile(w)
    \/ CreateFails(w) \/ EnqueueFile(w) \/ CountFiles(w) \/ Finalize(w)

FileStep ==
    \/ \E f \in pageFiles : ProcessFile(f) \/ SweepFile(f)
    \/ \E x \in wraps : WrapSource(x) \/ WrapProgress(x) \/ WrapWrite(x)

SpaceNext ==
    \/ \E w \in Workers : TriggerSync(w) \/ TaskStep(w) \/ TaskInterrupted(w)
    \/ FileStep
    \/ \E p \in Pages : EditPage(p)

SpaceSpec == SpaceInit /\ [][SpaceNext]_spaceVars
-----------------------------------------------------------------------------
SpaceTypeOK ==
    /\ space \in [Pages -> 0 .. clock]
    /\ source.status \in Statuses
    /\ source.pageCount \in 0 .. Cardinality(Pages)
    /\ \A f \in pageFiles : /\ f.page \in Pages /\ f.created \in 1 .. clock
                            /\ f.status \in {"pending", "ready", "error"}
    /\ \A w \in Workers : tasks[w].retried \in 0 .. MaxTaskRetry /\ tasks[w].todo \subseteq Pages

\* What a sync has done for a page it listed (or did not list).
Settled(w, p) ==
    LET t == tasks[w]
    IN  /\ FilesOf(p) = {} <=> t.listed[p] = 0 \/ p \in t.blank
        /\ p \notin t.undated => /\ Cardinality(FilesOf(p)) <= 1
                                 /\ \A f \in FilesOf(p) : f.created >= t.listed[p]

\* A sync whose requests and statements all succeeded leaves one file for each
\* page it listed, but none where it found the content empty, and none for any
\* other page, whatever earlier syncs that failed, timed out or crashed half way
\* left behind.  And that file is no older than the page, so until the page is
\* edited again no sync replaces it.  Of a page without a readable date it
\* promises only that there is a file.
CleanSyncIsComplete ==
    [][\A w \in Workers : Finalize(w) /\ tasks[w].clean => \A p \in Pages : Settled(w, p)]_spaceVars

\* ... and whatever fails, the source and its files keep their types.
PagesAreComplete == CleanSyncIsComplete /\ []SpaceTypeOK
=============================================================================
