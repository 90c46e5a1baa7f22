# JustRAG: verification project

JustRAG is a retrieval-augmented-generation service.  A React client talks to
a Go server (`go-backend/cmd/server`); slow work runs in Go workers
(`cmd/worker`) that take tasks from Asynq queues in Redis.  State lives in
*two* PostgreSQL databases (a main one and a pgvector one, reached over
separate pools), in Redis and in a blob store.  **No transaction spans two of
them.**  Almost everything that is hard in this code follows from that
sentence: a row, an index and a blob are written one after the other, by
requests and tasks that are retried, crash, overlap, and race with deletes.

All paths below are relative to `src/go-backend/internal/` unless they start
with another top directory.

## 1. Inventory

| Component | State it keeps | Operations | What is hard | Correct means | Module |
|---|---|---|---|---|---|
| **File row store** `files/store_pg.go` | `files.status`, `error`, `index_fingerprint`, `progress_updated_at` (also the donor *generation token*) | `UpdateFileStatus`, `MarkFileError*`, `ResetFileForRetry`, `SetIndexFingerprint`, `FindCopyDonor`, `DonorStillValid`, `MarkCopied` | many writers, single-statement updates without a version check | status and fingerprint never claim more than the index holds | `CopyMode`, `FileStatus` |
| **Ingest pipeline** `processor/` | chunk, parent and HyPE rows of the file; the run's locals | `ProcessFileWithResult`: guard, parse, split, embed, store, HyPE, RAPTOR, stamp | partial failure, degraded stages, retries from the top, deletion and settings changes mid-run | a completed run leaves one whole build; a stamp is honest | `CopyMode` |
| **Copy mode** `worker/fileprocessing_copy.go`, `vector/copy.go` | `donor` and `generation` in the worker | `tryCopy`, `CopyFileIndex`, `cleanTarget` | the donor is re-ingested, deleted or half-deleted while it is read | a copy is kept only if the donor was whole all along | `CopyMode`, `DonorRegistry` |
| **Tasks** `jobs/`, `worker/`, `app/worker.go` | Asynq queues, retry counts | delivery, retry, `MarkErrorOnExhaustion`, revoke | at-least-once delivery, two tasks of one file | no file waits for ever, an error has a reason and comes last | `FileStatus`, `CopyMode` |
| **Delete cascade** `cascade/deleter.go` | none | `DeleteFiles`, `DeleteKB`, `DeleteUser`, `DeleteGlobalKB`, `DeleteUserFile`, `DeleteChatAttachment` | lists taken before the transaction, best-effort steps, shared blobs, racing ingests | nothing of others goes, nothing of the deleted stays | `KBDeletion`, `UserLibrary`, `CopyMode` |
| **Retry, re-embed** `files/http_retry.go`, `adminmaintenance/` | none | `Retry`, `RetryFailed`, `ReembedKB`, `ReembedAll` | double requests, refused enqueues, requests against live tasks | a reset row has a task or is taken back | `FileStatus` |
| **Maintenance** `worker/maintenance.go` | tickers | stuck-file sweep, orphan-vector sweep | sweeps judge by timestamps and ids read from one database what the other holds | nothing live is removed, nothing is stuck | `FileStatus`, `KBDeletion` |
| **User file library** `userfiles/`, `files/library_add.go` | `user_files`, blobs under `users/`, chat attachments | upload (dedup by hash), adopt, add to a KB, attach, delete, orphan sweep | write-blob-then-row, blobs that several rows share, adoption against deletes | every referenced blob exists, acknowledged uploads stay, garbage goes | `UserLibrary` |
| **Scheduler leader** `app/scheduler.go` | a Redis lock with a TTL | acquire, refresh, step down | pauses longer than the TTL, a replica that dies | one leader enqueues, a leader eventually | `SyncScheduler` |
| **Sync sweeper** `syncsched/`, `syncwindow/` | `next_sync_at`, `last_sync_at` of sources | `Tick`: list, stamp, enqueue; `NextSlot` | stamp before enqueue, edits in between, window and calendar arithmetic | no source twice per slot, none starved, the slot is the right one | `SyncScheduler`, `SyncWindow` |
| **Connectors** `gitrepo/sync.go`, `confluence/sync.go` | source row, `files` rows of the source | clone or list, reconcile, delete, create, record | crashes and retries between delete and create, edits during the sync | after a sync the files are those of the remote | `GitSync`, `ConfluenceSync` |
| **Agent runs** `adkbridge/`, `agui/`, `chat/agentchat_hooks.go` | `agent_runs`, session events, messages | start, interrupt, claim, finish, expire | resume, expiry and finish race for one pause | an approval is used once, by the run that answers it | `AgentRuns` |
| **KB chat turns** `chat/` | `chats`, `messages` (a forest by `parent_id`) | `SendMessage` on all answer paths, regenerate, branch, delete | rows stored in several steps while chats are branched and deleted and readers leave | the answer comes from its question's thread; what is shown is stored | `ChatTurns` |
| **SSE relay** `sserelay/`, `worker/research.go`, `worker/abort.go` | Redis channel, abort key | subscribe, enqueue, relay, abort, save | lost messages, abort before start, a buffer that is full | no gap in a stream, every stream and job ends | `SSERelay` |
| **KB members, invites** `kbmembers/`, `kbinvites/`, `kbvisibility/`, `kbsubs/`, `kbfilters/` | `kb_members`, `knowledge_bases.user_id`, invites, stars | role changes, transfer, leave, publish, redeem | concurrent handlers that check before their transaction | exactly one owner of a private KB, none of a public one | `KBMembers`, `KBOwnership` |
| **Access rules** `kbaccess/` | none | role ladder, capabilities, gates, their SQL copies | one rule in three spellings | all spellings agree | `KBAccess` |
| **Retrieval, agents, AI** `vector/` search, `agents/`, `ai/`, `contentgen/` … | caches, budgets | LLM orchestration | external services | mostly data | – |
| **Everything else** (auth, CRUD, admin reports, public APIs, middleware, parsers, web client, manifests) | rows or none | request-local | little concurrency of their own | – | – |

`PROJECT.json` lists each of them with its status, and every hazard with its
line and the properties that cover it.

How they interact: a request writes a row and enqueues a task (library, retry,
re-embed, sync); the worker runs the task and writes row and index
(`FileStatus`, `CopyMode`), or relays what it does over Redis (`SSERelay`); the
leader enqueues sync tasks (`SyncScheduler`), which create file rows and more
tasks (`GitSync`, `ConfluenceSync`); the cascade takes apart whatever the others
build (`KBDeletion`, `UserLibrary`); chats read the result (`ChatTurns`,
`AgentRuns`) as far as membership allows (`KBMembers` over `KBAccess`).

## 2. Plan

Done, in this order: `CopyMode` with its proofs, and the abstract `DonorRegistry`; `KBAccess`, `KBMembers` and the
abstract `KBOwnership` with their proofs; `AgentRuns`; `SyncWindow` and
`SyncScheduler`; `SSERelay`; `UserLibrary`; `KBDeletion`; `FileStatus`; `GitSync`
and `ConfluenceSync`; `ChatTurns`; then the proofs about all of them: every module
with a state has the safety properties its run checks proved (section 6), but for
what section 7 lists.

Left, in order of what it would add:

1. The query cache of `vector/` and its invalidation, against the writers of
   `CopyMode`; the token budget of `ai/`; the rate limiter.
2. Knowledge-graph rows of a file, which follow the same life as its chunks but
   are written by LLM extraction at best effort.

## 3. What is modelled

Each module has one action per handler step, statement or request to another
process, named after the code's function where it has a name.  The comment at its
head says what a step is and what is left out; the entries of `map` in
`PROJECT.json` name the lines each definition stands for.  A definition whose
comment begins with "Mutant of" is no part of the specification: it is a plausible
bug, and the run of that component must catch it.

### CopyMode

One library file, its KB copies (`File`), and the task slots of the workers.

| Variable | In the code |
|---|---|
| `row[f]` | `files.status`, `files.index_fingerprint`, and `progress_updated_at` as a counter (`gen`) |
| `cfg[f]` | what `IndexFingerprintInputs` would read now for the KB of `f` |
| `chunks[f]`, `parents[f]`, `hype[f]` | the rows of `f` in the chunk table, `parent_chunks` and the HyPE table |
| `del[f]` | the next step of a running `DeleteFiles` |
| `queue` | waiting file-processing and re-embedding tasks |
| `job[w]` | program counter and locals of the run in slot `w` |
| `runs` | number of deliveries; a run is named by its number |

A row of the index is a record: the run that inserted it (its identity), the
run that built its content (`build`, which a copy preserves), the settings it
was built under, and the piece of the document it covers (a batch of leaves,
the RAPTOR tree, the parents).  That is exactly what the properties need to
tell a whole index from a mixed, doubled, partial or stale one.

| Actions | Code |
|---|---|
| `Upload`, `Reembed`, `Retry`, `StuckSweep`, `ChangeConfig` | `AddLibraryFiles`; `ReembedKB`/`ReembedAll`; `Retry`; `checkStuckFiles`; any settings write |
| `StartTask`, `DropTask`, `WorkerCrash`, `AttemptFails`, `LastAttemptFails` | handler entry, `RevokeTask`, process death, asynq retry, `markFailed` and `MarkErrorOnExhaustion` |
| `SkipCopy` … `MarkCopied` | `tryCopy`, one step per statement of `CopyFileIndex` (READ COMMITTED), commit, zero-chunk check, recheck, `MarkCopied` |
| `CleanChunks`, `CleanParents`, `CleanHype` | `cleanTarget`, `removeDeletedFileOutput` |
| `Preflight` … `ReembedDeleteParents` | the re-embed handler of `app/worker.go` |
| `Guard` … `Stamp`, `FinalProgress` | `guardDeletedFile`, `ingestFile` on the flat and on the parent-child path |
| `RowGoneNoticed` | `watchFileRow` firing at any point of a run |
| `DeleteFile`, `Cascade*`, `DeleteRow` | `retireCopyDonors` and the steps of `DeleteFiles` |

**Disturbances.**  The constant `Disturbances` says what the environment may do
beyond tasks, requests, crashes, sweeps and deletes of idle files.  With the
empty set, two tasks of one file never overlap, a file is not deleted under a
running task, settings are stable while a file is ingested, and the code's
best-effort deletes succeed.  Each disturbance lifts one of these;
what then breaks is said in section 5.

**Abstractions.**  One chunk table instead of one per embedding dimension.  The
donor is any qualifying row (the code takes the newest).  `NOW()` moves between
two writes of one row.  Progress and stage writes between a run's mark and its
stamp also move the token in the code; the row is no donor then, and its token
has already moved since it last was, so those moves are left out.  A chunk
refers to the parent of its own build.  A chunk for which the model finds no
question to ask counts as having its (zero) questions.  A run whose context has
died cannot stamp any more and is treated as degraded.  Documents are above
`raptor_min_chunks`.  Flat settings have HyPE and RAPTOR on: with them off the
tail is a prefix of the one modelled.  A batch is stored whole or not at all.
Upload is one step with its enqueue.  A file is deleted at most once.
Knowledge-graph rows, injection screening, spreadsheets and late chunking are
not modelled.

### DonorRegistry

The abstract specification of copy mode, in which a copy is one step.  Its state is
what each row *offers* to copiers (`offer`: settings and pieces, or nothing), the
build each slot may still offer (`build`), and the index it has taken (`copy`).  A run
starts under a number of its own; it may take what another row offers; it offers,
once, what it has taken or else a whole build with its number; an offer is retired, and
is never changed or replaced.  `CopyMode!CopiesAreAtomic` is the refinement:

| `DonorRegistry` | in `CopyMode` |
|---|---|
| `offer[f]` | `Offered(f)`: fingerprint and `Content(f)` (builds, settings and pieces, without the ids of the rows) of a row that is a donor |
| `build[w]` | `Building(w)`: the number of the run, until its stamp, its end or the loss of its row |
| `copy[w]` | `Holding(w)`: what the target has stored, between the recheck and `MarkCopied` |
| `Start`, `Stop` | `StartTask`; the end, failure or crash of a run, a stamp that is not written |
| `Take` | `Recheck` that finds donor and token unchanged |
| `Offer` | `Stamp`; `MarkCopied` |
| `Retire` | `CopyMark`, `ReembedMark`, `MarkProcessing`; `DeleteFile` |

Everything else, among it every statement of `CopyFileIndex` and its commit, is a
stutter: nobody is shown a copy before it is kept.  HyPE questions are not part of the
content: a whole index may hold more of them than it has chunks (section 5).

### FileStatus: the status of one file

`CopyMode` looks at the index and lets every write of the row succeed;
`FileStatus` looks at the row and lets them fail.  State: `status`, `reason` (is
an error text stored), `stale` (is the last heartbeat old), `upload` and `click`
(the requests under way: the upload, retry buttons), `task` (where each task's
current attempt is), `retried` (its asynq retry count).

| Actions | Code |
|---|---|
| `CreateFile`, `EnqueueUpload`, `DropUpload` | `files/` upload: row, then task, then removal if the enqueue is refused |
| `ResetFileForRetry`, `EnqueueRetry`, `EnqueueRefused`, `Revert` | `Retry`, `RetryFailed`: guarded reset, enqueue, taking back |
| `ReembedKB`, `FileDeleted` | the requests against live tasks |
| `Start` … `Complete`, `AttemptFails`, `RecordFailure`, `Unsupported`, `MarkErrorOnExhaustion` | the handlers of `worker/` and the status writes of `processor/` |
| `Heartbeat`, `Age`, `CheckStuckFiles` | progress writes; `maintenance.go` |
| `ServerDies`, `WorkerDies` | process death between two statements |

### KBDeletion: the cascades

Two databases and a blob store: `users`, `kb`, `rows` (main database), `chunks`
and `side` (vector database: the chunk table, and the parent and HyPE tables),
`blobs`; `up` and `run` are an upload and the file's task, `del` a delete under
way, `sweep` the orphan sweep; `asked` and `settled` are history.  Its names
(`DeletionSpec`, `deletionVars` …) differ from those of `FileStatus`, so that `MCFiles`
can extend both.

| Actions | Code |
|---|---|
| `DeleteFile`, `DeleteKB`, `DeleteGlobalKB`, `DeleteUser`, `NextKB` | what each lists before it begins |
| `DeleteChunks`, `DeleteSide`, `DeleteBlobs` | the best-effort steps, in the cascade's order |
| `DropFileRow`, `DropKB`, `DropGlobalKB`, `DropUser` | the transaction, with its foreign-key cascades |
| `StoreBlob`, `CreateRow`, `StartTask`, `DeleteOld`, `Write`, `Finish` | an upload and its task |
| `Poll`, `RemoveOutput` | `processor/file_deleted.go` |
| `SweepList`, `SweepCheck`, `SweepDelete` | `cleanupOrphanedVectors` |
| `Transfer`, `Publish`, `Unpublish`, `CreateKB` | owners that change while a delete of the user runs |

### UserLibrary: shared blobs

One owner, one content: rows `row[id]`, blobs, the legacy KB blobs `old`, the KB
files `files` that refer to them, chat attachments `attached`, requests `req`, the
sweep; history `promised`, `withdrawn`, `doomed`.  Uploads (`StoreBlob`, `Insert`,
`Find`, `Touch`, `Reread`, `DropOwnBlob`), adoption (`FindBySHA`, `Promote`,
`LinkFile`, `Rollback`, `DeleteOldBlob`), use in KBs (`AddToKB`, `CreateFile`,
`Enqueue`), chats (`Send`, `DeleteChat`, `DeleteAttachment`), deletes
(`DeleteUserFile`, `DeleteCopies`, `DeleteFile` …) and the sweep (`SweepPending`,
`SweepAttachment`, `SweepCheck`, `SweepDelete`) are the functions of those names.

### SyncScheduler over SyncWindow

`SyncWindow` is pure: the night window read from the configuration, and the slot
of a source in it (`NextSlot`), on a clock of whole hours that may change once.
`SyncScheduler` has the lock and what each replica believes (`lock`, `leads`,
`cancelled`), the sweeper's tick (`tick`), the rows, where the sync of a source is
(`sync`), and as history the tasks enqueued (`synced`), the slots stamped over
(`taken`) and how often a lock went from under its leader (`lapses`).

| Actions | Code |
|---|---|
| `Acquire`, `StepDown`, `Release`, `Crash` | `startSchedulers`, `runAsLeader` |
| `Expire`, `Lapse` | the TTL ends: of a leader that died, of one that pauses and does not know |
| `BeginTick`, `StampNew`, `SelectDue`, `StampDue`, `Enqueue`, `EndTick` | `Sweeper.Tick`, one step per statement of Redis or PostgreSQL |
| `SetSchedule`, `Pause`, `Resume` | the edits of a source over HTTP |
| `StartSync`, `MarkSyncing` | the sync in the worker: it reads the source; it marks it, over a pause made meanwhile |
| `EndSync` | it ends well, fails, fails once too often and pauses the source (`confluence/sync.go:682-686`), or its last write is missing; a Confluence source may be left 'syncing' |
| `FilesDone` | the wrapper of the last file, if one finds the import over |

One sync of a source is at work at a time, and of it only the status it reads and
writes is kept; the connectors' own modules have the rest.  Nothing obliges a sync to
end: a source may stay 'syncing'.

### GitSync and ConfluenceSync

The remote is a variable (`head` and `tree`; `space`) that others change at any time;
besides there are the source row (`src`; `source`), the file rows, objects and tasks
(`files`, `stored`, `queued`; `pageFiles`), and the local state of the sync (`sync`;
`tasks`, `wraps`).

*Git*: `Clone`, `Unchanged`, `Reconcile`, then per file `DeleteObject`, `DeleteRow`, and
`StoreObject`, `CreateRow`, `Enqueue`, then `Finish`.  Row and task are two steps: the
worker may die between them, and a refused task is only logged.  Either leaves a row
that every later sync takes for done.

*Confluence*: `ListPages`, `ReadFiles`, `DeleteRemoved`, `MarkSpaceSyncing`, per page
`SkipPage` or `FetchPage` (which deletes the old file), `CreateFile` or `CreateFails`,
`EnqueueFile`, then `CountFiles` and `Finalize`.  A page whose content is empty counts as
imported and has no file (`blank`, in `Fetched`); a page whose version has no readable date
counts as unchanged once it has a file (`undated`, in `Updated`).  `WrapSource`,
`WrapProgress`, `WrapWrite` are the three statements of
`UpdateSourceProgressAfterFile`, which the task of every file runs.

The two modules have no name in common (`GitSync` speaks of `src`, `files`, `Spec`,
`ConfluenceSync` of `source`, `pageFiles`, `SpaceSpec`), so that one MC module and one
proof module can extend both.  The same holds for `AgentRuns`, `SSERelay`
(`RelaySpec`) and `ChatTurns` (`ChatSpec`), which `MCConversations` extends.

### SSERelay

`relay`, `client` and `channel` in the server and Redis; `job`, `attempt`,
`cancelled`, `emitted`, `buffer`, `report` in the worker; what arrived (`relayed`),
`saved` and `published` as results.  A save may fail in the database ("failed") or
because the abort cancelled its context ("aborted").  `Subscribe`, `Enqueue`, `Receive`,
`Inactivity`, `Abort` are `sserelay.Run`; `StartJob`, `AgentStep`, `PublishEvent`,
`Save`, `PublishDone`, `Watch` are `worker/research.go` and `worker/abort.go`.

### AgentRuns

One thread of an agent chat.  `run` is `agent_runs.status`, `lock` the row lock of
`ClaimResume`, `fresh` and `openIn` the session's version check and open
interrupts, `newest` and `reply` the chat's messages.  A resume is a request of its
own that names the paused turn (`answers`).  `Start` … `TurnFinished` follow
`agui/handler.go`, `adkbridge/runs.go`, `session_pg.go` and the chat hooks.

### ChatTurns

KB chats: `chats`, `msg` (the message table; rows are numbered in insertion order),
`turn` (each request's program counter, what it has read, what the reader was
shown).  `Resolve`, `Anchor`, `LoadHistory`, `AnswerAgain`, `TransformFollowUp`,
`Ask`, `Generate`, `StoreAnswer`, `Refine`, `ShowRefined`, `StoreSteps`, `Close` are
the stages of `SendMessage` on its streamed, deep, JSON and regenerating paths;
`Branch` and `DeleteChat` are requests of others.  `Thread` is the recursive walk
from a message to its root.

### KBAccess, KBMembers, KBOwnership

`KBAccess` has the pure rules twice: as the Go code spells them (ladder,
capabilities, gates) and as the SQL does.  `KBMembers` has the rows of one KB
(`role`, `kb`, stars, subscriptions, filters, invites, chats) and requests in
flight (`req`), because a handler checks first and runs its transaction later.
`KBOwnership` is the abstract specification: who has authority, and the four ways
it moves.  `KBMembers!KeepsAuthority` is the refinement.

## 4. Runs

| Run | Instance | Shows |
|---|---|---|
| `copy` | two copies of one file, two workers, no disturbance: three deliveries while both KBs are flat, two when one is a parent-child KB and settings change between runs | a donor is one whole build (`DonorIndexWhole`), is retired before it is touched (`RebuildRetiresDonor`), does not move (`DonorIndexStable`), and stops being one under a new token only (`TokenMovesOnRetire`); a copy has the effect of one step (`CopiesAreAtomic`) |
| `copy_disturbed` | four scenarios: two batches and both kinds of KB; `delete`, `retire`; `cleanup`, `rowDelete`; `config` | a ready file has every leaf of one build, and is not empty; no donor under other settings or with half an index (`ReadyFilesAreBuilt`) |
| `files` | status: five scenarios over one upload, two retry clicks and two re-embeds with one or two retries of a task; deletes: three on two KBs, namely two at once; one against uploads, tasks, changing owners, the sweep and a failure; public KBs and two failures | status: a reason for exactly the failed files (`FailureIsExplained`); a pending file has a task, errors come with the last attempt and leave a ready file alone (`StatusesKeepTheirPlace`); nothing waits for ever (`WaitingEnds`).  Deletes: a file nobody deletes keeps blob and chunks (`UntouchedAreWhole`), rows go last (`RowsGoLast`), and with their KB, by their own delete or, where owners change meanwhile, by a user's delete that had listed them (`FilesGoWithKBs`), chunks go in the end (`ChunksGoInTheEnd`) |
| `library` | five scenarios of two requests on one content | the blob of a live row is there (`BlobsAreThere`), what was acknowledged or sent stays (`PromisesAreKept`, `SentStays`), garbage goes and nothing else (`OrphansGoAlone`) |
| `scheduler` | two replicas, a daily and a weekly source, two nights of three hours, one edit or sync and one fault; one source, a fault and a leader that loses its lock unnoticed; and every question to `NextSlot` on a 24-hour clock over eight days, three locations, six windows, four sources, two schedules | `SlotsInv` (no slot enqueued twice, unless a lock lapsed; a fault costs one slot, lapse or not), `EnqueuedUnderTheLock`, `SlotsKeepComing`; `NextSlotIsRight` |
| `connectors` | git: two paths, two blobs, three pushes, three syncs, two crashes, a failed item; Confluence: two pages, two syncs, an edit and a fault | what a sync leaves: the files of the commit, a crash at most one of them without task (`FilesAreThoseOfTheCommit`); one file for each page that has content (`PagesAreComplete`); no git source is stuck `syncing` (`GitInv`) |
| `members` | two users and a system administrator, up to two requests in flight, five scenarios of operations | `MembersInv`, `AccessAgrees`, `KeepsAuthority`, `ChatsGoWithMembership`, `RedeemRaisesAndShows` |
| `conversations` | agent: three requests, two in flight, with crashes and lost updates; KB chats: two turns at once, one turn after two with a branch or a second chat, one with failing statements, one with lost acknowledgements; research: two steps of an agent, a buffer of two, two attempts, two crashes | an approval is used once (`AgentInv`, `PausesStand`), row, hooks and answer agree (`RowsAndAnswersAgree`); `ThreadsAreForests`, `FedTheThread`, `SeenIsStored`; `TurnsEnd` for both; `NothingIsMissed`, `DoneMeansSaved`, `StreamsAndJobsEnd` of the stream |
| `overlap_runs`, `settings_change`, `agent_wrong_parent`, `transfer_to_stranger` | the shortest instance each | one property each, violated (section 5) |

**Scenarios.**  A module is checked on the product of everything its environment may
do only where that is in reach.  Elsewhere the MC module instantiates it once per
scenario (`Part(s) == INSTANCE … WITH …`) and a behaviour keeps to one.  Modules that share
nothing are checked in one run, and a behaviour is about one of them.  What is lost
are behaviours in which rare things of different scenarios meet; each scenario is
chosen so that the races the code's comments argue about are inside one of them.

**Bounds.**  Two copies, requests, replicas or readers are enough for every race in
the hazard list, because the code compares at most two parties (copier and donor,
claim and claim, upload and sweep).  The third delivery, turn or push is there for
what a first one leaves behind (a rebuilt donor, a resume of a resume, a revert).
In `copy` (`FlatOrMixed`) no run but the first begins once one of the two files is gone, and a third
begins beside another only while a file is a donor: without one, two runs of
different files read nothing of each other's.
Every mutant is caught within these bounds, which shows that the interesting cases
occur in them.

**Deadlock** is checked in `conversations`, `members`, `scheduler`,
`agent_wrong_parent` and `transfer_to_stranger`, where some step is always possible or
the MC module says that the system rests.  The others switch it off: their systems are
done when the bounded work is.

**Symmetry** permutes copies, workers, users of equal rank, handlers, pages, paths
and blobs, which the specifications treat alike, and is not used for a run whose
liveness distinguishes them.

**Fairness.**  Each is the fairness of a loop the code runs.

| Module | Weakly fair | Because |
|---|---|---|
| `SyncScheduler` | `Acquire`, `Release`, `Sweep` of each replica; `Expire` | the election loop retries, the ticker ticks and a tick runs to its end, a TTL ends.  Nothing is assumed of a sync: `SlotsKeepComing` leaves out a source that is 'syncing' or paused |
| `FileStatus` | `EnqueueUpload`, `EnqueueRetry` or `Revert`, `Attempt(t)`, `Age`, `CheckStuckFiles` | handlers run on, asynq delivers and redelivers, time passes, the sweep is a ticker.  `ServerDies` and `WorkerDies` may still happen instead |
| `UserLibrary` | `Continue`, `AgeBlob`, `Sweep` | handlers run on, time passes, ticker |
| `KBDeletion` | `Run(f)`, `Sweep` | asynq, ticker; deletes are requests and have none |
| `AgentRuns` | `Work(q)`, `PauseExpires(q)`, `ExpireStale` | the turn budget bounds a run, time passes, ticker |
| `ChatTurns` | `Step(t)` | a handler runs until it returns; every call it makes has a timeout |
| `SSERelay` | `RelayFairness`: the relay; the worker's own steps; the watcher of the key; a cancelled agent; the timer | the select loops of server and worker, the poll of the abort key, the inactivity timer.  The steps of the agent have none: it may hang |

## 5. Findings

* **Overlapping runs** (`overlap_runs`).  `ReembedKB`/`ReembedAll` take every
  `completed` file, but a run writes `completed` *before* its HyPE and RAPTOR
  tail.  The first run then stamps the row the second one is rebuilding, so
  the row advertises an index that is being deleted.
* **A resumed answer under the wrong question** (`agent_wrong_parent`).  While a
  resumed run works, its paused row is already `completed`, so a new question is
  admitted; `answerParent` then files the resumed answer under the newest message,
  which is the new question.
* **A stamp that claims more than was built** (`settings_change`).  The fingerprint is
  computed before parsing so that "a mid-ingest config change cannot make the stamp
  claim more than the index was built with", but only the overrides of the KB are frozen:
  the stages read the settings of the site again.
* **An owner who is no member** (`transfer_to_stranger`).  The transfer endpoint promises
  that its target is a member and checks it in the handler; the statement inserts the
  owner row whether or not the target has left meanwhile.

### What the code does not promise

Modelling also showed behaviours that are no findings.  Properties are stated so as to
leave them out, and a reader who relies on more should know them.  Four comments or docs do
say more than the code does; no run is spent on them, since each follows from a step or
two of the model:

* *A second duplicate* (`docs/feature-recipes.md:667`: two leaders "cannot loop into a
  second duplicate").  A leader whose lock lapses (`Lapse`) while it is in a tick stamps
  what it listed with the slot computed when the tick began (`StampDue`).  Where its
  successor has served a slot in between, that stamp puts `next_sync_at` back to it, and
  the next tick enqueues it once more.  A late stamp may also pass over a slot nobody has
  taken yet.  A slot that was taken as due is not lost (`SlotsInv`, proved with lapses too).
* *A source left 'syncing'* (`confluence/sync.go:344-347`: the wrapper "will flip to active
  when done >= total").  `WrapSource` of the last file may come before `Finalize` writes the
  page count, and `CountFiles` before that file is done: then neither ends 'syncing', and the
  sweeper lists the source no more.  So does a sync whose retries end while it is marked.
* *A copy that is not current* (`gitrepo/sync.go:131-133`: HEAD unchanged means "the local
  copy is verified current").  A file that could not be stored, or whose task was refused or
  lost in a crash, is logged and the commit recorded; later syncs of that commit find it
  unchanged (`Unchanged`) and call it verified.
* *A KB that keeps its record and loses its files* (`cascade/deleter.go:124-131`: all KBs
  they own, with their assets).  `DeleteUser` lists the KBs first and empties by the list,
  but deletes by owner: a KB transferred in between (`Transfer`) stays with its new owner and
  without its files.  `FilesGoWithKBs` admits this in the scenario with changing owners, and
  nothing else.

And no comment or test rules out these:

* *Copy mode.*  A file deleted while its run is in the tail is stamped once more by
  that run, and until the row goes a copier can find it.  A re-ingest leaves the HyPE rows
  of the build before.  (`Disturbances` with `delete`, and two ingests, reproduce these.)
* *Status.*  A server that dies between row and task, or between reset and
  take-back, leaves a file `pending` that nothing sweeps.  The stuck-file sweep judges a
  task that waits in the queue as it does a dead one; the report of an attempt
  that exhausts late can meet a file whose retry has been reset, and a second
  retry then makes two tasks.
* *Deletion.*  A public KB made private during its delete, a KB transferred to a
  user under deletion, and rows added after the list was taken lose rows of files
  without the clean-up of chunks and blobs.  An upload or task that writes late leaves parent and
  HyPE rows, and blobs outside the library, that no sweep looks for.
* *Library.*  A chat that is deleted takes an attachment a second chat sent
  meanwhile; the rollback of an adoption can take such an attachment too, and the
  refusal of an attachment a row that a second upload has just been given; a crash
  between `LinkFile` and the delete of the old blob leaves that blob.
* *Scheduler.*  A leader that loses its lock unnoticed can enqueue beside its successor,
  also the same slot.  A sync triggered by hand and an edit between list and
  stamp move a slot, and a sync may write its status over a pause made while it ran.
  On the night the clocks go forward a slot may lie an hour after the window.
* *Confluence.*  An edit between listing and fetching a page is taken for seen when
  the file's creation time is later.  A page that was emptied loses its file, and one
  without a readable date is never replaced.  A file whose task was refused stays
  'pending', which nothing sweeps.  Two syncs of one source are not excluded.
* *Git.*  A file that could not be stored, and a row without a task, are not tried again:
  not before the next commit the one, not before its path changes the other.
* *Relay.*  An abort that comes before the save loses a report the client has been shown;
  it also silences `__done__`, as both use the context that it cancels, so such a stream ends
  by the inactivity timeout and never says it is done.  If the relay cannot set the abort
  key, which it does not look at, the job of a client that left runs on.
* *Members.*  Handlers act on what they checked before their transaction: a public
  KB may get an owner, a bulk invite may lower a role granted meanwhile, a star and a new
  chat may outlive access.  Each needs two overlapping requests.
* *Agent runs.*  A final update that fails leaves the row `running` for ever.
* *Chats.*  A reader who leaves, and a failed model call, leave a question without
  an answer.  A turn whose parent is a placeholder is fed the whole chat, yet its
  question is stored as a root, so the next turn no longer sees what that one
  did.  A branch taken while an answer is being corrected keeps the
  uncorrected text.  A lost commit acknowledgement makes the deep path store the
  question twice; a correction committed unseen is not shown.

## 6. Proofs

Theorems hold for *every* value of the constants: any sets of files, workers,
users, turns, sources, replicas, paths or events, and any value of the bounds on
runs, faults and edits.  The assumptions they use are the `ASSUME`s of the modules,
which say that null values are no values and that bounds are numbers (and, for
`SyncScheduler`, that the configured window, the schedules and the hashes have their
types), and those in the table.

| Theorem | Property | Assumes besides |
|---|---|---|
| `CopyModeProofs!TypeCorrect` | `TypeOK` | nothing |
| `CopyModeProofs!Retired` | `RebuildRetiresDonor` | `Orderly`: no disturbance `run`, `delete`, `retire` |
| `CopyModeProofs!DonorsStayPut` | `DonorIndexStable` | `Orderly` |
| `CopyModeProofs!TokensMove` | `TokenMovesOnRetire` | `Orderly` |
| `CopyModeProofs!DonorsWhole` | `DonorIndexWhole` | `Calm`: at most `rowDelete` |
| `CopyModeProofs!CopyIsOneStep` | `CopiesAreAtomic` (refinement of `DonorRegistry`) | `Calm` |
| `CopyModeProofs!ReadyHasEveryLeaf` | part of `ReadyFilesAreBuilt` | `Alone`: no disturbance `run`, `delete` |
| `CopyModeProofs!ReadyHasChunks` | the rest of `ReadyFilesAreBuilt` | no disturbance `run` |
| `KBMembersProofs!MembersInvHolds` | `MembersInv` | nothing |
| `KBMembersProofs!AuthorityIsKept` | `KeepsAuthority` (refinement of `KBOwnership`) | nothing |
| `KBMembersProofs!ExOwnersStayAdmins` | – | nothing |
| `KBMembersProofs!AccessIsOne` | `AccessAgrees` | nothing |
| `KBMembersProofs!ChatsLeaveWithMembers` | `ChatsGoWithMembership` | nothing |
| `KBMembersProofs!RedeemersGain` | `RedeemRaisesAndShows` | nothing |
| `FileStatusProofs!FailuresAreExplained` | `FailureIsExplained` | nothing |
| `FileStatusProofs!PendingFilesAreQueued` | part of `StatusesKeepTheirPlace` | `Healthy`: no fault `db`, `server`, `worker` |
| `FileStatusProofs!ErrorsComeLast` | part of `StatusesKeepTheirPlace` | `OneByOne`: no retry clicks, no overlap of tasks, no task the sweep overtakes (`slow`) |
| `FileStatusProofs!ReadyFilesStay` | the rest of `StatusesKeepTheirPlace` | `OneRetry`: one retry click, no re-embed, no task the sweep overtakes |
| `KBDeletionProofs!UntouchedStayWhole` | `UntouchedAreWhole` | nothing |
| `KBDeletionProofs!RowsGoInTheEnd` | what `RowsGoLast` checks | `Calm`: no fault, and no uploads and no change of owners beside a delete of a user |
| `KBDeletionProofs!RowsGoWithKBs` | what `FilesGoWithKBs` checks | `Kept`: no delete of a public KB, and no change of owners beside a delete of a user |
| `UserLibraryProofs!BlobsStay` | `BlobsAreThere` | nothing |
| `UserLibraryProofs!SentFilesStay` | `SentStays` | no `adopt` |
| `UserLibraryProofs!UploadsAreKept` | what `PromisesAreKept` checks | no `adopt`, `refuse`, `deleteChat` |
| `SyncSchedulerProofs!SlotsOnceAndKept` | `SlotsInv` | nothing |
| `SyncSchedulerProofs!LeadersEnqueue` | `EnqueuedUnderTheLock` | nothing |
| `SyncSchedulerProofs!NextSlotIsFirst` | what `NextSlotIsRight` checks | nothing |
| `ConnectorsProofs!SyncsAreComplete` | `FilesAreThoseOfTheCommit` | nothing |
| `ConnectorsProofs!SourcesAreNotStuck` | `GitInv` | nothing |
| `ConnectorsProofs!CleanSyncsAreComplete` | `PagesAreComplete` | `OneWorker` |
| `ConversationsProofs!PausesAreKept` | `PausesStand` | nothing |
| `ConversationsProofs!AgentInvHolds` | `AgentInv` | nothing |
| `ConversationsProofs!HooksTellTheRow` | part of `RowsAndAnswersAgree` | no fault `finish` |
| `ConversationsProofs!AnswersFindTheirQuestion` | the other part | `~Overlap` |
| `ConversationsProofs!ChatsAreForests` | `ThreadsAreForests` | nothing |
| `ConversationsProofs!TurnsAreFedTheThread` | `FedTheThread` | nothing |
| `ConversationsProofs!ReadersSeeWhatIsStored` | what `SeenIsStored` checks | nothing |
| `ConversationsProofs!NothingEverMissed` | `NothingIsMissed` | nothing |
| `ConversationsProofs!DoneIsSaved` | `DoneMeansSaved` | nothing |

No assumption in the last column is there for the prover's sake.  Each excludes a
behaviour that breaks the property, found by TLC or named in section 5, and each leaves
a system with more in it than the run's scenarios have: all sets, all bounds and every
operation and fault that is not named.

### Copy mode

Neither assumption can be dropped: `overlap_runs` (section 5) is a counterexample
with `run`, and setting `Disturbances` to `delete` or `config` gives others; a
failed `retire` breaks `RebuildRetiresDonor` at the first statement of the cascade;
a failed `cleanup` leaves old rows in the next build.  `Orderly` is weaker than
`Calm`: settings may change at any time and vector deletes may fail.  `Alone` is weaker
still: retiring a donor may fail as well.

**`TypeCorrect`.**  `TypeOK` is inductive as it stands.  Its last conjunct (a
worker has a file exactly while it runs a task, and a donor from the lookup to
the end of the copy) is what makes the function applications of all later
proofs well defined.

**`Retired`, `DonorsStayPut`, `TokensMove`.**  `RebuildRetiresDonor` alone is not
inductive: a second run of the same file, or a run on a file in deletion, could
stamp the row while it is taken apart, and a row that is gone, which no write
reaches, could keep a fingerprint.
`RetireInv` adds `Exclusive` and `GoneIsNoDonor`.  Its part about files under a task,
`RunInv`, is inductive under `Alone` already; files in deletion need `Orderly`.  The argument has two halves.
`Local(w)`: a step of a worker changes only its own job and the row and index of
its own file.  `Disciplined(w, f)`: what it may do there, namely that it leaves a
donor's index alone, that a donor's row changes only with a new token, and that
a run is past the write that clears the fingerprint when it is at a place of
`TakenPC`.  `FileAlone(f)` and `FileLocal(f)` say the same of requests, sweeps and the cascade.
The two action properties follow from these lemmas and `RetireInv`.

**`DonorsWhole`.**  The invariant `IInv` (module `CopyModeInv`) adds to
`RetireInv`, for every worker,

* `BuildProgress`: at each place of an ingest, exactly which rows of its own
  build the run has stored, and that nothing else is left in its file's index;
* `CopyProgress`: at each place of a copy, what the copier's reads are worth
  *if the donor's token has not moved*: then the donor still advertises
  itself, and what was mapped is the donor's whole index;

and `DonorsAreWhole`, the property without its exception for files in deletion.
The proof is by rely and guarantee.  Own steps: `IngestProgress` and
`CopyStepProgress`, one lemma per phase, over forms with the parameters of the
run spelled out (`BuildAs`, `CopyAs`).  Steps of others: `DonorRely(d)`, proved
of every step from the previous layer, says that a donor's index and row stay
put or its token grows; `BuildRely` and `CopyRely` conclude that nobody else
disturbs a run's progress.  Donors: the only writes that make a row a donor are
the stamp (`StampWhole`, from `BuildProgress`) and `MarkCopied` (from the
recheck of donor and token, `RecheckProgress`); every other write clears the
fingerprint, writes another status, leaves both, or is made to a row that
`RebuildRetiresDonor` shows to have no fingerprint.  Each device of copy
mode carries one of these steps: clearing early and moving the token give
`DonorRely`, stamping last gives `StampWhole`, the recheck `RecheckProgress`.

**`CopyIsOneStep`.**  A copy reads its donor in half a dozen statements, stores what it
read in one database and shows it in another, while the donor may be rebuilt and the
copier may die.  The step it amounts to is the recheck.  `AtomicInv` adds to `IInv` that
between commit and recheck, *if the donor's token has not moved*, the copy has the
donor's content (`SameContent`, from `CommitContent`; others keep it so by `DonorRely`),
and that runs are of uploaded files (`Enlisted`), so that a row once gone stays gone.
`WorkerOffer` says what a step of a run may do to the offer of its file (leave it; retire
it by a mark; stamp a build; show a copy), `OwnRun` what it may do to what the run
builds and holds, `OtherRuns`, `OtherOffers`, `FileRuns` and `FileOffers` that nobody
else sees more.  `WorkerImplements`, `StartImplements` and `FileImplements` put these
together into steps of `DonorRegistry`.  `Calm` cannot be weaker: with any one of the other
disturbances added to the instance of `copy`, TLC finds a step that `DonorRegistry` has not
(an offer that changes while it is made, or is not a whole build).

**`ReadyHasEveryLeaf`, `ReadyHasChunks`.**  A ready file need not be a donor, so these
go without `DonorsWhole` and its `Calm`.  Both rest on `Hidden(w)`: while a run has an
index in pieces (`NotReadyPC`), the row of its file does not say 'completed'.
`OwnReady` and `FileReady` say of every step who may make it say so: `MarkCopied` and
the writes at the end of an ingest, none of which touches chunks.  `ReadyHasEveryLeaf`
(`LeafInv`) adds to `RunInv` what each run has stored by then (`LeafProgress`): an
ingest all batches before its next one that did not fail, whatever old rows are left
beside them; a copier, while its donor stands (`Stands`: the token has not moved and the
row is there), rows with every leaf.  For the latter a donor must have its leaves too,
also one that could not be retired, or whose delete failed half-way and that is a donor
again.  It has them or nothing, since the cascade deletes the chunks of a file at once
(`ReadyRowsHaveLeaves`), and a copy of nothing is discarded.
`ReadyHasChunks` (`FilledInv`) needs none of this: a run comes to the write only with
something stored (`Filled`), and nobody else takes it away, so donors may vanish and
retiring may fail.  `ReadyHasEveryLeaf` does break with `run`, and with `delete`: the
cascade removes the first batch under a run, the run stamps the rest, and a copier takes
that before the row is gone.

### The others

**Members.**  The invariant is `TypeOK` with `OwnerInv`: `kb.ownerId` names the owner
row and nobody else's, and is set while the KB is private.  The lemmas
`StatementTypes` and `StatementOwners` say once what the SQL statements do to a
table of roles.  `HandlerOwners` and `OtherOwners` then say of every step, however
stale the check before it, that it leaves owner rows, `ownerId` and visibility as
they are, or promotes one user, or publishes.  `AuthorityIsKept` maps these three
kinds to the steps of `KBOwnership`, the first to `ChangeAdmins` or a stutter.
`AccessIsOne` is a fact about typed states: the ladder, the SQL conditions and the
gates of `KBAccess` agree on each role, flag and group.

**File status.**  `FailureIsExplained` becomes inductive with one more fact: a row
that is not there has no reason (`ReasonInv`).  The proof is about the statements,
not the tasks: whichever of them comes last, it writes status and reason together.
`PendingIsQueued` is inductive where nothing fails between row and queue
(`Healthy`; double clicks and slow tasks are allowed).  `ErrorsComeLast` is for one
task after the other: then at most one is live, one that reports an error has
no attempt left, and the sweep meets a stale row only when none is live (`SerialInv`).
`ReadyFilesStay` is for the task of an upload that reports late, beside a retry: the
retry comes when that task has nothing left to do but to report its end, so whoever
rebuilds the index has the row to itself (`LateInv`).

**Deletion.**  `WholeInv` adds to `UntouchedAreWhole` who may touch what: a deleter's
list holds files asked for only, a sweep's orphans have no row, a task that has
stopped has none either, and a row is made once, after its blob.  With it no
assumption is needed: whatever fails or overlaps, a file that nobody asked to
delete loses nothing.  `RowsGoInTheEnd` (`LastInv`) says in addition how far each
deleter is with each of its files (`Stages`), and that what the deletes have not yet
listed they will (`Listed`, `Foreseen`): a user's delete lists each KB when it comes to
it, so a file uploaded, or a KB that changes hands, after that is missed.  This is why
`Calm` excludes them beside a delete of a user, and only there.
`RowsGoWithKBs` needs that a user's delete is about KBs that are still theirs
(`OwnersInv`), and that no public KB is emptied while it turns private.

**Library.**  `BlobsInv`: a request's new blob is its own until there is a row for it
(`IdsInv`: ids are fresh, and no two requests, nor the row, nor the sweep, have the
same); objects are deleted of rows that are gone (`RowInv`); a KB file has its own
blob or that of the row it links to, and one link per KB (`FilesInv`).  It holds with
every operation and fault.  `SentFilesStay` goes without adoption, whose rollback
takes an attachment sent meanwhile; `UploadsAreKept` (`KeptInv`: an upload that found
a row has promoted it or restarted its grace, and the grace does not end while a
request looks at the row) goes without the refusal of an attachment and the delete
of a chat too, each of which takes a row that a second upload has just been given.

**Agent runs.**  `PausesStand` needs to know who holds the lock: `PausedHaveLeft` (a
paused run's turn is over), `ClaimsHoldTheLock` (a claim under way holds the
lock of a row that is paused, and what is abandoned has expired),
`NothingClaimedYet` and `ClaimedAreUsedUp` (a resume has used its pause up exactly
from its claim on), from which `ApprovedOnce` follows.  `HooksTellTheRow`: a row is
`running` until its handler has settled, then shows what the handler settled on, and
only a pause moves on (`RowOf`).  `AnswersFindTheirQuestion` (`InOrder`): one request at a
time, at most one pause open and none while a request asks or answers, and the chat
ends with the question of the run that is open or at work.  With two requests at a
time it is false: that is the finding of `agent_wrong_parent`.

**KB chat turns.**  Three layers, none with an assumption.  `TurnsStand` has the types,
rows that point back (`RowsPlaced`: parent, source and position are earlier rows), and
for every stage of a turn what it holds on to: its rows exist, are of the right role,
belong to its chat or are orphaned with it (`Stands`), and no two turns
write one answer (`AnswersDiffer`).  `Kept` says what *every* step leaves: a row
keeps its role, parent, position and source, and leaves its chat only with the chat.
`ChatsAreForests` is then about three statements: an insert, a rewrite and a branch,
whose copies are numbered by rank (`Rank`, `Nth`), so that the copy of a parent is the
parent of the copy.  `TurnsAreFedTheThread` (`Feed`, one clause per stage) follows what
was read from `Anchor` to `Ask`: the thread above a row does not change while it
stays in its chat, although rows are added and answers corrected meanwhile.
`ReadersSeeWhatIsStored` (`Seen`) does the same for the text from `Generate` to `Close`.

`Thread` is a recursive function, so nothing is known of it to begin with.
`Above` is shown to be the function its equation describes, for any rows that point
back; this, and all else that would be induction over rows, is done on the
least counterexample (`LeastOf`), which the well-foundedness of strict
inclusion of finite sets gives without an induction rule.

**Git.**  `FilesAreThoseOfTheCommit` is about the end of a sync; the invariant says
it of every point within.  What the sync has read of the rows is old (`ReadsAreOld`)
but only it writes them; while no item has failed, a path has one row
(`OnePerPath`), the recorded commit is there (`LastIsThere`), and rows, what is left
to delete and what is left to create make up the clone's tree (`WorkIsRight`).
`AgainStep` shows that a crash or a failed attempt at any point leaves this true.
What has no task (`CrashesLose`): a file is without one only between its row and its
`Enqueue`, so a crash adds at most one.  `SourcesAreNotStuck` needs besides that each retry is for a crash
(`RetriesAreForCrashes`), since everything else ends in `Finish` or `Fail`: a source
is 'syncing' without a task only after more crashes than a task has retries.

**Confluence.**  The types come first, with how many files a sync can have counted
(`CountsFit`).  `PagesFine` says of each page, for each place of a sync, which
rows it has: the rows the sync has read are those the page has, until it gets to
the page; then none, once `FetchPage` has deleted the old one; then one, no older
than the list, or still none if the content was empty (`Settled`).  Of a page without a
readable date it says only that there is a file.  A failed delete of the old file leaves a page with two files;
`DoublesAreFound` says that one of two is outdated by which the next sync
replaces them, which makes the invariant inductive across syncs.  `OneWorker` is
needed since the rows read must be the page's rows: two syncs of one
source delete and create over each other, and the code does not exclude them
(section 5).

**Scheduler.**  As long as no lock has lapsed, who leads holds the lock (`Held`), and who is in
a tick leads (`Ticking`); so one replica at a time sweeps (`OthersAreIdle`).  `HandOf` says what a tick has in
hand: one slot of each source, due, not served, and the source of the slot about to
be enqueued has already been stamped past it.  That stamp is the future slot that
`NextSlotIsLater` gives, so `ServedArePast` holds and no slot is served twice.
`NextSlotIsFirst`, of which that is a corollary, is arithmetic.  There is a slot to
come: every week has the day looked for (`WeekHasTheDay`), and a wall clock past the
present one is later also when the clocks change in between (`LaterWallIsLater`).
None is passed over: slots are in the order of their nights (`SlotsKeepTheirOrder`),
and the night before last is over (`EarlierSlotsArePast`), so that to begin with
yesterday is enough.  What is lost is counted by `OneFaultOneSlot`: a step without a
fault drops nothing that was in hand.  This half of `SlotsInv` needs no single leader
(`LooseInv`: what each tick has in hand has its types, whoever holds the lock).

**Relay.**  `relayed \o channel = published` is inductive while the relay is in its
loop, once it is known that nothing is published before the subscription
(`SubscribedFirst`).  `DoneIsSaved` needs `ReportIsSeen`: the first event of an
attempt always finds room in the buffer, so an attempt that saves has published
something of its own, and knows whether that was the report.  And the end comes once
(`EndsOnce`), after the save and only if no abort has cancelled it, so a report that the
abort dropped is never followed by the end.

## 7. Only model-checked, and not modelled

Model-checked only, on the instances of section 4:

* all liveness (`SlotsKeepComing`, `WaitingEnds`, `ChunksGoInTheEnd`,
  `OrphansGoAlone`, `StreamsAndJobsEnd`, `TurnsEnd`): the prover has no rule for
  fairness;
* the numeric bounds in `ChatTypeOK` (`MaxRows`, `MaxChats`), which restate guards.

Not modelled, and why:

* **LLM orchestration** (`agents/`, `ai/`, `contentgen/`, prompts, retrieval and
  ranking): what these compute is text and scores.  The protocol around them (turns,
  streams, tasks) is modelled, their data is not.
* **Request-local code** (authentication, CRUD of KBs and configuration, admin
  reports, public and OpenAI-compatible APIs, middleware): one statement or one
  transaction per request on one row; a model would restate it.
* **Parsers, splitters, converters, network clients**: pure functions on documents,
  and formats of others.
* **The web client, migrations, deployment, evaluation tools.**
* Within modelled components: knowledge-graph rows, injection screening, spreadsheets
  and late chunking (ingest); quota, rename and parse caches (library); attachments
  and connections (Confluence); tabular tables and BM25 statistics (deletion);
  personal categories and saved orders (subscriptions); streams without a job
  (relay).  The note of each component in `PROJECT.json` says the same in place.
* In `KBDeletion` a task ends well, is stopped or crashes: one that fails leaves a file in
  'error', whose chunks nobody relies on.  `FileStatus` is about files that come by upload,
  not those of a connector, whose refused task leaves them 'pending' (section 5).
* Two hazards have no property, since the code leaves them open: questions that a
  re-ingest leaves behind, and a Confluence source left 'syncing' (section 5).
