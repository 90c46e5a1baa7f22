------------------------------ MODULE CopyMode ------------------------------
(***************************************************************************)
(* The ingest, re-embed, copy and delete runs of the KB copies of ONE      *)
(* library file.                                                           *)
(*                                                                         *)
(* A library file (user_files) can be added to many knowledge bases; each  *)
(* KB copy is a row of `files' in the main database and an index in the    *)
(* vector database: leaf chunks, a RAPTOR summary tree, parent chunks and  *)
(* HyPE questions.  No transaction spans the two databases.  A worker      *)
(* either ingests the file (parse, embed, store) or, in "copy mode",       *)
(* copies the index of a sibling row, the donor, that was built under the  *)
(* same settings.  A row advertises itself as a donor by being 'completed' *)
(* with an index fingerprint; progress_updated_at is the generation token  *)
(* that tells a copier that the donor was touched while it was read.       *)
(*                                                                         *)
(* Each step below is one statement, one transaction or one call of the    *)
(* code, so that runs interleave wherever the program lets them.           *)
(***************************************************************************)
EXTENDS Naturals, FiniteSets

CONSTANTS
  File,          \* rows of `files' that link to the library file
  Worker,        \* task slots of the worker processes
  Fp,            \* index settings, identified with their fingerprint
  ParentChild,   \* the settings with parent_child_enabled; the others are
                 \* flat, with HyPE and RAPTOR enabled
  NLeaf,         \* embedding batches of the file
  NoFile, NoFp,  \* no donor; an index_fingerprint that is NULL
  MaxRuns,       \* bound: task deliveries in a behaviour; no request is
                 \* made whose task could not be delivered any more
  Disturbances   \* what the environment may do besides (see Disturbance)

(* "run"       two tasks of one file may run at the same time              *)
(* "delete"    a file may be deleted while a task of it runs               *)
(* "config"    settings may change while a file is ingested                *)
(* "cleanup"   a best-effort delete of old index rows may fail             *)
(* "retire"    the best-effort retireCopyDonors may fail                   *)
(* "rowDelete" the final delete of the files row may fail                  *)
Disturbance == {"run", "delete", "config", "cleanup", "retire", "rowDelete"}

ASSUME FileAssumption == NoFile \notin File
ASSUME FpAssumption == ParentChild \subseteq Fp /\ NoFp \notin Fp
ASSUME LeafAssumption == NLeaf \in Nat \ {0}
ASSUME BoundAssumption == MaxRuns \in Nat
ASSUME DisturbanceAssumption == Disturbances \subseteq Disturbance

VARIABLES
  row,      \* row[f]: files.status, files.index_fingerprint, generation token
  cfg,      \* cfg[f]: the settings in force for the KB of f
  chunks,   \* chunks[f]: chunk rows of f (leaves and the RAPTOR tree)
  parents,  \* parents[f]: parent-chunk rows of f
  hype,     \* hype[f]: the chunk rows for which HyPE questions of f are stored
  del,      \* del[f]: where the delete cascade of f stands
  queue,    \* tasks waiting in the queues: <<file, kind>>
  job,      \* job[w]: what worker w is doing
  runs      \* task deliveries so far; names the runs

vars == <<row, cfg, chunks, parents, hype, del, queue, job, runs>>
index == <<chunks, parents, hype>>

-----------------------------------------------------------------------------
(* Index rows.  A row remembers the run that inserted it (its id), the run *)
(* that built its content (a copy keeps the content of the donor), and the *)
(* settings it was built with.  A chunk belongs to the parent of its build.*)

Leaf == 1..NLeaf
Tree == 0             \* the RAPTOR summaries of one build
Parent == NLeaf + 1   \* the parent chunks of one build

IndexRow(r, b, s, p) == [run |-> r, build |-> b, cfg |-> s, piece |-> p]
IndexRows == [run: Nat, build: Nat, cfg: Fp, piece: Nat]

Status == {"absent", "pending", "processing", "completed", "partial", "error",
           "deleted"}
FileRows == [status: Status, fp: Fp \cup {NoFp}, gen: Nat]
Kind == {"process", "reembed"}

(* Where a run stands.  TxPC: inside the transaction of CopyFileIndex.      *)
TxPC == {"copyParents", "mapChunks", "copyChunks", "copyHype", "commit"}
CopyPC == {"lookup", "copyMark", "clear", "recheck", "markCopied"} \cup TxPC
CleanPC == {"clean", "cleanParents", "cleanHype"}
ReembedPC == {"preflight", "reMark", "reChunks", "reParents"}
BuildPC == {"delChunks", "delParents", "parse", "parents", "children",
            "leaves", "finish", "finishPC"}
TailPC == {"hype", "hypeChunk", "stamp", "stampPC"}
PC == {"idle", "guard", "mark", "progress"}
        \cup CopyPC \cup CleanPC \cup ReembedPC \cup BuildPC \cup TailPC

Jobs == [pc: PC, file: File \cup {NoFile}, kind: Kind, run: Nat,
         fp: Fp \cup {NoFp},             \* the fingerprint computed up front
         donor: File \cup {NoFile}, gen: Nat,    \* FindCopyDonor's answer
         pmap: SUBSET IndexRows,         \* parent_map, then the copied ones
         rows: SUBSET IndexRows,         \* chunk_map; in HyPE: chunks to do
         qs: SUBSET IndexRows,           \* the mapped chunks with questions
         old: SUBSET IndexRows,          \* chunks and parents the copy clears
         oldQs: SUBSET IndexRows,        \* questions the copy clears
         next: Nat, failed: SUBSET Nat,  \* next batch; batches that failed
         tail: BOOLEAN,                  \* hypeOn and raptorOn
         degraded: BOOLEAN]              \* markIngestDegraded, or ctx is dead

NoJob == [pc |-> "idle", file |-> NoFile, kind |-> "process", run |-> 0,
          fp |-> NoFp, donor |-> NoFile, gen |-> 0, pmap |-> {}, rows |-> {},
          qs |-> {}, old |-> {}, oldQs |-> {}, next |-> 1, failed |-> {},
          tail |-> FALSE, degraded |-> FALSE]

(* The types of the variables; a worker has a file exactly while it runs a *)
(* task, and a donor from the lookup to the end of the copy.               *)
TypeOK ==
  /\ row \in [File -> FileRows]
  /\ cfg \in [File -> Fp]
  /\ chunks \in [File -> SUBSET IndexRows]
  /\ parents \in [File -> SUBSET IndexRows]
  /\ hype \in [File -> SUBSET IndexRows]
  /\ del \in [File -> {"no", "chunks", "hype", "parents", "row", "done", "failed"}]
  /\ queue \subseteq File \X Kind
  /\ job \in [Worker -> Jobs]
  /\ runs \in Nat
  /\ \A w \in Worker :
       /\ job[w].file = NoFile <=> job[w].pc = "idle"
       /\ job[w].pc \in CopyPC \ {"lookup"} => job[w].donor \in File

Init ==
  /\ row = [f \in File |-> [status |-> "absent", fp |-> NoFp, gen |-> 0]]
  /\ cfg \in [File -> Fp]
  /\ chunks = [f \in File |-> {}]
  /\ parents = [f \in File |-> {}]
  /\ hype = [f \in File |-> {}]
  /\ del = [f \in File |-> "no"]
  /\ queue = {}
  /\ job = [w \in Worker |-> NoJob]
  /\ runs = 0

-----------------------------------------------------------------------------
(* Reading and writing the files row.                                      *)

Exists(f) == row[f].status \notin {"absent", "deleted"}
Busy(f) == \E w \in Worker : job[w].file = f
Deleting(f) == del[f] \in {"chunks", "hype", "parents", "row"}

(* What FindCopyDonor and DonorStillValid ask of a row.                    *)
Advertises(f, p) == row[f].status = "completed" /\ row[f].fp = p

CopyDonor(f) == row[f].fp # NoFp /\ Advertises(f, row[f].fp)

(* An UPDATE ... WHERE id = f: it changes nothing once the row is gone.     *)
Update(f, r) == row' = IF Exists(f) THEN [row EXCEPT ![f] = r] ELSE row

(* NOW(): the clock is taken to move between two writes of one row.  The   *)
(* progress and stage writes of a run between its mark and its stamp move   *)
(* the token too; the row is no donor then and its token has moved since it *)
(* last was, so those moves tell a copier nothing and are left out.         *)
Touched(r) == [r EXCEPT !.gen = @ + 1]

(* Mutants of Processing: the fingerprint stays; the token stays.          *)
ProcessingKeepsFp(r) == [Touched(r) EXCEPT !.status = "processing"]
ProcessingKeepsToken(r) == [r EXCEPT !.status = "processing", !.fp = NoFp]

(* UpdateFileStatus(f, "processing"): also clears the fingerprint and moves *)
(* the token.  Other statuses change only the status.                       *)
Processing(r) == [Touched(r) EXCEPT !.status = "processing", !.fp = NoFp]

Goto(w, pc) == job' = [job EXCEPT ![w].pc = pc]
End(w) == job' = [job EXCEPT ![w] = NoJob]
Requeue(w) == queue' = queue \cup {<<job[w].file, job[w].kind>>}

At(w, pc) == job[w].pc = pc

-----------------------------------------------------------------------------
(* Requests, settings and maintenance.                                     *)

Request(f, kind) ==
  /\ runs + Cardinality(queue) < MaxRuns
  /\ queue' = queue \cup {<<f, kind>>}

(* A library file is added to a KB: a pending row, then its task, unless    *)
(* the server dies in between.                                              *)
Upload(f) ==
  /\ row[f].status = "absent"
  /\ row' = [row EXCEPT ![f].status = "pending"]
  /\ Request(f, "process") \/ UNCHANGED queue
  /\ UNCHANGED <<cfg, index, del, job, runs>>

(* ReembedKB, ReembedAll: every finished file, also one whose run is still  *)
(* in its tail.                                                             *)
Reembed(f) ==
  /\ row[f].status \in {"completed", "partial", "error"}
  /\ Request(f, "reembed")
  /\ UNCHANGED <<row, cfg, index, del, job, runs>>

(* The retry endpoint: ResetFileForRetry, then a re-embedding task.  The    *)
(* server may die in between, or the enqueue fails and the row is an error  *)
(* again.                                                                   *)
Retry(f) ==
  /\ row[f].status = "error"
  /\ row' = [row EXCEPT ![f].status = "pending"]
  /\ Request(f, "reembed") \/ UNCHANGED queue
  /\ UNCHANGED <<cfg, index, del, job, runs>>

(* The stuck-file sweep calls a file that is 'processing' for too long an   *)
(* error.  It does not stop the run.                                        *)
StuckSweep(f) ==
  /\ row[f].status = "processing"
  /\ row' = [row EXCEPT ![f].status = "error"]
  /\ UNCHANGED <<cfg, index, del, queue, job, runs>>

Ingesting(f) ==
  \E w \in Worker : job[w].file = f /\ job[w].pc \in {"mark"} \cup BuildPC \cup TailPC

ChangeConfig(f) ==
  /\ "config" \in Disturbances \/ ~Ingesting(f)
  /\ \E c \in Fp \ {cfg[f]} : cfg' = [cfg EXCEPT ![f] = c]
  /\ UNCHANGED <<row, index, del, queue, job, runs>>

-----------------------------------------------------------------------------
(* Task delivery.                                                          *)

(* The copy fingerprint is computed when the task starts.  A re-embed never *)
(* copies.  A lookup of the row that fails counts as "present" (fileRowGone)*)
(* so that a run may also start, and pass its guard, on a file that is gone.*)
StartTask(w, f, k) ==
  /\ At(w, "idle")
  /\ <<f, k>> \in queue
  /\ runs < MaxRuns
  /\ "run" \in Disturbances \/ ~Busy(f)
  /\ "delete" \in Disturbances \/ ~Deleting(f)
  /\ queue' = queue \ {<<f, k>>}
  /\ runs' = runs + 1
  /\ job' = [job EXCEPT ![w] =
               [NoJob EXCEPT !.pc = IF k = "reembed" THEN "preflight" ELSE "lookup",
                             !.file = f, !.kind = k, !.run = runs + 1,
                             !.fp = IF k = "reembed" THEN NoFp ELSE cfg[f]]]
  /\ UNCHANGED <<row, cfg, index, del>>

(* The file went while its task waited: RevokeTask.                        *)
DropTask(f) ==
  /\ <<f, "process">> \in queue
  /\ ~Exists(f)
  /\ queue' = queue \ {<<f, "process">>}
  /\ UNCHANGED <<row, cfg, index, del, job, runs>>

(* The process dies: its transaction rolls back and the task is recovered,  *)
(* or archived when it had no retry left.                                   *)
WorkerCrash(w) ==
  /\ ~At(w, "idle")
  /\ Requeue(w) \/ UNCHANGED queue
  /\ End(w)
  /\ UNCHANGED <<row, cfg, index, del, runs>>

FailPC == {"preflight", "reMark", "reChunks", "guard", "mark", "parse",
           "parents", "children", "leaves", "finish", "markCopied"}
MarkFailedPC == {"parse", "parents", "children", "leaves", "finish"}

(* The handler returns an error that is not its last: asynq retries it and  *)
(* the row keeps its status.                                                *)
AttemptFails(w) ==
  /\ job[w].pc \in FailPC
  /\ Requeue(w)
  /\ End(w)
  /\ UNCHANGED <<row, cfg, index, del, runs>>

(* The last attempt fails: markFailed inside the processor, or only the     *)
(* wrapper MarkErrorOnExhaustion, which spares a completed or partial file. *)
LastAttemptFails(w) ==
  LET f == job[w].file IN
  /\ job[w].pc \in FailPC
  /\ IF job[w].pc \in MarkFailedPC \/ row[f].status \notin {"completed", "partial"}
       THEN Update(f, [row[f] EXCEPT !.status = "error"])
       ELSE UNCHANGED row
  /\ End(w)
  /\ UNCHANGED <<cfg, index, del, queue, runs>>

-----------------------------------------------------------------------------
(* Copy mode: tryCopy and CopyFileIndex.                                   *)

(* The run goes on at pc without the copy it tried.                        *)
Drop(w, pc) ==
  job' = [job EXCEPT ![w] = [NoJob EXCEPT !.pc = pc, !.file = job[w].file,
                                          !.kind = job[w].kind, !.run = job[w].run]]

(* No fingerprint, no donor, a failed lookup or mark: ingest.              *)
SkipCopy(w) ==
  /\ job[w].pc \in {"lookup", "copyMark"}
  /\ Drop(w, "guard")
  /\ UNCHANGED <<row, cfg, index, del, queue, runs>>

FindCopyDonor(w, d) ==
  /\ At(w, "lookup")
  /\ d # job[w].file
  /\ Advertises(d, job[w].fp)
  /\ job' = [job EXCEPT ![w] = [@ EXCEPT !.pc = "copyMark", !.donor = d,
                                        !.gen = row[d].gen]]
  /\ UNCHANGED <<row, cfg, index, del, queue, runs>>

CopyMark(w) ==
  LET f == job[w].file IN
  /\ At(w, "copyMark")
  /\ Update(f, Processing(row[f]))
  /\ Goto(w, "clear")
  /\ UNCHANGED <<cfg, index, del, queue, runs>>

(* The advisory lock of the target, the deletes of its old rows (seen by    *)
(* others at the commit only), and parent_map.                              *)
ClearTarget(w) ==
  LET f == job[w].file IN
  /\ At(w, "clear")
  /\ \A v \in Worker : ~(job[v].file = f /\ job[v].pc \in TxPC)
  /\ job' = [job EXCEPT ![w] = [@ EXCEPT !.pc = "copyParents",
                                        !.old = chunks[f] \cup parents[f],
                                        !.oldQs = hype[f],
                                        !.pmap = parents[job[w].donor]]]
  /\ UNCHANGED <<row, cfg, index, del, queue, runs>>

(* READ COMMITTED: a mapped row that is gone by now is not copied.         *)
CopyParents(w) ==
  /\ At(w, "copyParents")
  /\ job' = [job EXCEPT ![w] = [@ EXCEPT !.pc = "mapChunks",
                                        !.pmap = job[w].pmap \cap parents[job[w].donor]]]
  /\ UNCHANGED <<row, cfg, index, del, queue, runs>>

MapChunks(w) ==
  LET rows == chunks[job[w].donor] IN
  /\ At(w, "mapChunks")
  /\ job' = [job EXCEPT ![w] = [@ EXCEPT !.rows = rows,
                !.pc = IF rows = {} THEN "commit" ELSE "copyChunks"]]
  /\ UNCHANGED <<row, cfg, index, del, queue, runs>>

(* The row-count check: fewer rows copied than mapped rolls back.          *)
CopyChunks(w) ==
  /\ At(w, "copyChunks")
  /\ IF job[w].rows \subseteq chunks[job[w].donor]
       THEN Goto(w, "copyHype") ELSE Drop(w, "clean")
  /\ UNCHANGED <<row, cfg, index, del, queue, runs>>

CopyHype(w) ==
  /\ At(w, "copyHype")
  /\ job' = [job EXCEPT ![w] = [@ EXCEPT !.pc = "commit",
                                        !.qs = job[w].rows \cap hype[job[w].donor]]]
  /\ UNCHANGED <<row, cfg, index, del, queue, runs>>

(* Copied rows get new ids and keep the content of the donor's.            *)
Copied(rows, r) == {[c EXCEPT !.run = r] : c \in rows}

(* Mutant of CommitCopy: a copy of nothing is kept.                        *)
CommitAnyCopy(w) ==
  LET f == job[w].file IN
  /\ At(w, "commit")
  /\ chunks' = [chunks EXCEPT ![f] = (@ \ job[w].old) \cup Copied(job[w].rows, job[w].run)]
  /\ parents' = [parents EXCEPT ![f] = (@ \ job[w].old) \cup Copied(job[w].pmap, job[w].run)]
  /\ hype' = [hype EXCEPT ![f] = (@ \ job[w].oldQs) \cup Copied(job[w].qs, job[w].run)]
  /\ Goto(w, "recheck")
  /\ UNCHANGED <<row, cfg, del, queue, runs>>

(* The transaction commits.  A copy that mapped no chunk is discarded.     *)
CommitCopy(w) ==
  LET f == job[w].file IN
  /\ At(w, "commit")
  /\ chunks' = [chunks EXCEPT ![f] = (@ \ job[w].old) \cup Copied(job[w].rows, job[w].run)]
  /\ parents' = [parents EXCEPT ![f] = (@ \ job[w].old) \cup Copied(job[w].pmap, job[w].run)]
  /\ hype' = [hype EXCEPT ![f] = (@ \ job[w].oldQs) \cup Copied(job[w].qs, job[w].run)]
  /\ IF job[w].rows = {} THEN Drop(w, "clean")
       ELSE job' = [job EXCEPT ![w] = [@ EXCEPT !.pc = "recheck", !.pmap = {}, !.rows = {},
                                             !.qs = {}, !.old = {}, !.oldQs = {}]]
  /\ UNCHANGED <<row, cfg, del, queue, runs>>

(* An error anywhere in CopyFileIndex rolls back.                          *)
CopyFails(w) ==
  /\ job[w].pc \in {"clear"} \cup TxPC
  /\ Drop(w, "clean")
  /\ UNCHANGED <<row, cfg, index, del, queue, runs>>

(* Mutant of DonorStillValid: the token is not compared.                    *)
DonorStillAdvertises(w) == Advertises(job[w].donor, job[w].fp)

(* The donor must still be the same donor under the same token.            *)
DonorStillValid(w) ==
  /\ Advertises(job[w].donor, job[w].fp)
  /\ row[job[w].donor].gen = job[w].gen

Recheck(w) ==
  /\ At(w, "recheck")
  /\ \/ DonorStillValid(w) /\ Goto(w, "markCopied")
     \/ Drop(w, "clean")       \* not valid, or the lookup failed
  /\ UNCHANGED <<row, cfg, index, del, queue, runs>>

MarkCopied(w) ==
  LET f == job[w].file IN
  /\ At(w, "markCopied")
  /\ Update(f, [Touched(row[f]) EXCEPT !.status = "completed", !.fp = job[w].fp])
  /\ End(w)
  /\ UNCHANGED <<cfg, index, del, queue, runs>>

-----------------------------------------------------------------------------
(* Best-effort removal of a file's index: cleanTarget after a copy that was *)
(* not kept, removeDeletedFileOutput after the file went mid-run.           *)

(* A best-effort delete of the index rows of f in one table.               *)
Emptied(table, f) ==
  {[table EXCEPT ![f] = {}]} \cup (IF "cleanup" \in Disturbances THEN {table} ELSE {})

CleanChunks(w) ==
  /\ At(w, "clean")
  /\ chunks' \in Emptied(chunks, job[w].file)
  /\ Goto(w, "cleanParents")
  /\ UNCHANGED <<row, cfg, parents, hype, del, queue, runs>>

CleanParents(w) ==
  /\ At(w, "cleanParents")
  /\ parents' \in Emptied(parents, job[w].file)
  /\ Goto(w, "cleanHype")
  /\ UNCHANGED <<row, cfg, chunks, hype, del, queue, runs>>

CleanHype(w) ==
  /\ At(w, "cleanHype")
  /\ hype' \in Emptied(hype, job[w].file)
  /\ Goto(w, "guard")
  /\ UNCHANGED <<row, cfg, chunks, parents, del, queue, runs>>

-----------------------------------------------------------------------------
(* Re-embed: the handler's own steps before the ingest it shares.          *)

Preflight(w) ==
  /\ At(w, "preflight")
  /\ Goto(w, "reMark")
  /\ UNCHANGED <<row, cfg, index, del, queue, runs>>

(* Mutant of ReembedMark: the row is left alone.                           *)
ReembedWithoutMark(w) ==
  /\ At(w, "reMark")
  /\ Goto(w, "reChunks")
  /\ UNCHANGED <<row, cfg, index, del, queue, runs>>

ReembedMark(w) ==
  LET f == job[w].file IN
  /\ At(w, "reMark")
  /\ Update(f, Processing(row[f]))
  /\ Goto(w, "reChunks")
  /\ UNCHANGED <<cfg, index, del, queue, runs>>

ReembedDeleteChunks(w) ==
  /\ At(w, "reChunks")
  /\ chunks' = [chunks EXCEPT ![job[w].file] = {}]
  /\ Goto(w, "reParents")
  /\ UNCHANGED <<row, cfg, parents, hype, del, queue, runs>>

ReembedDeleteParents(w) ==
  /\ At(w, "reParents")
  /\ parents' \in Emptied(parents, job[w].file)
  /\ Goto(w, "guard")
  /\ UNCHANGED <<row, cfg, chunks, hype, del, queue, runs>>

-----------------------------------------------------------------------------
(* The ingest: guardDeletedFile, then ingestFile.                          *)

(* The file is gone: stop.  Otherwise, or when the lookup failed, take the  *)
(* fingerprint snapshot, which may fail too.                                *)
Guard(w) ==
  LET f == job[w].file IN
  /\ At(w, "guard")
  /\ \/ ~Exists(f) /\ End(w)
     \/ \E p \in {cfg[f], NoFp} :
          job' = [job EXCEPT ![w] = [@ EXCEPT !.pc = "mark", !.fp = p]]
  /\ UNCHANGED <<row, cfg, index, del, queue, runs>>

(* The stage plan of the run is settled here: a parent-child KB has no tail.*)
MarkProcessing(w) ==
  LET f == job[w].file IN
  /\ At(w, "mark")
  /\ Update(f, Processing(row[f]))
  /\ job' = [job EXCEPT ![w] = [@ EXCEPT !.pc = "delChunks", !.tail = cfg[f] \notin ParentChild]]
  /\ UNCHANGED <<cfg, index, del, queue, runs>>

DeleteOldChunks(w) ==
  /\ At(w, "delChunks")
  /\ chunks' \in Emptied(chunks, job[w].file)
  /\ Goto(w, "delParents")
  /\ UNCHANGED <<row, cfg, parents, hype, del, queue, runs>>

(* Mutant of DeleteOldParents: they stay.                                  *)
KeepOldParents(w) ==
  /\ At(w, "delParents")
  /\ Goto(w, "parse")
  /\ UNCHANGED <<row, cfg, index, del, queue, runs>>

DeleteOldParents(w) ==
  /\ At(w, "delParents")
  /\ parents' \in Emptied(parents, job[w].file)
  /\ Goto(w, "parse")
  /\ UNCHANGED <<row, cfg, chunks, hype, del, queue, runs>>

(* Parse, split and enrich; a chunk left without its enrichment prefix      *)
(* degrades the run.                                                        *)
Parse(w) ==
  LET f == job[w].file IN
  /\ At(w, "parse")
  /\ \E bad \in BOOLEAN :
       job' = [job EXCEPT ![w] = [@ EXCEPT !.degraded = bad,
                 !.pc = IF cfg[f] \in ParentChild THEN "parents" ELSE "leaves"]]
  /\ UNCHANGED <<row, cfg, index, del, queue, runs>>

(* What a run stores of one piece, under the settings in force now.        *)
Built(w, p) == IndexRow(job[w].run, job[w].run, cfg[job[w].file], p)
Store(w, p) == chunks' = [chunks EXCEPT ![job[w].file] = @ \cup {Built(w, p)}]

InsertParents(w) ==
  /\ At(w, "parents")
  /\ parents' = [parents EXCEPT ![job[w].file] = @ \cup {Built(w, Parent)}]
  /\ Goto(w, "children")
  /\ UNCHANGED <<row, cfg, chunks, hype, del, queue, runs>>

NextBatch(w, here, done, bad) ==
  job' = [job EXCEPT ![w] = [@ EXCEPT !.next = job[w].next + 1,
            !.failed = job[w].failed \cup bad,
            !.pc = IF job[w].next = NLeaf THEN done ELSE here]]

(* A batch that fails ends a parent-child ingest (AttemptFails).           *)
EmbedChildren(w) ==
  /\ At(w, "children")
  /\ Store(w, job[w].next)
  /\ NextBatch(w, "children", "finishPC", {})
  /\ UNCHANGED <<row, cfg, parents, hype, del, queue, runs>>

(* A flat ingest goes on after a batch that fails.                         *)
EmbedBatch(w) ==
  /\ At(w, "leaves")
  /\ \/ Store(w, job[w].next) /\ NextBatch(w, "leaves", "finish", {})
     \/ UNCHANGED chunks /\ NextBatch(w, "leaves", "finish", {job[w].next})
  /\ UNCHANGED <<row, cfg, parents, hype, del, queue, runs>>

(* The status write is checked on the flat path; when every batch failed    *)
(* the attempt fails.                                                       *)
FinishFlat(w) ==
  LET f == job[w].file IN
  /\ At(w, "finish")
  /\ job[w].failed # Leaf
  /\ Update(f, [row[f] EXCEPT
               !.status = IF job[w].failed = {} THEN "completed" ELSE "partial"])
  /\ Goto(w, IF job[w].tail THEN "hype" ELSE "stamp")
  /\ UNCHANGED <<cfg, index, del, queue, runs>>

(* On the parent-child path it is not.                                     *)
FinishParentChild(w) ==
  LET f == job[w].file IN
  /\ At(w, "finishPC")
  /\ Update(f, [row[f] EXCEPT !.status = "completed"]) \/ UNCHANGED row
  /\ Goto(w, "stampPC")
  /\ UNCHANGED <<cfg, index, del, queue, runs>>

(* HyPE reads the stored chunks back, or fails to.                         *)
HypeStage(w) ==
  LET f == job[w].file IN
  /\ At(w, "hype")
  /\ \/ job' = [job EXCEPT ![w] = [@ EXCEPT !.pc = "hypeChunk", !.rows = chunks[f]]]
     \/ job' = [job EXCEPT ![w] = [@ EXCEPT !.pc = "hypeChunk", !.degraded = TRUE]]
  /\ UNCHANGED <<row, cfg, index, del, queue, runs>>

HypeChunk(w) ==
  LET f == job[w].file IN
  /\ At(w, "hypeChunk")
  /\ \E c \in job[w].rows :
       \/ /\ hype' = [hype EXCEPT ![f] = @ \cup {c}]
          /\ job' = [job EXCEPT ![w] = [@ EXCEPT !.rows = job[w].rows \ {c}]]
       \/ /\ UNCHANGED hype
          /\ job' = [job EXCEPT ![w] = [@ EXCEPT !.rows = job[w].rows \ {c},
                                                !.degraded = TRUE]]
  /\ UNCHANGED <<row, cfg, chunks, parents, del, queue, runs>>

(* RAPTOR asks again whether the KB is a parent-child one.                 *)
Raptor(w) ==
  LET f == job[w].file IN
  /\ At(w, "hypeChunk") /\ job[w].rows = {}
  /\ \/ /\ cfg[f] \in ParentChild
        /\ Goto(w, "stamp")
        /\ UNCHANGED chunks
     \/ /\ cfg[f] \notin ParentChild
        /\ \/ Store(w, Tree) /\ Goto(w, "stamp")
           \/ /\ UNCHANGED chunks
              /\ job' = [job EXCEPT ![w] = [@ EXCEPT !.pc = "stamp", !.degraded = TRUE]]
  /\ UNCHANGED <<row, cfg, parents, hype, del, queue, runs>>

(* recordIndexFingerprint: the start-of-run snapshot, for a completed run   *)
(* that was not degraded; best-effort.                                      *)
Stamp(w) ==
  LET f == job[w].file IN
  /\ job[w].pc \in {"stamp", "stampPC"}
  /\ \/ /\ job[w].fp # NoFp /\ job[w].failed = {} /\ ~job[w].degraded
        /\ Update(f, [row[f] EXCEPT !.fp = job[w].fp])
     \/ UNCHANGED row
  /\ IF At(w, "stampPC") THEN Goto(w, "progress") ELSE End(w)
  /\ UNCHANGED <<cfg, index, del, queue, runs>>

(* The parent-child path writes 100 % after the stamp.                     *)
FinalProgress(w) ==
  LET f == job[w].file IN
  /\ At(w, "progress")
  /\ Update(f, Touched(row[f]))
  /\ End(w)
  /\ UNCHANGED <<cfg, index, del, queue, runs>>

(* watchFileRow: the run notices that its row is gone and removes what it   *)
(* wrote.                                                                   *)
RowGoneNoticed(w) ==
  /\ job[w].pc \in {"mark", "progress"} \cup BuildPC \cup TailPC
  /\ ~Exists(job[w].file)
  /\ Drop(w, "clean")
  /\ UNCHANGED <<row, cfg, index, del, queue, runs>>

-----------------------------------------------------------------------------
(* The delete cascade (DeleteFiles and its callers).  A file is deleted at  *)
(* most once in a behaviour.                                                *)

(* retireCopyDonors comes first; it is best-effort.                        *)
DeleteFile(f) ==
  /\ Exists(f) /\ del[f] = "no"
  /\ "delete" \in Disturbances \/ ~Busy(f)
  /\ \/ row' = [row EXCEPT ![f] = [Touched(@) EXCEPT !.fp = NoFp]]
     \/ "retire" \in Disturbances /\ UNCHANGED row
  /\ del' = [del EXCEPT ![f] = "chunks"]
  /\ UNCHANGED <<cfg, index, queue, job, runs>>

(* The vector deletes are best-effort too: rows left behind are orphans.   *)
CascadeChunks(f) ==
  /\ del[f] = "chunks"
  /\ chunks' \in Emptied(chunks, f)
  /\ del' = [del EXCEPT ![f] = "hype"]
  /\ UNCHANGED <<row, cfg, parents, hype, queue, job, runs>>

CascadeHype(f) ==
  /\ del[f] = "hype"
  /\ hype' \in Emptied(hype, f)
  /\ del' = [del EXCEPT ![f] = "parents"]
  /\ UNCHANGED <<row, cfg, chunks, parents, queue, job, runs>>

CascadeParents(f) ==
  /\ del[f] = "parents"
  /\ parents' \in Emptied(parents, f)
  /\ del' = [del EXCEPT ![f] = "row"]
  /\ UNCHANGED <<row, cfg, chunks, hype, queue, job, runs>>

DeleteRow(f) ==
  /\ del[f] = "row"
  /\ \/ /\ row' = [row EXCEPT ![f] = [@ EXCEPT !.status = "deleted", !.fp = NoFp]]
        /\ del' = [del EXCEPT ![f] = "done"]
     \/ /\ "rowDelete" \in Disturbances
        /\ UNCHANGED row
        /\ del' = [del EXCEPT ![f] = "failed"]
  /\ UNCHANGED <<cfg, index, queue, job, runs>>

-----------------------------------------------------------------------------
FileStep(f) ==
  \/ Upload(f) \/ Reembed(f) \/ Retry(f) \/ StuckSweep(f) \/ ChangeConfig(f)
  \/ DropTask(f) \/ DeleteFile(f) \/ CascadeChunks(f) \/ CascadeHype(f)
  \/ CascadeParents(f) \/ DeleteRow(f)

CopyStep(w) ==
  \/ SkipCopy(w) \/ (\E d \in File : FindCopyDonor(w, d)) \/ CopyMark(w)
  \/ ClearTarget(w) \/ CopyParents(w) \/ MapChunks(w) \/ CopyChunks(w)
  \/ CopyHype(w) \/ CommitCopy(w) \/ CopyFails(w) \/ Recheck(w) \/ MarkCopied(w)
  \/ CleanChunks(w) \/ CleanParents(w) \/ CleanHype(w)

IngestStep(w) ==
  \/ Preflight(w) \/ ReembedMark(w) \/ ReembedDeleteChunks(w) \/ ReembedDeleteParents(w)
  \/ Guard(w) \/ MarkProcessing(w) \/ DeleteOldChunks(w) \/ DeleteOldParents(w)
  \/ Parse(w) \/ InsertParents(w) \/ EmbedChildren(w) \/ EmbedBatch(w)
  \/ FinishFlat(w) \/ FinishParentChild(w) \/ HypeStage(w) \/ HypeChunk(w)
  \/ Raptor(w) \/ Stamp(w) \/ FinalProgress(w) \/ RowGoneNoticed(w)

WorkerStep(w) ==
  \/ (\E f \in File, k \in Kind : StartTask(w, f, k))
  \/ WorkerCrash(w) \/ AttemptFails(w) \/ LastAttemptFails(w)
  \/ CopyStep(w) \/ IngestStep(w)

Next == (\E f \in File : FileStep(f)) \/ (\E w \in Worker : WorkerStep(w))

Spec == Init /\ [][Next]_vars

-----------------------------------------------------------------------------
(* Properties.                                                             *)

Pieces(p) == IF p \in ParentChild THEN Leaf ELSE Leaf \cup {Tree}

(* The index of f is exactly one build under settings p, inserted by one   *)
(* run: every piece of it once, the parents its chunks refer to, and the    *)
(* questions of every leaf.                                                 *)
WholeAs(f, p, r, b) ==
  /\ chunks[f] = {IndexRow(r, b, p, x) : x \in Pieces(p)}
  /\ parents[f] = IF p \in ParentChild THEN {IndexRow(r, b, p, Parent)} ELSE {}
  /\ p \notin ParentChild => {IndexRow(r, b, p, x) : x \in Leaf} \subseteq hype[f]

IndexWhole(f, p) == \E r, b \in 0..runs : WholeAs(f, p, r, b)

(* A row that advertises itself as a copy donor has the index its          *)
(* fingerprint claims: one whole build under exactly those settings,        *)
(* whatever runs, copies, deletes and crashes came before (tryCopy,         *)
(* recordIndexFingerprint, DonorStillValid).                                *)
DonorIndexWhole ==
  \A f \in File : CopyDonor(f) /\ ~Deleting(f) => IndexWhole(f, row[f].fp)

(* A run, or the cascade, is taking the index of f apart or rebuilding it.  *)
TakenPC == {"clear", "recheck", "markCopied", "reChunks", "reParents"}
             \cup TxPC \cup CleanPC \cup BuildPC \cup TailPC

TakenApart(f) ==
  Deleting(f) \/ \E w \in Worker : job[w].file = f /\ job[w].pc \in TakenPC

(* From the moment a run or the cascade starts to take an index apart, and  *)
(* until the run that rebuilds it stamps it, the row carries no fingerprint *)
(* (UpdateFileStatus, retireCopyDonors).                                    *)
RebuildRetiresDonor == \A f \in File : TakenApart(f) => row[f].fp = NoFp

(* A file shown as ready has every leaf of one build, inserted by one run:  *)
(* 'completed' is written after the last batch and is gone before the first *)
(* old chunk is deleted (ingestFile, reembedHandler, MarkCopied).           *)
ReadyHasItsLeaves ==
  \A f \in File : row[f].status = "completed" /\ del[f] = "no" =>
    \E r, b \in 0..runs : \A l \in Leaf :
       \E c \in chunks[f] : c.run = r /\ c.build = b /\ c.piece = l

(* The index of a row is not touched while the row advertises it: a copier  *)
(* reads a donor that stays put for as long as it stays a donor.            *)
DonorIndexStable ==
  [][\A f \in File : CopyDonor(f) =>
       chunks'[f] = chunks[f] /\ parents'[f] = parents[f] /\ hype'[f] = hype[f]]_vars

(* A row never stops being a donor without moving its generation token or   *)
(* going for good, so a donor found with its old token at the recheck was a *)
(* donor all along (no A-B-A behind the copier's back).                     *)
TokenMovesOnRetire ==
  [][\A f \in File : CopyDonor(f) /\ ~CopyDonor(f)' =>
       row'[f].gen > row[f].gen \/ ~Exists(f)']_vars

(* A copy that mapped no chunk is never kept: whatever becomes of the donor *)
(* and of the best-effort steps, a file shown as ready has chunks (tryCopy).*)
ReadyIsNotEmpty ==
  \A f \in File : row[f].status = "completed" /\ del[f] = "no" => chunks[f] # {}

(* What the comment on the snapshot says: it is "taken before parsing so a  *)
(* mid-ingest config change cannot make the stamp claim more than the index *)
(* was built with".  The overrides of a KB are read before the snapshot;    *)
(* the settings of the site are read again by each stage that asks for them.*)
StampsClaimNoMore ==
  \A f \in File : CopyDonor(f) /\ ~Deleting(f) =>
    \A c \in chunks[f] \cup parents[f] : c.cfg = row[f].fp

-----------------------------------------------------------------------------
(* What copy mode promises (DonorRegistry).                                *)

(* The index of f, without the ids of its rows: what a copy keeps of it.    *)
Content(f) == {<<c.build, c.cfg, c.piece>> : c \in chunks[f] \cup parents[f]}

PartsOf(p) == Pieces(p) \cup (IF p \in ParentChild THEN {Parent} ELSE {})

Offered(f) ==
  IF CopyDonor(f) THEN [fp |-> row[f].fp, pieces |-> Content(f)]
                  ELSE [fp |-> NoFp, pieces |-> {}]

(* A run may offer its build until it has, as long as its row is there.     *)
Building(w) ==
  IF job[w].pc \in {"idle", "progress"} \/ ~Exists(job[w].file) THEN 0 ELSE job[w].run

(* The recheck is the moment at which the copy is taken.                    *)
Holding(w) ==
  IF At(w, "markCopied") /\ Exists(job[w].file)
    THEN [fp |-> job[w].fp, pieces |-> Content(job[w].file)]
    ELSE [fp |-> NoFp, pieces |-> {}]

Registry == INSTANCE DonorRegistry WITH
  Row <- File, Run <- Worker, Parts <- [p \in Fp |-> PartsOf(p)],
  offer <- [f \in File |-> Offered(f)], build <- [w \in Worker |-> Building(w)],
  copy <- [w \in Worker |-> Holding(w)], last <- runs

(* A copy, which the code spreads over two databases and a dozen statements *)
(* (CopyFileIndex, DonorStillValid, MarkCopied), has the effect of one step *)
(* that takes what the donor offers at that moment; whatever else a row     *)
(* offers is a whole build of its own, made once, and no offer changes or   *)
(* is replaced while it is made (recordIndexFingerprint).                   *)
CopiesAreAtomic == Registry!Spec
=============================================================================
