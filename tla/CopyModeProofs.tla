--------------------------- MODULE CopyModeProofs ---------------------------
(***************************************************************************)
(* For every value of the constants of CopyMode: type correctness, the      *)
(* donor discipline (a rebuild retires the donor before it touches the      *)
(* index), that a donor has the whole index its fingerprint claims, that a  *)
(* file shown as ready has its leaves, and that a copy, for all its         *)
(* statements, has the effect of one step (DonorRegistry).                  *)
(***************************************************************************)
EXTENDS CopyModeInv, TLAPS

USE FileAssumption, FpAssumption, LeafAssumption, BoundAssumption

LEMMA NoJobType == NoJob \in Jobs
  BY DEF NoJob, Jobs, PC, Kind

LEMMA RowType ==
  ASSUME NEW r \in FileRows
  PROVE  /\ Touched(r) \in FileRows
         /\ Processing(r) \in FileRows
         /\ \A s \in Status : [r EXCEPT !.status = s] \in FileRows
         /\ \A p \in Fp \cup {NoFp} : [r EXCEPT !.fp = p] \in FileRows
         /\ [Touched(r) EXCEPT !.fp = NoFp] \in FileRows
         /\ [r EXCEPT !.status = "deleted", !.fp = NoFp] \in FileRows
<1>1. Touched(r) \in FileRows
  BY DEF FileRows, Touched
<1>2. Processing(r) \in FileRows
  BY <1>1 DEF FileRows, Processing, Status
<1>3. ASSUME NEW s \in Status PROVE [r EXCEPT !.status = s] \in FileRows
  BY DEF FileRows
<1>4. ASSUME NEW p \in Fp \cup {NoFp} PROVE [r EXCEPT !.fp = p] \in FileRows
  BY DEF FileRows
<1>5. [Touched(r) EXCEPT !.fp = NoFp] \in FileRows
  BY <1>1 DEF FileRows
<1>6. [r EXCEPT !.status = "deleted", !.fp = NoFp] \in FileRows
  BY DEF FileRows, Status
<1> QED
  BY <1>1, <1>2, <1>3, <1>4, <1>5, <1>6

LEMMA InitType == Init => TypeOK
  BY NoJobType DEF Init, TypeOK, FileRows, Status, NoJob, CopyPC, TxPC

LEMMA FileStepType ==
  ASSUME TypeOK, NEW f \in File, FileStep(f)
  PROVE  TypeOK'
<1> USE DEF TypeOK, Kind, index
<1>1. CASE Upload(f)
  BY <1>1 DEF Upload, Request, FileRows, Status
<1>2. CASE Reembed(f)
  BY <1>2 DEF Reembed, Request
<1>3. CASE Retry(f)
  BY <1>3 DEF Retry, Request, FileRows, Status
<1>4. CASE StuckSweep(f)
  BY <1>4 DEF StuckSweep, FileRows, Status
<1>5. CASE ChangeConfig(f)
  BY <1>5 DEF ChangeConfig
<1>6. CASE DropTask(f)
  BY <1>6 DEF DropTask
<1>7. CASE DeleteFile(f)
  <2>2. [Touched(row[f]) EXCEPT !.fp = NoFp] \in FileRows
    BY RowType
  <2>3. row' \in [File -> FileRows]
    BY <1>7, <2>2 DEF DeleteFile
  <2> QED
    BY <1>7, <2>3 DEF DeleteFile
<1>8. CASE CascadeChunks(f)
  BY <1>8 DEF CascadeChunks, Emptied
<1>9. CASE CascadeHype(f)
  BY <1>9 DEF CascadeHype, Emptied
<1>10. CASE CascadeParents(f)
  BY <1>10 DEF CascadeParents, Emptied
<1>11. CASE DeleteRow(f)
  <2>2. [row[f] EXCEPT !.status = "deleted", !.fp = NoFp] \in FileRows
    BY RowType
  <2>3. row' \in [File -> FileRows]
    BY <1>11, <2>2 DEF DeleteRow
  <2> QED
    BY <1>11, <2>3 DEF DeleteRow
<1> QED
  BY <1>1, <1>2, <1>3, <1>4, <1>5, <1>6, <1>7, <1>8, <1>9, <1>10, <1>11 DEF FileStep

(* The conjuncts of TypeOK about the workers, and the others.              *)
JobType ==
  /\ job \in [Worker -> Jobs]
  /\ \A w \in Worker :
       /\ job[w].file = NoFile <=> job[w].pc = "idle"
       /\ job[w].pc \in CopyPC \ {"lookup"} => job[w].donor \in File
DataType ==
  /\ row \in [File -> FileRows]
  /\ cfg \in [File -> Fp]
  /\ chunks \in [File -> SUBSET IndexRows]
  /\ parents \in [File -> SUBSET IndexRows]
  /\ hype \in [File -> SUBSET IndexRows]
  /\ del \in [File -> {"no", "chunks", "hype", "parents", "row", "done", "failed"}]
  /\ queue \subseteq File \X Kind
  /\ runs \in Nat

LEMMA SplitType == TypeOK <=> JobType /\ DataType
  BY DEF TypeOK, JobType, DataType

LEMMA UpdateType ==
  ASSUME TypeOK, NEW f \in File, NEW r \in FileRows, Update(f, r)
  PROVE  row' \in [File -> FileRows]
BY DEF TypeOK, Update

(* The changes to job that the actions are made of.                        *)
LEMMA GotoType ==
  ASSUME TypeOK, NEW w \in Worker, NEW p \in PC, Goto(w, p),
         ~At(w, "idle"), p # "idle",
         p \in CopyPC \ {"lookup"} => job[w].donor \in File
  PROVE  JobType'
BY DEF TypeOK, JobType, Goto, At, Jobs

LEMMA EndType ==
  ASSUME TypeOK, NEW w \in Worker, End(w)
  PROVE  JobType'
BY NoJobType DEF TypeOK, JobType, End, NoJob, CopyPC, TxPC

LEMMA DropType ==
  ASSUME TypeOK, NEW w \in Worker, NEW p \in PC \ CopyPC, Drop(w, p),
         ~At(w, "idle"), p # "idle"
  PROVE  JobType'
BY ZenonT(60), NoJobType DEF TypeOK, JobType, Drop, NoJob, At, Jobs

(* Any other change of one job that keeps its file and its donor.          *)
LEMMA StepType ==
  ASSUME TypeOK, NEW w \in Worker, NEW j \in Jobs, job' = [job EXCEPT ![w] = j],
         ~At(w, "idle"), j.pc # "idle", j.file = job[w].file,
         j.pc \in CopyPC \ {"lookup"} => j.donor \in File
  PROVE  JobType'
BY DEF TypeOK, JobType, At

LEMMA FileOfJob ==
  ASSUME TypeOK, NEW w \in Worker, ~At(w, "idle")
  PROVE  job[w].file \in File /\ job[w] \in Jobs
BY DEF TypeOK, Jobs, At

LEMMA DeliveryType ==
  ASSUME TypeOK, NEW w \in Worker,
         \/ \E f \in File, k \in Kind : StartTask(w, f, k)
         \/ WorkerCrash(w) \/ AttemptFails(w) \/ LastAttemptFails(w)
  PROVE  TypeOK'
<1>1. ASSUME NEW f \in File, NEW k \in Kind, StartTask(w, f, k)
      PROVE  TypeOK'
  <2> DEFINE j == [NoJob EXCEPT !.pc = IF k = "reembed" THEN "preflight" ELSE "lookup",
                                !.file = f, !.kind = k, !.run = runs + 1,
                                !.fp = IF k = "reembed" THEN NoFp ELSE cfg[f]]
  <2>1. j \in Jobs /\ j.pc # "idle" /\ j.file = f /\ j.pc \notin CopyPC \ {"lookup"}
    <3>1. runs + 1 \in Nat /\ cfg[f] \in Fp
      BY DEF TypeOK
    <3>2. CASE k = "reembed"
      BY <3>1, <3>2 DEF NoJob, Jobs, PC, CopyPC, ReembedPC, TxPC
    <3>3. CASE k = "process"
      BY <3>1, <3>3 DEF NoJob, Jobs, PC, CopyPC, ReembedPC, TxPC
    <3> QED
      BY <3>2, <3>3 DEF Kind
  <2>2. /\ job' = [job EXCEPT ![w] = j]
        /\ queue' = queue \ {<<f, k>>} /\ runs' = runs + 1
        /\ UNCHANGED <<row, cfg, chunks, parents, hype, del>>
    BY <1>1 DEF StartTask, index
  <2> HIDE DEF j
  <2>3. JobType'
    BY <2>1, <2>2 DEF JobType, TypeOK
  <2>4. DataType'
    BY <2>2 DEF DataType, TypeOK
  <2> QED
    BY <2>3, <2>4 DEF TypeOK, JobType, DataType
<1> SUFFICES ASSUME ~At(w, "idle"), WorkerCrash(w) \/ AttemptFails(w) \/ LastAttemptFails(w)
             PROVE  TypeOK'
  BY <1>1 DEF WorkerCrash, AttemptFails, LastAttemptFails, At, FailPC
<1>2. End(w) /\ UNCHANGED <<cfg, index, del, runs>>
  BY DEF WorkerCrash, AttemptFails, LastAttemptFails
<1>3. JobType'
  BY <1>2, EndType
<1>4. queue' \subseteq File \X Kind
  BY FileOfJob DEF WorkerCrash, AttemptFails, LastAttemptFails, Requeue, TypeOK, Jobs
<1>5. row' \in [File -> FileRows]
  <2>1. CASE LastAttemptFails(w)
    <3>1. row[job[w].file] \in FileRows
      BY FileOfJob DEF TypeOK
    <3>2. [row[job[w].file] EXCEPT !.status = "error"] \in FileRows
      BY <3>1, RowType DEF Status
    <3> QED
      BY <2>1, <3>2, FileOfJob, UpdateType DEF LastAttemptFails, TypeOK
  <2> QED
    BY <2>1 DEF WorkerCrash, AttemptFails, TypeOK
<1> QED
  BY <1>2, <1>3, <1>4, <1>5 DEF TypeOK, JobType, index

(* A step of a run inside CopyFileIndex or around it.                      *)
LEMMA CopyStepType ==
  ASSUME TypeOK, NEW w \in Worker, CopyStep(w)
  PROVE  TypeOK'
<1> DEFINE f == job[w].file
<1>1. ~At(w, "idle")
  BY DEF CopyStep, At, SkipCopy, FindCopyDonor, CopyMark, ClearTarget, CopyParents,
         MapChunks, CopyChunks, CopyHype, CommitCopy, CopyFails, TxPC, Recheck,
         MarkCopied, CleanChunks, CleanParents, CleanHype
<1>2. /\ f \in File /\ job[w] \in Jobs /\ row[f] \in FileRows
      /\ chunks[f] \subseteq IndexRows /\ parents[f] \subseteq IndexRows
      /\ hype[f] \subseteq IndexRows
  BY <1>1, FileOfJob DEF TypeOK
<1>3. CASE SkipCopy(w)
  <2>1. Drop(w, "guard") /\ UNCHANGED <<row, cfg, index, del, queue, runs>>
    BY <1>3 DEF SkipCopy
  <2>2. JobType'
    BY <1>1, <2>1, DropType DEF PC, CopyPC, TxPC
  <2> QED
    BY <2>1, <2>2 DEF TypeOK, JobType, index
<1>4. ASSUME NEW d \in File, FindCopyDonor(w, d)
      PROVE  TypeOK'
  <2> DEFINE j == [job[w] EXCEPT !.pc = "copyMark", !.donor = d, !.gen = row[d].gen]
  <2>1. job' = [job EXCEPT ![w] = j] /\ UNCHANGED <<row, cfg, index, del, queue, runs>>
    BY <1>4 DEF FindCopyDonor, TypeOK
  <2>2. row[d].gen \in Nat
    BY DEF TypeOK, FileRows
  <2>3. j \in Jobs /\ j.pc = "copyMark" /\ j.file = job[w].file /\ j.donor = d
    BY <1>2, <2>2 DEF Jobs, PC, CopyPC
  <2> HIDE DEF j
  <2>4. JobType'
    BY <1>1, <2>1, <2>3, StepType
  <2> QED
    BY <2>1, <2>4 DEF TypeOK, JobType, index
<1>5. CASE CopyMark(w)
  <2>1. Update(f, Processing(row[f])) /\ Goto(w, "clear")
        /\ UNCHANGED <<cfg, index, del, queue, runs>>
    BY <1>5 DEF CopyMark
  <2>2. row' \in [File -> FileRows]
    BY <1>2, <2>1, RowType, UpdateType
  <2>3. JobType'
    BY <1>1, <1>5, <2>1, GotoType DEF CopyMark, At, TypeOK, PC, CopyPC
  <2> QED
    BY <2>1, <2>2, <2>3 DEF TypeOK, JobType, index
<1>6. CASE ClearTarget(w)
  <2> DEFINE j == [job[w] EXCEPT !.pc = "copyParents", !.old = chunks[f] \cup parents[f],
                                 !.oldQs = hype[f], !.pmap = parents[job[w].donor]]
  <2>1. job' = [job EXCEPT ![w] = j] /\ UNCHANGED <<row, cfg, index, del, queue, runs>>
    BY <1>6 DEF ClearTarget, TypeOK
  <2>2. job[w].donor \in File
    BY <1>6 DEF ClearTarget, At, TypeOK, CopyPC, TxPC
  <2>3. parents[job[w].donor] \subseteq IndexRows
    BY <2>2 DEF TypeOK
  <2>4. j \in Jobs /\ j.pc = "copyParents" /\ j.file = f /\ j.donor = job[w].donor
    BY <1>2, <2>2, <2>3 DEF Jobs, PC, CopyPC, TxPC
  <2> HIDE DEF j
  <2>5. JobType'
    BY <1>1, <2>1, <2>2, <2>4, StepType
  <2> QED
    BY <2>1, <2>5 DEF TypeOK, JobType, index
<1>7. CASE CopyParents(w)
  <2> DEFINE j == [job[w] EXCEPT !.pc = "mapChunks",
                                 !.pmap = job[w].pmap \cap parents[job[w].donor]]
  <2>1. job' = [job EXCEPT ![w] = j] /\ UNCHANGED <<row, cfg, index, del, queue, runs>>
    BY <1>7 DEF CopyParents, TypeOK
  <2>2. job[w].donor \in File
    BY <1>7 DEF CopyParents, At, TypeOK, CopyPC, TxPC
  <2>3. j \in Jobs /\ j.pc = "mapChunks" /\ j.file = f /\ j.donor = job[w].donor
    BY <1>2 DEF Jobs, PC, CopyPC, TxPC
  <2> HIDE DEF j
  <2>4. JobType'
    BY <1>1, <2>1, <2>2, <2>3, StepType
  <2> QED
    BY <2>1, <2>4 DEF TypeOK, JobType, index
<1>8. CASE MapChunks(w)
  <2> DEFINE p == IF chunks[job[w].donor] = {} THEN "commit" ELSE "copyChunks"
             j == [job[w] EXCEPT !.pc = p, !.rows = chunks[job[w].donor]]
  <2>1. job' = [job EXCEPT ![w] = j] /\ UNCHANGED <<row, cfg, index, del, queue, runs>>
    BY <1>8 DEF MapChunks, TypeOK
  <2>2. job[w].donor \in File /\ chunks[job[w].donor] \subseteq IndexRows
    BY <1>8 DEF MapChunks, At, TypeOK, CopyPC, TxPC
  <2>3. p \in {"commit", "copyChunks"}
    OBVIOUS
  <2> HIDE DEF p
  <2>4. j \in Jobs /\ j.pc = p /\ j.file = f /\ j.donor = job[w].donor
    BY <1>2, <2>2, <2>3 DEF Jobs, PC, CopyPC, TxPC
  <2> HIDE DEF j
  <2>5. JobType'
    BY <1>1, <2>1, <2>2, <2>3, <2>4, StepType
  <2> QED
    BY <2>1, <2>5 DEF TypeOK, JobType, index
<1>9. CASE CopyChunks(w)
  <2>1. Goto(w, "copyHype") \/ Drop(w, "clean")
    BY <1>9 DEF CopyChunks
  <2>2. job[w].donor \in File
    BY <1>9 DEF CopyChunks, At, TypeOK, CopyPC, TxPC
  <2>3. JobType'
    BY <1>1, <2>1, <2>2, GotoType, DropType DEF PC, CopyPC, CleanPC, TxPC
  <2> QED
    BY <1>9, <2>3 DEF CopyChunks, TypeOK, JobType, index
<1>10. CASE CopyHype(w)
  <2> DEFINE j == [job[w] EXCEPT !.pc = "commit",
                                 !.qs = job[w].rows \cap hype[job[w].donor]]
  <2>1. job' = [job EXCEPT ![w] = j] /\ UNCHANGED <<row, cfg, index, del, queue, runs>>
    BY <1>10 DEF CopyHype, TypeOK
  <2>2. job[w].donor \in File
    BY <1>10 DEF CopyHype, At, TypeOK, CopyPC, TxPC
  <2>3. j \in Jobs /\ j.pc = "commit" /\ j.file = f /\ j.donor = job[w].donor
    BY <1>2 DEF Jobs, PC, CopyPC, TxPC
  <2> HIDE DEF j
  <2>4. JobType'
    BY <1>1, <2>1, <2>2, <2>3, StepType
  <2> QED
    BY <2>1, <2>4 DEF TypeOK, JobType, index
<1>11. CASE CommitCopy(w)
  <2> DEFINE j == [job[w] EXCEPT !.pc = "recheck", !.pmap = {}, !.rows = {}, !.qs = {},
                                 !.old = {}, !.oldQs = {}]
  <2>1. job[w].donor \in File
    BY <1>11 DEF CommitCopy, At, TypeOK, CopyPC, TxPC
  <2>2. JobType'
    <3>1. CASE job[w].rows = {}
      <4>1. Drop(w, "clean")
        BY <1>11, <3>1 DEF CommitCopy
      <4> QED
        BY <1>1, <4>1, DropType DEF PC, CopyPC, CleanPC, TxPC
    <3>2. CASE job[w].rows # {}
      <4>1. job' = [job EXCEPT ![w] = j]
        BY <1>11, <3>2 DEF CommitCopy, TypeOK
      <4>2. j \in Jobs /\ j.pc = "recheck" /\ j.file = f /\ j.donor = job[w].donor
        BY <1>2 DEF Jobs, PC, CopyPC
      <4> HIDE DEF j
      <4> QED
        BY <1>1, <2>1, <4>1, <4>2, StepType
    <3> QED
      BY <3>1, <3>2
  <2>3. ASSUME NEW rows \in SUBSET IndexRows PROVE Copied(rows, job[w].run) \subseteq IndexRows
    BY <1>2 DEF Copied, IndexRows, Jobs
  <2>4. /\ Copied(job[w].rows, job[w].run) \subseteq IndexRows
        /\ Copied(job[w].pmap, job[w].run) \subseteq IndexRows
        /\ Copied(job[w].qs, job[w].run) \subseteq IndexRows
    BY <1>2, <2>3 DEF Jobs
  <2>5. /\ chunks' \in [File -> SUBSET IndexRows]
        /\ parents' \in [File -> SUBSET IndexRows]
        /\ hype' \in [File -> SUBSET IndexRows]
    BY <1>2, <1>11, <2>4 DEF CommitCopy, TypeOK
  <2> QED
    BY <1>11, <2>2, <2>5 DEF CommitCopy, TypeOK, JobType
<1>12. CASE CopyFails(w)
  <2>1. Drop(w, "clean") /\ UNCHANGED <<row, cfg, index, del, queue, runs>>
    BY <1>12 DEF CopyFails
  <2>2. JobType'
    BY <1>1, <2>1, DropType DEF PC, CopyPC, CleanPC, TxPC
  <2> QED
    BY <2>1, <2>2 DEF TypeOK, JobType, index
<1>13. CASE Recheck(w)
  <2>1. Goto(w, "markCopied") \/ Drop(w, "clean")
    BY <1>13 DEF Recheck
  <2>2. job[w].donor \in File
    BY <1>13 DEF Recheck, At, TypeOK, CopyPC
  <2>3. JobType'
    BY <1>1, <2>1, <2>2, GotoType, DropType DEF PC, CopyPC, CleanPC, TxPC
  <2> QED
    BY <1>13, <2>3 DEF Recheck, TypeOK, JobType, index
<1>14. CASE MarkCopied(w)
  <2> DEFINE r == [Touched(row[f]) EXCEPT !.status = "completed", !.fp = job[w].fp]
  <2>1. Update(f, r) /\ End(w) /\ UNCHANGED <<cfg, index, del, queue, runs>>
    BY <1>14 DEF MarkCopied
  <2>2. Touched(row[f]) \in FileRows /\ job[w].fp \in Fp \cup {NoFp}
    BY <1>2, RowType DEF Jobs
  <2>3. r \in FileRows
    BY <2>2 DEF FileRows, Status
  <2> HIDE DEF r
  <2>4. row' \in [File -> FileRows]
    BY <1>2, <2>1, <2>3, UpdateType
  <2>5. JobType'
    BY <2>1, EndType
  <2> QED
    BY <2>1, <2>4, <2>5 DEF TypeOK, JobType, index
<1>15. CASE CleanChunks(w) \/ CleanParents(w) \/ CleanHype(w)
  <2>1. \E p \in {"cleanParents", "cleanHype", "guard"} : Goto(w, p)
    BY <1>15 DEF CleanChunks, CleanParents, CleanHype
  <2>2. JobType'
    BY <1>1, <2>1, GotoType DEF PC, CopyPC, CleanPC, TxPC
  <2>3. /\ chunks' \in [File -> SUBSET IndexRows]
        /\ parents' \in [File -> SUBSET IndexRows]
        /\ hype' \in [File -> SUBSET IndexRows]
    BY <1>2, <1>15 DEF CleanChunks, CleanParents, CleanHype, Emptied, TypeOK
  <2> QED
    BY <1>15, <2>2, <2>3 DEF CleanChunks, CleanParents, CleanHype, TypeOK, JobType
<1> QED
  BY <1>3, <1>4, <1>5, <1>6, <1>7, <1>8, <1>9, <1>10, <1>11, <1>12, <1>13, <1>14, <1>15
     DEF CopyStep

(* A step of a re-embed or of an ingest.                                   *)
LEMMA IngestStepType ==
  ASSUME TypeOK, NEW w \in Worker, IngestStep(w)
  PROVE  TypeOK'
<1> DEFINE f == job[w].file
<1>1. ~At(w, "idle")
  BY DEF IngestStep, At, Preflight, ReembedMark, ReembedDeleteChunks, ReembedDeleteParents,
         Guard, MarkProcessing, DeleteOldChunks, DeleteOldParents, Parse, InsertParents,
         EmbedChildren, EmbedBatch, FinishFlat, FinishParentChild, HypeStage, HypeChunk,
         Raptor, Stamp, FinalProgress, RowGoneNoticed, BuildPC, TailPC
<1>2. /\ f \in File /\ job[w] \in Jobs /\ row[f] \in FileRows /\ cfg[f] \in Fp
      /\ chunks[f] \subseteq IndexRows /\ parents[f] \subseteq IndexRows
      /\ hype[f] \subseteq IndexRows
  BY <1>1, FileOfJob DEF TypeOK
<1>3. Leaf \subseteq Nat /\ Tree \in Nat /\ Parent \in Nat
  BY DEF Leaf, Tree, Parent
<1>4. ASSUME NEW p \in PC \ CopyPC, p # "idle", Goto(w, p)
      PROVE  JobType'
  BY <1>1, <1>4, GotoType
<1>5. ASSUME NEW p \in Nat PROVE Built(w, p) \in IndexRows
  BY <1>2, <1>5 DEF Built, IndexRow, IndexRows, Jobs
<1>6. ASSUME NEW bad \in SUBSET Nat,
             NEW here \in {"children", "leaves"}, NEW done \in {"finishPC", "finish"},
             NextBatch(w, here, done, bad)
      PROVE  JobType'
  <2> DEFINE q == IF job[w].next = NLeaf THEN done ELSE here
             j == [job[w] EXCEPT !.next = job[w].next + 1, !.failed = job[w].failed \cup bad,
                                 !.pc = q]
  <2>1. job' = [job EXCEPT ![w] = j]
    BY <1>6 DEF NextBatch, TypeOK
  <2>2. q \in {"children", "leaves", "finishPC", "finish"}
    OBVIOUS
  <2> HIDE DEF q
  <2> DEFINE n == job[w].next + 1
             bs == job[w].failed \cup bad
  <2>3. job[w].next \in Nat /\ job[w].failed \in SUBSET Nat
    BY <1>2 DEF Jobs
  <2>4. n \in Nat
    BY <2>3
  <2>5. bs \in SUBSET Nat
    BY <2>3, Zenon
  <2> HIDE DEF n, bs
  <2>6. [job[w] EXCEPT !.next = n, !.failed = bs, !.pc = q] \in Jobs
    BY <1>2, <2>2, <2>4, <2>5 DEF Jobs, PC, BuildPC
  <2>7. j \in Jobs /\ j.pc = q /\ j.file = f
    BY <1>2, <2>6 DEF Jobs, n, bs
  <2> HIDE DEF j
  <2> QED
    BY <1>1, <2>1, <2>2, <2>7, StepType DEF CopyPC, TxPC
<1>7. CASE Preflight(w)
  <2>1. JobType'
    BY <1>4, <1>7 DEF Preflight, PC, ReembedPC, CopyPC, TxPC
  <2> QED
    BY <1>7, <2>1 DEF Preflight, TypeOK, JobType, index
<1>8. CASE ReembedMark(w)
  <2>1. row' \in [File -> FileRows]
    BY <1>2, <1>8, RowType, UpdateType DEF ReembedMark
  <2>2. JobType'
    BY <1>4, <1>8 DEF ReembedMark, PC, ReembedPC, CopyPC, TxPC
  <2> QED
    BY <1>8, <2>1, <2>2 DEF ReembedMark, TypeOK, JobType, index
<1>9. CASE ReembedDeleteChunks(w) \/ ReembedDeleteParents(w)
           \/ DeleteOldChunks(w) \/ DeleteOldParents(w)
  <2>1. \E p \in {"reParents", "guard", "delParents", "parse"} : Goto(w, p)
    BY <1>9 DEF ReembedDeleteChunks, ReembedDeleteParents, DeleteOldChunks, DeleteOldParents
  <2>2. JobType'
    BY <1>4, <2>1 DEF PC, ReembedPC, BuildPC, CopyPC, TxPC
  <2>3. /\ chunks' \in [File -> SUBSET IndexRows]
        /\ parents' \in [File -> SUBSET IndexRows]
    BY <1>2, <1>9 DEF ReembedDeleteChunks, ReembedDeleteParents, DeleteOldChunks,
                     DeleteOldParents, Emptied, TypeOK
  <2> QED
    BY <1>9, <2>2, <2>3 DEF ReembedDeleteChunks, ReembedDeleteParents, DeleteOldChunks,
                            DeleteOldParents, TypeOK, JobType
<1>10. CASE Guard(w)
  <2>1. JobType'
    <3>1. CASE End(w)
      BY <3>1, EndType
    <3>2. ASSUME NEW p \in {cfg[f], NoFp},
                 job' = [job EXCEPT ![w] = [@ EXCEPT !.pc = "mark", !.fp = p]]
          PROVE  JobType'
      <4> DEFINE j == [job[w] EXCEPT !.pc = "mark", !.fp = p]
      <4>1. job' = [job EXCEPT ![w] = j]
        BY <3>2 DEF TypeOK
      <4>2. j \in Jobs /\ j.pc = "mark" /\ j.file = f
        BY <1>2 DEF Jobs, PC
      <4> HIDE DEF j
      <4> QED
        BY <1>1, <4>1, <4>2, StepType DEF CopyPC, TxPC
    <3> QED
      BY <1>10, <3>1, <3>2 DEF Guard
  <2> QED
    BY <1>10, <2>1 DEF Guard, TypeOK, JobType, index
<1>11. CASE MarkProcessing(w)
  <2> DEFINE j == [job[w] EXCEPT !.pc = "delChunks", !.tail = cfg[f] \notin ParentChild]
  <2>1. job' = [job EXCEPT ![w] = j]
    BY <1>11 DEF MarkProcessing, TypeOK
  <2>2. (cfg[f] \notin ParentChild) \in BOOLEAN
    OBVIOUS
  <2>3. j \in Jobs /\ j.pc = "delChunks" /\ j.file = f
    BY ZenonT(60), <1>2, <2>2 DEF Jobs, PC, BuildPC
  <2> HIDE DEF j
  <2>4. JobType'
    BY <1>1, <2>1, <2>3, StepType DEF CopyPC, TxPC
  <2>5. row' \in [File -> FileRows]
    BY <1>2, <1>11, RowType, UpdateType DEF MarkProcessing
  <2> QED
    BY <1>11, <2>4, <2>5 DEF MarkProcessing, TypeOK, JobType, index
<1>12. CASE Parse(w)
  <2>1. PICK bad \in BOOLEAN :
          job' = [job EXCEPT ![w] = [@ EXCEPT !.degraded = bad,
                    !.pc = IF cfg[f] \in ParentChild THEN "parents" ELSE "leaves"]]
    BY <1>12 DEF Parse
  <2> DEFINE p == IF cfg[f] \in ParentChild THEN "parents" ELSE "leaves"
             j == [job[w] EXCEPT !.degraded = bad, !.pc = p]
  <2>2. job' = [job EXCEPT ![w] = j]
    BY <2>1 DEF TypeOK
  <2>3. p \in {"parents", "leaves"}
    OBVIOUS
  <2> HIDE DEF p
  <2>4. j \in Jobs /\ j.pc = p /\ j.file = f
    BY ZenonT(60), <1>2, <2>3 DEF Jobs, PC, BuildPC
  <2> HIDE DEF j
  <2>5. JobType'
    BY <1>1, <2>2, <2>3, <2>4, StepType DEF CopyPC, TxPC
  <2> QED
    BY <1>12, <2>5 DEF Parse, TypeOK, JobType, index
<1>13. CASE InsertParents(w)
  <2>1. JobType'
    BY <1>4, <1>13 DEF InsertParents, PC, BuildPC, CopyPC, TxPC
  <2>2. parents' \in [File -> SUBSET IndexRows]
    BY <1>2, <1>3, <1>5, <1>13 DEF InsertParents, TypeOK
  <2> QED
    BY <1>13, <2>1, <2>2 DEF InsertParents, TypeOK, JobType
<1>14. CASE EmbedChildren(w) \/ EmbedBatch(w)
  <2>1. job[w].next \in Nat
    BY <1>2 DEF Jobs
  <2>2. \E here \in {"children", "leaves"}, done \in {"finishPC", "finish"}, bad \in SUBSET Nat :
          NextBatch(w, here, done, bad)
    BY <1>14, <2>1 DEF EmbedChildren, EmbedBatch
  <2>3. JobType'
    BY <1>6, <2>2 DEF PC, CopyPC, TxPC
  <2>4. chunks' \in [File -> SUBSET IndexRows]
    BY <1>2, <1>5, <1>14, <2>1 DEF EmbedChildren, EmbedBatch, Store, TypeOK
  <2> QED
    BY <1>14, <2>3, <2>4 DEF EmbedChildren, EmbedBatch, TypeOK, JobType
<1>15. CASE FinishFlat(w) \/ FinishParentChild(w)
  <2>1. \E p \in {"hype", "stamp", "stampPC"} : Goto(w, p)
    BY <1>15 DEF FinishFlat, FinishParentChild
  <2>2. JobType'
    BY <1>4, <2>1 DEF PC, TailPC, CopyPC, TxPC
  <2>3. /\ [row[f] EXCEPT !.status = "completed"] \in FileRows
        /\ [row[f] EXCEPT !.status = "partial"] \in FileRows
    BY <1>2, RowType DEF Status
  <2>4. row' \in [File -> FileRows]
    <3>1. CASE UNCHANGED row
      BY <3>1 DEF TypeOK
    <3>2. ASSUME NEW s \in {"completed", "partial"}, Update(f, [row[f] EXCEPT !.status = s])
          PROVE  row' \in [File -> FileRows]
      BY <1>2, <2>3, <3>2, UpdateType
    <3>3. \/ UNCHANGED row
          \/ \E s \in {"completed", "partial"} : Update(f, [row[f] EXCEPT !.status = s])
      BY <1>15 DEF FinishFlat, FinishParentChild
    <3> QED
      BY <3>1, <3>2, <3>3
  <2> QED
    BY <1>15, <2>2, <2>4 DEF FinishFlat, FinishParentChild, TypeOK, JobType, index
<1>16. CASE HypeStage(w)
  <2> DEFINE j1 == [job[w] EXCEPT !.pc = "hypeChunk", !.rows = chunks[f]]
             j2 == [job[w] EXCEPT !.pc = "hypeChunk", !.degraded = TRUE]
  <2>1. job' = [job EXCEPT ![w] = j1] \/ job' = [job EXCEPT ![w] = j2]
    BY <1>16 DEF HypeStage, TypeOK
  <2>2. /\ j1 \in Jobs /\ j1.pc = "hypeChunk" /\ j1.file = f
        /\ j2 \in Jobs /\ j2.pc = "hypeChunk" /\ j2.file = f
    BY <1>2 DEF Jobs, PC, TailPC
  <2> HIDE DEF j1, j2
  <2>3. JobType'
    BY <1>1, <2>1, <2>2, StepType DEF CopyPC, TxPC
  <2> QED
    BY <1>16, <2>3 DEF HypeStage, TypeOK, JobType, index
<1>17. CASE HypeChunk(w)
  <2>1. PICK c \in job[w].rows :
          \/ /\ hype' = [hype EXCEPT ![f] = @ \cup {c}]
             /\ job' = [job EXCEPT ![w] = [@ EXCEPT !.rows = job[w].rows \ {c}]]
          \/ /\ UNCHANGED hype
             /\ job' = [job EXCEPT ![w] = [@ EXCEPT !.rows = job[w].rows \ {c},
                                                   !.degraded = TRUE]]
    BY <1>17 DEF HypeChunk
  <2> DEFINE j1 == [job[w] EXCEPT !.rows = job[w].rows \ {c}]
             j2 == [job[w] EXCEPT !.rows = job[w].rows \ {c}, !.degraded = TRUE]
  <2>2. job' = [job EXCEPT ![w] = j1] \/ job' = [job EXCEPT ![w] = j2]
    BY <2>1 DEF TypeOK
  <2>3. /\ j1 \in Jobs /\ j1.pc = "hypeChunk" /\ j1.file = f
        /\ j2 \in Jobs /\ j2.pc = "hypeChunk" /\ j2.file = f
    BY <1>2, <1>17 DEF HypeChunk, At, Jobs
  <2> HIDE DEF j1, j2
  <2>4. JobType'
    BY <1>1, <2>2, <2>3, StepType DEF CopyPC, TxPC
  <2>5. c \in IndexRows
    BY <1>2 DEF Jobs
  <2>6. hype' \in [File -> SUBSET IndexRows]
    BY <1>2, <2>1, <2>5 DEF TypeOK
  <2> QED
    BY <1>17, <2>4, <2>6 DEF HypeChunk, TypeOK, JobType
<1>18. CASE Raptor(w)
  <2> DEFINE j == [job[w] EXCEPT !.pc = "stamp", !.degraded = TRUE]
  <2>1. Goto(w, "stamp") \/ job' = [job EXCEPT ![w] = j]
    BY <1>18 DEF Raptor, TypeOK
  <2>2. j \in Jobs /\ j.pc = "stamp" /\ j.file = f
    BY <1>2 DEF Jobs, PC, TailPC
  <2> HIDE DEF j
  <2>3. JobType'
    BY <1>1, <1>4, <2>1, <2>2, StepType DEF PC, TailPC, CopyPC, TxPC
  <2>4. chunks' \in [File -> SUBSET IndexRows]
    BY <1>2, <1>3, <1>5, <1>18 DEF Raptor, Store, TypeOK
  <2> QED
    BY <1>18, <2>3, <2>4 DEF Raptor, TypeOK, JobType
<1>19. CASE Stamp(w)
  <2>1. job[w].fp \in Fp \cup {NoFp}
    BY <1>2 DEF Jobs
  <2>2. [row[f] EXCEPT !.fp = job[w].fp] \in FileRows
    BY <1>2, <2>1, RowType
  <2>3. Update(f, [row[f] EXCEPT !.fp = job[w].fp]) \/ UNCHANGED row
    BY <1>19 DEF Stamp
  <2>4. row' \in [File -> FileRows]
    BY <1>2, <2>2, <2>3, UpdateType DEF TypeOK
  <2>5. Goto(w, "progress") \/ End(w)
    BY <1>19 DEF Stamp
  <2>6. JobType'
    BY <1>4, <2>5, EndType DEF PC, CopyPC, TxPC
  <2> QED
    BY <1>19, <2>4, <2>6 DEF Stamp, TypeOK, JobType, index
<1>20. CASE FinalProgress(w)
  <2>1. row' \in [File -> FileRows]
    BY <1>2, <1>20, RowType, UpdateType DEF FinalProgress
  <2>2. JobType'
    BY <1>20, EndType DEF FinalProgress
  <2> QED
    BY <1>20, <2>1, <2>2 DEF FinalProgress, TypeOK, JobType, index
<1>21. CASE RowGoneNoticed(w)
  <2>1. JobType'
    BY <1>1, <1>21, DropType DEF RowGoneNoticed, PC, CleanPC, CopyPC, TxPC
  <2> QED
    BY <1>21, <2>1 DEF RowGoneNoticed, TypeOK, JobType, index
<1> QED
  BY <1>7, <1>8, <1>9, <1>10, <1>11, <1>12, <1>13, <1>14, <1>15, <1>16, <1>17, <1>18, <1>19,
     <1>20, <1>21 DEF IngestStep

LEMMA TypeCorrectStep ==
  ASSUME TypeOK, [Next]_vars
  PROVE  TypeOK'
<1>1. ASSUME NEW f \in File, FileStep(f) PROVE TypeOK'
  BY <1>1, FileStepType
<1>2. ASSUME NEW w \in Worker, WorkerStep(w) PROVE TypeOK'
  BY <1>2, DeliveryType, CopyStepType, IngestStepType DEF WorkerStep
<1>3. CASE UNCHANGED vars
  BY <1>3 DEF vars, TypeOK
<1>. QED BY <1>1, <1>2, <1>3 DEF Next

(* Every reachable state is well typed: in particular a run keeps its file  *)
(* and, from the lookup to the end of the copy, its donor, and every index  *)
(* row is one some run stored, whatever the workers, the requests, the       *)
(* maintenance and the cascade do and whichever disturbances are allowed.   *)
THEOREM TypeCorrect == Spec => []TypeOK
<1>1. TypeOK /\ [Next]_vars => TypeOK'
  BY TypeCorrectStep
<1>. QED BY InitType, <1>1, PTL DEF Spec

-----------------------------------------------------------------------------
(* The donor discipline.                                                    *)

(***************************************************************************)
(* A step of a worker touches its own job and the row and the index of its *)
(* own file, and nothing else.                                             *)
(***************************************************************************)
Local(w) ==
  /\ UNCHANGED <<cfg, del>>
  /\ \A v \in Worker \ {w} : job'[v] = job[v]
  /\ \A g \in File \ {job[w].file} :
       /\ row'[g] = row[g]
       /\ chunks'[g] = chunks[g] /\ parents'[g] = parents[g] /\ hype'[g] = hype[g]

LEMMA DeliveryLocal ==
  ASSUME TypeOK, NEW w \in Worker,
         \/ \E f \in File, k \in Kind : StartTask(w, f, k)
         \/ WorkerCrash(w) \/ AttemptFails(w) \/ LastAttemptFails(w)
  PROVE  Local(w)
<1> USE DEF TypeOK, Local, index
<1>1. ASSUME NEW f \in File, NEW k \in Kind, StartTask(w, f, k) PROVE Local(w)
  BY <1>1 DEF StartTask
<1>2. CASE WorkerCrash(w)
  BY <1>2 DEF WorkerCrash, End
<1>3. CASE AttemptFails(w)
  BY <1>3 DEF AttemptFails, End
<1>4. CASE LastAttemptFails(w)
  BY <1>4 DEF LastAttemptFails, End, Update
<1> QED
  BY <1>1, <1>2, <1>3, <1>4

LEMMA CopyLocal ==
  ASSUME TypeOK, NEW w \in Worker, CopyStep(w)
  PROVE  Local(w)
<1> USE DEF TypeOK, Local, index
<1>1. CASE SkipCopy(w) \/ CopyFails(w)
  BY <1>1 DEF SkipCopy, CopyFails, Drop
<1>2. ASSUME NEW d \in File, FindCopyDonor(w, d) PROVE Local(w)
  BY <1>2 DEF FindCopyDonor
<1>3. CASE CopyMark(w)
  BY <1>3 DEF CopyMark, Goto, Update
<1>4. CASE ClearTarget(w)
  BY <1>4 DEF ClearTarget
<1>5. CASE CopyParents(w)
  BY <1>5 DEF CopyParents
<1>6. CASE MapChunks(w)
  BY <1>6 DEF MapChunks
<1>7. CASE CopyChunks(w)
  BY <1>7 DEF CopyChunks, Goto, Drop
<1>8. CASE CopyHype(w)
  BY <1>8 DEF CopyHype
<1>9. CASE CommitCopy(w)
  BY <1>9 DEF CommitCopy, Drop
<1>10. CASE Recheck(w)
  BY <1>10 DEF Recheck, Goto, Drop
<1>11. CASE MarkCopied(w)
  BY <1>11 DEF MarkCopied, End, Update
<1>12. CASE CleanChunks(w) \/ CleanParents(w) \/ CleanHype(w)
  BY <1>12 DEF CleanChunks, CleanParents, CleanHype, Goto, Emptied
<1> QED
  BY <1>1, <1>2, <1>3, <1>4, <1>5, <1>6, <1>7, <1>8, <1>9, <1>10, <1>11, <1>12 DEF CopyStep

LEMMA IngestLocal ==
  ASSUME TypeOK, NEW w \in Worker, IngestStep(w)
  PROVE  Local(w)
<1> USE DEF TypeOK, Local, index
<1>1. CASE Preflight(w)
  BY <1>1 DEF Preflight, Goto
<1>2. CASE ReembedMark(w)
  BY <1>2 DEF ReembedMark, Goto, Update
<1>3. CASE ReembedDeleteChunks(w) \/ ReembedDeleteParents(w)
  BY <1>3 DEF ReembedDeleteChunks, ReembedDeleteParents, Goto, Emptied
<1>4. CASE Guard(w)
  BY <1>4 DEF Guard, End
<1>5. CASE MarkProcessing(w)
  BY <1>5 DEF MarkProcessing, Update
<1>6. CASE DeleteOldChunks(w) \/ DeleteOldParents(w)
  BY <1>6 DEF DeleteOldChunks, DeleteOldParents, Goto, Emptied
<1>7. CASE Parse(w)
  BY <1>7 DEF Parse
<1>8. CASE InsertParents(w)
  BY <1>8 DEF InsertParents, Goto
<1>9. CASE EmbedChildren(w) \/ EmbedBatch(w)
  BY <1>9 DEF EmbedChildren, EmbedBatch, Store, NextBatch
<1>10. CASE FinishFlat(w) \/ FinishParentChild(w)
  BY <1>10 DEF FinishFlat, FinishParentChild, Goto, Update
<1>11. CASE HypeStage(w)
  BY <1>11 DEF HypeStage
<1>12. CASE HypeChunk(w)
  BY <1>12 DEF HypeChunk
<1>13. CASE Raptor(w)
  BY <1>13 DEF Raptor, Store, Goto
<1>14. CASE Stamp(w)
  BY <1>14 DEF Stamp, Goto, End, Update
<1>15. CASE FinalProgress(w)
  BY <1>15 DEF FinalProgress, End, Update
<1>16. CASE RowGoneNoticed(w)
  BY <1>16 DEF RowGoneNoticed, Drop
<1> QED
  BY <1>1, <1>2, <1>3, <1>4, <1>5, <1>6, <1>7, <1>8, <1>9, <1>10, <1>11, <1>12, <1>13, <1>14,
     <1>15, <1>16 DEF IngestStep

LEMMA WorkerLocal ==
  ASSUME TypeOK, NEW w \in Worker, WorkerStep(w)
  PROVE  Local(w)
BY DeliveryLocal, CopyLocal, IngestLocal DEF WorkerStep

(***************************************************************************)
(* What a step of a run does to the row and the index of its own file.     *)
(***************************************************************************)
OwnRetired(w) == job[w].pc \in TakenPC => row[job[w].file].fp = NoFp

(* f is the file of w.                                                     *)
Disciplined(w, f) ==
  /\ job'[w].file \in {f, NoFile}
  /\ job'[w].pc \in TakenPC => row'[f].fp = NoFp
  /\ ~Exists(f) => row'[f] = row[f]
  /\ Exists(f) => Exists(f)'
  /\ row'[f].gen >= row[f].gen
  /\ CopyDonor(f) => row'[f] = row[f] \/ row'[f].gen > row[f].gen
  /\ CopyDonor(f) =>
       chunks'[f] = chunks[f] /\ parents'[f] = parents[f] /\ hype'[f] = hype[f]

(* A step that leaves the row alone: the run was taking the index apart     *)
(* already, or it neither begins to nor touches the index.                  *)
LEMMA RowKept ==
  ASSUME TypeOK, GoneIsNoDonor, NEW w \in Worker, NEW f \in File, f = job[w].file,
         OwnRetired(w),
         UNCHANGED row, job'[w].file \in {f, NoFile},
         \/ job[w].pc \in TakenPC
         \/ ~Exists(f)
         \/ UNCHANGED index /\ job'[w].pc \notin TakenPC
  PROVE  Disciplined(w, f)
<1>1. row[f] \in FileRows
  BY DEF TypeOK
<1>2. row[f].gen >= row[f].gen
  BY <1>1 DEF FileRows
<1>3. Exists(f) => Exists(f)'
  BY DEF Exists
<1>4. CASE job[w].pc \in TakenPC \/ ~Exists(f)
  <2>1. row[f].fp = NoFp
    BY <1>1, <1>4 DEF OwnRetired, GoneIsNoDonor
  <2> QED
    BY <1>2, <1>3, <2>1 DEF Disciplined, CopyDonor
<1>5. CASE UNCHANGED index /\ job'[w].pc \notin TakenPC
  BY <1>2, <1>3, <1>5 DEF Disciplined, index
<1> QED
  BY <1>4, <1>5

(* A step that writes r to the row and leaves the index alone.             *)
LEMMA RowWritten ==
  ASSUME TypeOK, GoneIsNoDonor, NEW w \in Worker, NEW f \in File, f = job[w].file,
         OwnRetired(w),
         NEW r \in FileRows, Update(f, r), UNCHANGED index,
         r.status \notin {"absent", "deleted"}, r.gen >= row[f].gen,
         CopyDonor(f) => r.gen > row[f].gen,
         job'[w].file \in {f, NoFile},
         job'[w].pc \in TakenPC => r.fp = NoFp
  PROVE  Disciplined(w, f)
<1>1. row[f] \in FileRows /\ row \in [File -> FileRows]
  BY DEF TypeOK
<1>2. row[f].gen >= row[f].gen
  BY <1>1 DEF FileRows
<1>3. CASE Exists(f)
  <2>1. row'[f] = r
    BY <1>1, <1>3 DEF Update
  <2>2. Exists(f)'
    BY <2>1 DEF Exists
  <2> QED
    BY <1>3, <2>1, <2>2 DEF Disciplined, index
<1>4. CASE ~Exists(f)
  <2>1. row' = row /\ row[f].fp = NoFp
    BY <1>1, <1>4 DEF Update, GoneIsNoDonor
  <2> QED
    BY <1>2, <1>4, <2>1 DEF Disciplined, index
<1> QED
  BY <1>3, <1>4

(* The writes: what they do to the token and to the fingerprint.           *)
LEMMA BatchKeepsFile ==
  ASSUME job \in [Worker -> Jobs], NEW w \in Worker, NEW here, NEW done, NEW bad,
         NextBatch(w, here, done, bad)
  PROVE  job'[w].file = job[w].file
<1> DEFINE next == [job[w] EXCEPT !.next = job[w].next + 1, !.failed = job[w].failed \cup bad,
                      !.pc = IF job[w].next = NLeaf THEN done ELSE here]
<1>1. job'[w] = next
  BY DEF NextBatch
<1>2. next.file = job[w].file
  BY DEF Jobs
<1> QED
  BY <1>1, <1>2

LEMMA RowWrites ==
  ASSUME NEW r \in FileRows
  PROVE  /\ Touched(r).gen > r.gen /\ Touched(r).status = r.status
         /\ Processing(r).gen > r.gen /\ Processing(r).fp = NoFp
         /\ Processing(r).status = "processing"
         /\ \A s \in Status : LET q == [r EXCEPT !.status = s] IN
              q.gen = r.gen /\ q.status = s /\ q.fp = r.fp /\ q.gen >= r.gen
         /\ \A p \in Fp \cup {NoFp} : LET q == [r EXCEPT !.fp = p] IN
              q.gen = r.gen /\ q.status = r.status /\ q.gen >= r.gen
<1>1. r.gen \in Nat /\ r = [status |-> r.status, fp |-> r.fp, gen |-> r.gen]
  BY DEF FileRows
<1>2. /\ Touched(r).gen = r.gen + 1 /\ Touched(r).status = r.status
      /\ Processing(r).gen = r.gen + 1 /\ Processing(r).fp = NoFp
      /\ Processing(r).status = "processing"
  BY <1>1 DEF Touched, Processing, FileRows
<1>3. r.gen + 1 > r.gen /\ r.gen >= r.gen
  BY <1>1
<1> QED
  BY <1>1, <1>2, <1>3 DEF FileRows

LEMMA ProcessingWrite ==
  ASSUME NEW r \in FileRows
  PROVE  /\ Processing(r) \in FileRows /\ Processing(r).gen > r.gen
         /\ Processing(r).gen >= r.gen
         /\ Processing(r).fp = NoFp /\ Processing(r).status = "processing"
<1>1. Processing(r) \in FileRows
  BY RowType
<1>2. Processing(r).gen > r.gen /\ Processing(r).fp = NoFp /\ Processing(r).status = "processing"
  BY RowWrites
<1>3. Processing(r).gen \in Nat /\ r.gen \in Nat
  BY <1>1 DEF FileRows
<1> QED
  BY <1>1, <1>2, <1>3

(* What the changes to a job do to its place and its file.                 *)
LEMMA JobMoves ==
  ASSUME TypeOK, NEW w \in Worker
  PROVE  /\ \A p \in PC : Goto(w, p) => job'[w].pc = p /\ job'[w].file = job[w].file
         /\ \A p \in PC : Drop(w, p) => job'[w].pc = p /\ job'[w].file = job[w].file
         /\ End(w) => job'[w].pc = "idle" /\ job'[w].file = NoFile
<1>1. job[w] \in Jobs /\ job \in [Worker -> Jobs]
  BY DEF TypeOK
<1>2. ASSUME NEW p \in PC, Goto(w, p) PROVE job'[w].pc = p /\ job'[w].file = job[w].file
  BY <1>1, <1>2 DEF Goto, Jobs
<1>3. ASSUME NEW p \in PC, Drop(w, p) PROVE job'[w].pc = p /\ job'[w].file = job[w].file
  BY <1>1, <1>3 DEF Drop, NoJob, Jobs
<1>4. ASSUME End(w) PROVE job'[w].pc = "idle" /\ job'[w].file = NoFile
  BY <1>1, <1>4 DEF End, NoJob
<1> QED
  BY <1>2, <1>3, <1>4

LEMMA TakenSets ==
  /\ {"idle", "guard", "mark", "progress", "lookup", "copyMark", "preflight", "reMark"}
       \cap TakenPC = {}
  /\ {"clear", "recheck", "markCopied", "reChunks", "reParents"} \subseteq TakenPC
  /\ TxPC \subseteq TakenPC /\ CleanPC \subseteq TakenPC
  /\ BuildPC \subseteq TakenPC /\ TailPC \subseteq TakenPC
  /\ TakenPC \subseteq PC
BY DEF TakenPC, TxPC, CleanPC, BuildPC, TailPC, PC, CopyPC, ReembedPC

LEMMA EndDisciplined ==
  ASSUME TypeOK, GoneIsNoDonor, NEW w \in Worker, NEW f \in File, f = job[w].file,
         OwnRetired(w), WorkerCrash(w) \/ AttemptFails(w) \/ LastAttemptFails(w)
  PROVE  Disciplined(w, f)
<1>1. /\ End(w) /\ UNCHANGED index
      /\ job'[w].pc = "idle" /\ job'[w].file = NoFile
      /\ job'[w].pc \notin TakenPC
  BY JobMoves, TakenSets DEF WorkerCrash, AttemptFails, LastAttemptFails, index
<1>2. CASE UNCHANGED row
  BY <1>1, <1>2, RowKept
<1>3. CASE ~UNCHANGED row
  <2> DEFINE r == [row[f] EXCEPT !.status = "error"]
  <2>1. /\ Update(f, r)
        /\ job[w].pc \in MarkFailedPC \/ row[f].status \notin {"completed", "partial"}
    BY <1>3 DEF WorkerCrash, AttemptFails, LastAttemptFails
  <2>2. row[f] \in FileRows
    BY DEF TypeOK
  <2>3. r \in FileRows /\ r.status = "error" /\ r.gen >= row[f].gen
    BY <2>2, RowType, RowWrites DEF Status
  <2> HIDE DEF r
  <2>4. ~CopyDonor(f)
    <3>1. CASE job[w].pc \in MarkFailedPC
      BY <3>1, TakenSets DEF OwnRetired, MarkFailedPC, BuildPC, CopyDonor
    <3>2. CASE row[f].status \notin {"completed", "partial"}
      BY <3>2 DEF CopyDonor, Advertises
    <3> QED
      BY <2>1, <3>1, <3>2
  <2> QED
    BY <1>1, <2>1, <2>3, <2>4, RowWritten
<1> QED
  BY <1>2, <1>3

LEMMA CopyDisciplined ==
  ASSUME TypeOK, GoneIsNoDonor, NEW w \in Worker, NEW f \in File, f = job[w].file,
         OwnRetired(w), CopyStep(w)
  PROVE  Disciplined(w, f)
<1>0. row[f] \in FileRows /\ job[w] \in Jobs
  BY DEF TypeOK
<1>1. CASE SkipCopy(w)
  <2>1. UNCHANGED row /\ UNCHANGED index
    BY <1>1 DEF SkipCopy
  <2>2. job'[w].pc = "guard" /\ job'[w].file = f
    BY <1>1, JobMoves DEF SkipCopy, PC
  <2> QED
    BY <2>1, <2>2, TakenSets, RowKept
<1>2. ASSUME NEW d \in File, FindCopyDonor(w, d) PROVE Disciplined(w, f)
  <2>1. UNCHANGED row /\ UNCHANGED index
    BY <1>2 DEF FindCopyDonor
  <2>2. job'[w].pc = "copyMark" /\ job'[w].file = f
    BY <1>0, <1>2 DEF FindCopyDonor, TypeOK, Jobs
  <2> QED
    BY <2>1, <2>2, TakenSets, RowKept
<1>3. CASE CopyMark(w)
  <2>1. Update(f, Processing(row[f])) /\ UNCHANGED index
    BY <1>3 DEF CopyMark
  <2>2. job'[w].pc = "clear" /\ job'[w].file = f
    BY <1>3, JobMoves DEF CopyMark, PC, CopyPC
  <2>3. /\ Processing(row[f]) \in FileRows /\ Processing(row[f]).gen > row[f].gen
        /\ Processing(row[f]).gen >= row[f].gen
        /\ Processing(row[f]).fp = NoFp /\ Processing(row[f]).status = "processing"
    BY <1>0, ProcessingWrite
  <2> QED
    BY <2>1, <2>2, <2>3, RowWritten
<1>4. CASE MarkCopied(w)
  <2> DEFINE r == [Touched(row[f]) EXCEPT !.status = "completed", !.fp = job[w].fp]
  <2>1. Update(f, r) /\ UNCHANGED index
    BY <1>4 DEF MarkCopied
  <2>2. job'[w].pc = "idle" /\ job'[w].file = NoFile
    BY <1>4, JobMoves DEF MarkCopied
  <2>3. Touched(row[f]) \in FileRows /\ Touched(row[f]).gen > row[f].gen
    BY <1>0, RowType, RowWrites
  <2>4. r \in FileRows /\ r.gen = Touched(row[f]).gen /\ r.status = "completed"
    BY <1>0, <2>3 DEF FileRows, Jobs, Status
  <2> HIDE DEF r
  <2>5. r.gen >= row[f].gen /\ r.gen > row[f].gen
    BY <1>0, <2>3, <2>4 DEF FileRows
  <2> QED
    BY <2>1, <2>2, <2>4, <2>5, TakenSets, RowWritten
<1>5. CASE \/ ClearTarget(w) \/ CopyParents(w) \/ MapChunks(w) \/ CopyChunks(w)
           \/ CopyHype(w) \/ CommitCopy(w) \/ CopyFails(w) \/ Recheck(w)
           \/ CleanChunks(w) \/ CleanParents(w) \/ CleanHype(w)
  <2>1. UNCHANGED row
    BY <1>5 DEF ClearTarget, CopyParents, MapChunks, CopyChunks, CopyHype, CommitCopy,
                CopyFails, Recheck, CleanChunks, CleanParents, CleanHype
  <2>2. job[w].pc \in TakenPC
    BY <1>5, TakenSets DEF ClearTarget, CopyParents, MapChunks, CopyChunks, CopyHype,
         CommitCopy, CopyFails, Recheck, CleanChunks, CleanParents, CleanHype, At, TxPC, CleanPC
  <2>3. job'[w].file = f
    <3>0. job \in [Worker -> Jobs]
      BY DEF TypeOK
    <3>1. CASE ClearTarget(w) \/ CopyParents(w) \/ MapChunks(w) \/ CopyHype(w)
      <4>1. CASE ClearTarget(w)
        BY <1>0, <3>0, <4>1 DEF ClearTarget, Jobs
      <4>2. CASE CopyParents(w)
        BY <1>0, <3>0, <4>2 DEF CopyParents, Jobs
      <4>3. CASE MapChunks(w)
        BY <1>0, <3>0, <4>3 DEF MapChunks, Jobs
      <4>4. CASE CopyHype(w)
        BY <1>0, <3>0, <4>4 DEF CopyHype, Jobs
      <4> QED
        BY <3>1, <4>1, <4>2, <4>3, <4>4
    <3>2. CASE CommitCopy(w)
      <4>1. CASE job[w].rows = {}
        BY <3>2, <4>1, JobMoves DEF CommitCopy, PC, CleanPC
      <4>2. CASE job[w].rows # {}
        BY <1>0, <3>0, <3>2, <4>2 DEF CommitCopy, Jobs
      <4> QED
        BY <4>1, <4>2
    <3>3. CASE \/ CopyChunks(w) \/ CopyFails(w) \/ Recheck(w)
               \/ CleanChunks(w) \/ CleanParents(w) \/ CleanHype(w)
      <4>1. \E p \in {"copyHype", "clean", "markCopied", "cleanParents", "cleanHype", "guard"} :
               Goto(w, p) \/ Drop(w, p)
        BY <3>3 DEF CopyChunks, CopyFails, Recheck, CleanChunks, CleanParents, CleanHype
      <4> QED
        BY <4>1, JobMoves DEF PC, CopyPC, TxPC, CleanPC
    <3> QED
      BY <1>5, <3>1, <3>2, <3>3
  <2> QED
    BY <2>1, <2>2, <2>3, RowKept
<1> QED
  BY <1>1, <1>2, <1>3, <1>4, <1>5 DEF CopyStep

LEMMA IngestDisciplined ==
  ASSUME TypeOK, GoneIsNoDonor, NEW w \in Worker, NEW f \in File, f = job[w].file,
         OwnRetired(w), IngestStep(w)
  PROVE  Disciplined(w, f)
<1>0. row[f] \in FileRows /\ job[w] \in Jobs /\ job \in [Worker -> Jobs]
  BY DEF TypeOK
<1>1. CASE Preflight(w)
  <2>1. UNCHANGED row /\ UNCHANGED index
    BY <1>1 DEF Preflight
  <2>2. job'[w].pc = "reMark" /\ job'[w].file = f
    BY <1>1, JobMoves DEF Preflight, PC, ReembedPC
  <2> QED
    BY <2>1, <2>2, TakenSets, RowKept
<1>2. CASE Guard(w)
  <2>1. UNCHANGED row /\ UNCHANGED index
    BY <1>2 DEF Guard
  <2>2. job'[w].pc \in {"idle", "mark"} /\ job'[w].file \in {f, NoFile}
    <3>1. CASE End(w)
      BY <3>1, JobMoves
    <3>2. ASSUME NEW p \in {cfg[f], NoFp},
                 job' = [job EXCEPT ![w] = [job[w] EXCEPT !.pc = "mark", !.fp = p]]
          PROVE  job'[w].pc = "mark" /\ job'[w].file = f
      BY <1>0, <3>2 DEF Jobs
    <3>3. \/ End(w)
          \/ \E p \in {cfg[f], NoFp} :
               job' = [job EXCEPT ![w] = [job[w] EXCEPT !.pc = "mark", !.fp = p]]
      BY <1>0, <1>2 DEF Guard
    <3> QED
      BY <3>1, <3>2, <3>3
  <2> QED
    BY <2>1, <2>2, TakenSets, RowKept
<1>3. CASE ReembedMark(w) \/ MarkProcessing(w)
  <2>1. Update(f, Processing(row[f])) /\ UNCHANGED index
    BY <1>3 DEF ReembedMark, MarkProcessing
  <2>2. job'[w].file = f
    <3>1. CASE ReembedMark(w)
      BY <3>1, JobMoves DEF ReembedMark, PC, ReembedPC
    <3>2. CASE MarkProcessing(w)
      BY <1>0, <3>2 DEF MarkProcessing, Jobs
    <3> QED
      BY <1>3, <3>1, <3>2
  <2> QED
    BY <1>0, <2>1, <2>2, ProcessingWrite, RowWritten
<1>4. CASE FinalProgress(w)
  <2>1. Update(f, Touched(row[f])) /\ UNCHANGED index
    BY <1>4 DEF FinalProgress
  <2>2. job'[w].pc = "idle" /\ job'[w].file = NoFile
    BY <1>4, JobMoves DEF FinalProgress
  <2>3. /\ Touched(row[f]) \in FileRows /\ Touched(row[f]).gen > row[f].gen
        /\ Touched(row[f]).status = row[f].status
    BY <1>0, RowType, RowWrites
  <2>4. Touched(row[f]).gen >= row[f].gen
    BY <1>0, <2>3 DEF FileRows
  <2>5. CASE Exists(f)
    BY <2>1, <2>2, <2>3, <2>4, <2>5, TakenSets, RowWritten DEF Exists
  <2>6. CASE ~Exists(f)
    <3>1. UNCHANGED row
      BY <2>1, <2>6 DEF Update
    <3> QED
      BY <2>2, <2>6, <3>1, RowKept
  <2> QED
    BY <2>5, <2>6
<1>5. CASE FinishFlat(w) \/ FinishParentChild(w) \/ Stamp(w)
  <2>1. job[w].pc \in TakenPC /\ UNCHANGED index
    BY <1>5, TakenSets DEF FinishFlat, FinishParentChild, Stamp, At, BuildPC, TailPC
  <2>2. row[f].fp = NoFp /\ ~CopyDonor(f)
    BY <2>1 DEF OwnRetired, CopyDonor
  <2>3. CASE FinishFlat(w) \/ FinishParentChild(w)
    <3>1. job'[w].file = f
      <4>1. \E q \in {"hype", "stamp", "stampPC"} : Goto(w, q)
        BY <2>3 DEF FinishFlat, FinishParentChild
      <4> QED
        BY <4>1, JobMoves DEF PC, TailPC
    <3>2. CASE UNCHANGED row
      BY <2>1, <3>1, <3>2, RowKept
    <3>3. ASSUME NEW s \in {"completed", "partial"}, Update(f, [row[f] EXCEPT !.status = s])
          PROVE  Disciplined(w, f)
      <4> DEFINE r == [row[f] EXCEPT !.status = s]
      <4>1. s \in Status
        BY DEF Status
      <4>2. r \in FileRows
        BY <1>0, <4>1, RowType
      <4>3. r.status = s /\ r.fp = row[f].fp /\ r.gen >= row[f].gen
        BY <1>0, <4>1, RowWrites
      <4>4. Update(f, r)
        BY <3>3
      <4> HIDE DEF r
      <4> QED
        BY <2>1, <2>2, <3>1, <4>2, <4>3, <4>4, RowWritten
    <3>4. \/ UNCHANGED row
          \/ \E s \in {"completed", "partial"} : Update(f, [row[f] EXCEPT !.status = s])
      BY <2>3 DEF FinishFlat, FinishParentChild
    <3> QED
      BY <3>2, <3>3, <3>4
  <2>4. CASE Stamp(w)
    <3>1. job'[w].file \in {f, NoFile} /\ job'[w].pc \notin TakenPC
      <4>1. Goto(w, "progress") \/ End(w)
        BY <2>4 DEF Stamp
      <4> QED
        BY <4>1, JobMoves, TakenSets DEF PC
    <3> DEFINE r == [row[f] EXCEPT !.fp = job[w].fp]
    <3>2. UNCHANGED row \/ Update(f, r)
      BY <2>4 DEF Stamp
    <3>3. job[w].fp \in Fp \cup {NoFp}
      BY <1>0 DEF Jobs
    <3>4. r \in FileRows /\ r.status = row[f].status /\ r.gen >= row[f].gen
      BY <1>0, <3>3, RowType, RowWrites
    <3> HIDE DEF r
    <3>5. CASE UNCHANGED row
      BY <2>1, <3>1, <3>5, RowKept
    <3>6. CASE Update(f, r) /\ Exists(f)
      BY <2>1, <2>2, <3>1, <3>4, <3>6, RowWritten DEF Exists
    <3>7. CASE Update(f, r) /\ ~Exists(f)
      BY <3>5, <3>7 DEF Update
    <3> QED
      BY <3>2, <3>5, <3>6, <3>7
  <2> QED
    BY <1>5, <2>3, <2>4
<1>6. CASE RowGoneNoticed(w)
  <2>1. ~Exists(f) /\ UNCHANGED row
    BY <1>6 DEF RowGoneNoticed
  <2>2. job'[w].file = f
    BY <1>6, JobMoves DEF RowGoneNoticed, PC, CleanPC
  <2> QED
    BY <2>1, <2>2, RowKept
<1>7. CASE \/ ReembedDeleteChunks(w) \/ ReembedDeleteParents(w) \/ DeleteOldChunks(w)
           \/ DeleteOldParents(w) \/ Parse(w) \/ InsertParents(w) \/ EmbedChildren(w)
           \/ EmbedBatch(w) \/ HypeStage(w) \/ HypeChunk(w) \/ Raptor(w)
  <2>1. UNCHANGED row
    BY <1>7 DEF ReembedDeleteChunks, ReembedDeleteParents, DeleteOldChunks, DeleteOldParents,
         Parse, InsertParents, EmbedChildren, EmbedBatch, HypeStage, HypeChunk, Raptor
  <2>2. job[w].pc \in TakenPC
    BY <1>7, TakenSets DEF ReembedDeleteChunks, ReembedDeleteParents, DeleteOldChunks,
         DeleteOldParents, Parse, InsertParents, EmbedChildren, EmbedBatch, HypeStage,
         HypeChunk, Raptor, At, BuildPC, TailPC
  <2>3. job'[w].file = f
    <3>1. CASE \/ ReembedDeleteChunks(w) \/ ReembedDeleteParents(w) \/ DeleteOldChunks(w)
               \/ DeleteOldParents(w) \/ InsertParents(w)
      <4>1. \E q \in {"reParents", "guard", "delParents", "parse", "children"} : Goto(w, q)
        BY <3>1 DEF ReembedDeleteChunks, ReembedDeleteParents, DeleteOldChunks,
                    DeleteOldParents, InsertParents
      <4> QED
        BY <4>1, JobMoves DEF PC, ReembedPC, BuildPC
    <3>2. CASE Parse(w)
      BY <1>0, <3>2 DEF Parse, Jobs
    <3>3. CASE EmbedChildren(w) \/ EmbedBatch(w)
      BY <1>0, <3>3, BatchKeepsFile DEF EmbedChildren, EmbedBatch
    <3>4. CASE HypeStage(w)
      BY ZenonT(60), <1>0, <3>4 DEF HypeStage, Jobs
    <3>5. CASE HypeChunk(w)
      BY ZenonT(60), <1>0, <3>5 DEF HypeChunk, Jobs
    <3>6. CASE Raptor(w)
      <4>1. CASE Goto(w, "stamp")
        BY <4>1, JobMoves DEF PC, TailPC
      <4>2. CASE ~Goto(w, "stamp")
        BY ZenonT(60), <1>0, <3>6, <4>2 DEF Raptor, Jobs
      <4> QED
        BY <4>1, <4>2
    <3> QED
      BY <1>7, <3>1, <3>2, <3>3, <3>4, <3>5, <3>6
  <2> QED
    BY <2>1, <2>2, <2>3, RowKept
<1> QED
  BY <1>1, <1>2, <1>3, <1>4, <1>5, <1>6, <1>7 DEF IngestStep

(***************************************************************************)
(* RunInv, about runs, is inductive when tasks of one file never overlap    *)
(* and a file is not deleted under its task; RetireInv, about donors in     *)
(* deletion too, when retiring them succeeds besides.                      *)
(***************************************************************************)
Alone == Disturbances \cap {"run", "delete"} = {}
Orderly == Disturbances \cap {"run", "delete", "retire"} = {}

RunInv == TypeOK /\ Exclusive /\ GoneIsNoDonor /\ \A w \in Worker : OwnRetired(w)

LEMMA RetireRuns ==
  /\ Orderly => Alone
  /\ RetireInv => RunInv
<1>1. ASSUME RetireInv, NEW w \in Worker PROVE OwnRetired(w)
  <2>1. job[w].pc \in TakenPC => job[w].file \in File
    BY <1>1, FileOfJob, TakenSets DEF RetireInv, At
  <2>. QED BY <1>1, <2>1 DEF RetireInv, RebuildRetiresDonor, TakenApart, OwnRetired
<1>. QED BY <1>1 DEF Orderly, Alone, RetireInv, RunInv

(* A worker that steps is at work.                                         *)
LEMMA StepIsAtWork ==
  ASSUME NEW w \in Worker, WorkerStep(w), ~ \E f \in File, k \in Kind : StartTask(w, f, k)
  PROVE  ~At(w, "idle")
<1>1. CASE CopyStep(w)
  BY <1>1 DEF CopyStep, At, SkipCopy, FindCopyDonor, CopyMark, ClearTarget, CopyParents,
       MapChunks, CopyChunks, CopyHype, CommitCopy, CopyFails, TxPC, Recheck,
       MarkCopied, CleanChunks, CleanParents, CleanHype
<1>2. CASE IngestStep(w)
  BY <1>2 DEF IngestStep, At, Preflight, ReembedMark, ReembedDeleteChunks,
       ReembedDeleteParents, Guard, MarkProcessing, DeleteOldChunks, DeleteOldParents,
       Parse, InsertParents, EmbedChildren, EmbedBatch, FinishFlat, FinishParentChild,
       HypeStage, HypeChunk, Raptor, Stamp, FinalProgress, RowGoneNoticed, BuildPC, TailPC
<1>3. CASE WorkerCrash(w) \/ AttemptFails(w) \/ LastAttemptFails(w)
  BY <1>3 DEF WorkerCrash, AttemptFails, LastAttemptFails, At, FailPC
<1> QED
  BY <1>1, <1>2, <1>3 DEF WorkerStep

LEMMA RunDisciplined ==
  ASSUME RunInv, NEW w \in Worker, WorkerStep(w),
         ~ \E f \in File, k \in Kind : StartTask(w, f, k)
  PROVE  /\ ~At(w, "idle") /\ job[w].file \in File
         /\ \A f \in File : f = job[w].file => Disciplined(w, f)
<1> USE DEF RunInv
<1>1. ~At(w, "idle")
  BY StepIsAtWork
<1>2. job[w].file \in File
  BY <1>1, FileOfJob
<1>3. ASSUME NEW f \in File, f = job[w].file PROVE Disciplined(w, f)
  BY <1>3, EndDisciplined, CopyDisciplined, IngestDisciplined DEF WorkerStep
<1> QED
  BY <1>1, <1>2, <1>3

LEMMA WorkerDisciplined ==
  ASSUME RetireInv, NEW w \in Worker, WorkerStep(w),
         ~ \E f \in File, k \in Kind : StartTask(w, f, k)
  PROVE  /\ ~At(w, "idle") /\ job[w].file \in File
         /\ \A f \in File : f = job[w].file => Disciplined(w, f)
BY RetireRuns, RunDisciplined

LEMMA WorkerRuns ==
  ASSUME Alone, RunInv, TypeOK', NEW w \in Worker, WorkerStep(w)
  PROVE  Exclusive' /\ GoneIsNoDonor' /\ \A v \in Worker : OwnRetired(v)'
<1> USE DEF RunInv
<1>0. Local(w)
  BY WorkerLocal
<1>1. ASSUME NEW f \in File, NEW k \in Kind, StartTask(w, f, k)
      PROVE  Exclusive' /\ GoneIsNoDonor' /\ \A v \in Worker : OwnRetired(v)'
  <2>1. /\ ~Busy(f) /\ ~Deleting(f) /\ UNCHANGED <<row, del>>
    BY <1>1 DEF StartTask, Alone
  <2>2. job'[w].file = f /\ job'[w].pc \in {"preflight", "lookup"}
    BY <1>1 DEF StartTask, NoJob, TypeOK
  <2>3. \A v \in Worker \ {w} : job'[v] = job[v] /\ job[v].file # f
    BY <1>0, <2>1 DEF Local, Busy
  <2>4. Exclusive'
    BY <2>1, <2>2, <2>3 DEF Exclusive, Deleting, At
  <2>5. GoneIsNoDonor'
    BY <2>1 DEF GoneIsNoDonor, Exists
  <2>6. \A v \in Worker : OwnRetired(v)'
    BY <2>1, <2>2, <2>3, TakenSets DEF OwnRetired
  <2> QED
    BY <2>4, <2>5, <2>6
<1>2. CASE ~ \E f \in File, k \in Kind : StartTask(w, f, k)
  <2>1. PICK f \in File : f = job[w].file /\ Disciplined(w, f) /\ ~At(w, "idle")
    BY <1>2, RunDisciplined
  <2>2. /\ job'[w].file \in {f, NoFile}
        /\ job'[w].pc \in TakenPC => row'[f].fp = NoFp
        /\ ~Exists(f) => row'[f] = row[f]
        /\ Exists(f) => Exists(f)'
    BY <2>1 DEF Disciplined
  <2>3. /\ \A v \in Worker \ {w} : job'[v] = job[v]
        /\ \A g \in File \ {f} : row'[g] = row[g]
        /\ UNCHANGED del
    BY <1>0, <2>1 DEF Local
  <2>4. \A v \in Worker \ {w} : job[v].file # f /\ (job[v].file = NoFile <=> At(v, "idle"))
    BY <2>1 DEF Exclusive, TypeOK, At
  <2>5. /\ job'[w].file = NoFile <=> job'[w].pc = "idle"
        /\ ~Deleting(f)
    BY <2>1 DEF TypeOK, Exclusive
  <2>6. Exclusive'
    <3>1. ASSUME NEW v \in Worker, NEW u \in Worker, v # u, ~At(v, "idle")'
          PROVE  job'[v].file # job'[u].file
      <4>1. CASE v = w
        BY <2>2, <2>3, <2>4, <2>5, <3>1, <4>1 DEF At
      <4>2. CASE u = w
        BY <2>2, <2>3, <2>4, <2>5, <3>1, <4>2 DEF At
      <4>3. CASE v # w /\ u # w
        BY <2>3, <3>1, <4>3 DEF Exclusive, At
      <4> QED
        BY <4>1, <4>2, <4>3
    <3>2. ASSUME NEW v \in Worker, ~At(v, "idle")'
          PROVE  ~Deleting(job[v].file)'
      <4>1. CASE v = w
        BY <2>2, <2>3, <2>5, <3>2, <4>1 DEF At, Deleting
      <4>2. CASE v # w
        BY <2>3, <3>2, <4>2 DEF At, Deleting, Exclusive
      <4> QED
        BY <4>1, <4>2
    <3> QED
      BY <3>1, <3>2 DEF Exclusive
  <2>7. GoneIsNoDonor'
    <3> SUFFICES ASSUME NEW g \in File, ~Exists(g)' PROVE row'[g].fp = NoFp
      BY DEF GoneIsNoDonor
    <3>1. CASE g = f
      BY <2>2, <3>1 DEF GoneIsNoDonor
    <3>2. CASE g # f
      BY <2>3, <3>2 DEF GoneIsNoDonor, Exists
    <3> QED
      BY <3>1, <3>2
  <2>8. ASSUME NEW v \in Worker PROVE OwnRetired(v)'
    <3>1. CASE v = w
      BY <2>2, <2>5, <3>1, TakenSets DEF OwnRetired
    <3>2. CASE v # w
      <4>1. job[v].pc \in TakenPC => job[v].file \in File \ {f}
        BY <2>4, <3>2, FileOfJob, TakenSets DEF At
      <4> QED
        BY <2>3, <3>2, <4>1 DEF OwnRetired
    <3> QED
      BY <3>1, <3>2
  <2> QED
    BY <2>6, <2>7, <2>8
<1> QED
  BY <1>1, <1>2

LEMMA WorkerRetire ==
  ASSUME Orderly, RetireInv, TypeOK', NEW w \in Worker, WorkerStep(w)
  PROVE  Exclusive' /\ GoneIsNoDonor' /\ RebuildRetiresDonor'
<1>1. Exclusive' /\ GoneIsNoDonor' /\ \A v \in Worker : OwnRetired(v)'
  BY RetireRuns, WorkerRuns
<1>2. Local(w)
  BY WorkerLocal DEF RetireInv
<1>3. RebuildRetiresDonor'
  <2> SUFFICES ASSUME NEW g \in File, TakenApart(g)' PROVE row'[g].fp = NoFp
    BY DEF RebuildRetiresDonor
  <2>1. CASE Deleting(g)'
    <3>1. Deleting(g) /\ row[g].fp = NoFp
      BY <1>2, <2>1 DEF Local, Deleting, RetireInv, RebuildRetiresDonor, TakenApart
    <3>2. CASE \E f \in File, k \in Kind : StartTask(w, f, k)
      BY <3>1, <3>2 DEF StartTask
    <3>3. CASE ~ \E f \in File, k \in Kind : StartTask(w, f, k)
      <4>1. ~At(w, "idle")
        BY <3>3, StepIsAtWork
      <4>2. g # job[w].file
        BY <3>1, <4>1 DEF RetireInv, Exclusive
      <4> QED
        BY <1>2, <3>1, <4>2 DEF Local
    <3> QED
      BY <3>2, <3>3
  <2>2. CASE \E v \in Worker : job'[v].file = g /\ job'[v].pc \in TakenPC
    BY <1>1, <2>2 DEF OwnRetired
  <2> QED
    BY <2>1, <2>2 DEF TakenApart
<1> QED
  BY <1>1, <1>3

(* A step of the environment writes no job and one row, and only the        *)
(* cascade touches an index, of a file on which no run is at work.          *)
FileAlone(f) ==
  /\ UNCHANGED job
  /\ \A g \in File \ {f} : row'[g] = row[g] /\ del'[g] = del[g]
  /\ \A g \in File : row'[g].gen >= row[g].gen
  /\ row'[f].status \in {"absent", "deleted"} => row'[f].fp = NoFp
  /\ row[f].status = "deleted" => row'[f].status = "deleted"
  /\ ~UNCHANGED del => ~Busy(f)
  /\ row'[f].fp = row[f].fp \/ row'[f].fp = NoFp
  /\ CopyDonor(f) =>
       row'[f] = row[f] \/ row'[f].gen > row[f].gen \/ row'[f].status = "deleted"
  /\ \A g \in File : Busy(g) =>
       chunks'[g] = chunks[g] /\ parents'[g] = parents[g] /\ hype'[g] = hype[g]

LEMMA FileStepAlone ==
  ASSUME Alone, RunInv, NEW f \in File, FileStep(f)
  PROVE  FileAlone(f)
<1> USE DEF RunInv
<1>0. /\ row[f] \in FileRows /\ row \in [File -> FileRows]
      /\ \A g \in File : row[g].gen >= row[g].gen
  BY DEF TypeOK, FileRows
<1>1. /\ ~Exists(f) => row[f].fp = NoFp
      /\ Deleting(f) => ~Busy(f)
  <2>1. ASSUME Deleting(f) PROVE ~Busy(f)
    BY <2>1, FileAssumption DEF Exclusive, Busy, At, TypeOK
  <2> QED
    BY <2>1 DEF GoneIsNoDonor
<1>2. ASSUME NEW s \in Status \ {"absent", "deleted"}, row' = [row EXCEPT ![f].status = s],
             ~CopyDonor(f), row[f].status # "deleted", UNCHANGED <<job, del, chunks, parents, hype>>
      PROVE  FileAlone(f)
  <2>1. row'[f] = [row[f] EXCEPT !.status = s] /\ \A g \in File \ {f} : row'[g] = row[g]
    BY <1>0, <1>2
  <2>2. row'[f].gen = row[f].gen /\ row'[f].fp = row[f].fp /\ row'[f].status = s
    BY <1>0, <2>1 DEF FileRows
  <2> QED
    BY <1>0, <1>2, <2>1, <2>2 DEF FileAlone
<1>3. CASE Upload(f) \/ Retry(f) \/ StuckSweep(f)
  <2>1. /\ \E s \in Status \ {"absent", "deleted"} : row' = [row EXCEPT ![f].status = s]
        /\ UNCHANGED <<job, del, chunks, parents, hype>>
    BY <1>3 DEF Upload, Retry, StuckSweep, Status, index
  <2>2. ~CopyDonor(f) /\ row[f].status # "deleted"
    BY <1>3 DEF Upload, Retry, StuckSweep, CopyDonor, Advertises
  <2> QED
    BY <1>2, <2>1, <2>2
<1>4. CASE Reembed(f) \/ ChangeConfig(f) \/ DropTask(f)
  <2>1. UNCHANGED <<row, job, del, chunks, parents, hype>>
    BY <1>4 DEF Reembed, ChangeConfig, DropTask, index
  <2> QED
    BY <1>0, <1>1, <2>1 DEF FileAlone, Exists
<1>5. CASE DeleteFile(f)
  <2>1. /\ ~Busy(f) /\ Exists(f) /\ UNCHANGED <<job, chunks, parents, hype>>
        /\ \/ row' = [row EXCEPT ![f] = [Touched(row[f]) EXCEPT !.fp = NoFp]]
           \/ UNCHANGED row
        /\ del' = [del EXCEPT ![f] = "chunks"]
    BY <1>0, <1>5 DEF DeleteFile, Alone, index
  <2>2. \A g \in File \ {f} : row'[g] = row[g] /\ del'[g] = del[g]
    BY <1>0, <2>1 DEF TypeOK
  <2>3. CASE row' = [row EXCEPT ![f] = [Touched(row[f]) EXCEPT !.fp = NoFp]]
    <3>1. row'[f] = [Touched(row[f]) EXCEPT !.fp = NoFp]
      BY <1>0, <2>3
    <3>2. /\ Touched(row[f]) \in FileRows /\ Touched(row[f]).gen > row[f].gen
      BY <1>0, RowType, RowWrites
    <3>3. row'[f].fp = NoFp /\ row'[f].gen = Touched(row[f]).gen
      BY <3>1, <3>2 DEF FileRows
    <3>4. row'[f].gen > row[f].gen /\ row'[f].gen >= row[f].gen
      BY <1>0, <3>2, <3>3 DEF FileRows
    <3>5. \A g \in File : row'[g].gen >= row[g].gen
      BY <1>0, <2>2, <3>4
    <3> QED
      BY <2>1, <2>2, <3>3, <3>4, <3>5 DEF FileAlone, Exists
  <2>4. CASE UNCHANGED row
    BY <1>0, <2>1, <2>2, <2>4 DEF FileAlone, Exists
  <2> QED
    BY <2>1, <2>3, <2>4
<1>6. CASE CascadeChunks(f) \/ CascadeHype(f) \/ CascadeParents(f)
  <2>1. /\ Deleting(f) /\ UNCHANGED <<row, job>>
        /\ \A g \in File \ {f} : /\ del'[g] = del[g]
                                  /\ chunks'[g] = chunks[g]
                                  /\ parents'[g] = parents[g]
                                  /\ hype'[g] = hype[g]
    BY <1>6 DEF CascadeChunks, CascadeHype, CascadeParents, Deleting, Emptied, TypeOK
  <2> QED
    BY <1>0, <1>1, <2>1 DEF FileAlone, Exists
<1>7. CASE DeleteRow(f)
  <2>1. /\ Deleting(f) /\ UNCHANGED <<job, chunks, parents, hype>>
        /\ \A g \in File \ {f} : row'[g] = row[g] /\ del'[g] = del[g]
    BY <1>7 DEF DeleteRow, Deleting, TypeOK, index
  <2>2. CASE UNCHANGED row
    BY <1>0, <1>1, <2>1, <2>2 DEF FileAlone, Exists
  <2>3. CASE row' = [row EXCEPT ![f] = [row[f] EXCEPT !.status = "deleted", !.fp = NoFp]]
    <3>1. row'[f] = [row[f] EXCEPT !.status = "deleted", !.fp = NoFp]
      BY <1>0, <2>3
    <3>2. row'[f].status = "deleted" /\ row'[f].fp = NoFp /\ row'[f].gen = row[f].gen
      BY <1>0, <3>1 DEF FileRows
    <3>3. \A g \in File : row'[g].gen >= row[g].gen
      BY <1>0, <2>1, <3>2
    <3> QED
      BY <1>1, <2>1, <3>2, <3>3 DEF FileAlone
  <2> QED
    BY <1>0, <1>7, <2>2, <2>3 DEF DeleteRow
<1> QED
  BY <1>3, <1>4, <1>5, <1>6, <1>7 DEF FileStep

LEMMA FileRunsAlone ==
  ASSUME Alone, RunInv, NEW f \in File, FileStep(f)
  PROVE  Exclusive' /\ GoneIsNoDonor' /\ \A w \in Worker : OwnRetired(w)'
<1> USE DEF RunInv
<1>1. FileAlone(f)
  BY FileStepAlone
<1>2. Exclusive'
  <2>1. ASSUME NEW w \in Worker, ~At(w, "idle") PROVE ~Deleting(job[w].file)'
    <3>1. CASE job[w].file = f
      BY <1>1, <2>1, <3>1 DEF FileAlone, Exclusive, Busy, Deleting
    <3>2. CASE job[w].file # f
      BY <1>1, <2>1, <3>2, FileOfJob DEF FileAlone, Exclusive, Deleting
    <3> QED
      BY <3>1, <3>2
  <2> QED
    BY <1>1, <2>1 DEF FileAlone, Exclusive, At
<1>3. GoneIsNoDonor'
  BY <1>1 DEF FileAlone, GoneIsNoDonor, Exists
<1>4. ASSUME NEW w \in Worker PROVE OwnRetired(w)'
  <2>1. job[w].pc \in TakenPC => job[w].file \in File
    BY FileOfJob, TakenSets DEF At
  <2> QED
    BY <1>1, <2>1 DEF FileAlone, OwnRetired
<1> QED
  BY <1>2, <1>3, <1>4

LEMMA RunStep ==
  ASSUME Alone, RunInv, [Next]_vars
  PROVE  RunInv'
<1>0. TypeOK'
  BY TypeCorrectStep DEF RunInv
<1>1. ASSUME NEW f \in File, FileStep(f) PROVE RunInv'
  BY <1>0, <1>1, FileRunsAlone DEF RunInv
<1>2. ASSUME NEW w \in Worker, WorkerStep(w) PROVE RunInv'
  BY <1>0, <1>2, WorkerRuns DEF RunInv
<1>3. CASE UNCHANGED vars
  BY <1>3 DEF vars, index, RunInv, TypeOK, Exclusive, At, Deleting, GoneIsNoDonor, Exists, OwnRetired
<1> QED
  BY <1>1, <1>2, <1>3 DEF Next

(* Where the donor is retired first, an index is touched of a row that is   *)
(* no donor any more.                                                      *)
FileLocal(f) ==
  /\ FileAlone(f)
  /\ Deleting(f)' => Deleting(f) \/ row'[f].fp = NoFp
  /\ CopyDonor(f) => row'[f] = row[f] \/ row'[f].gen > row[f].gen
  /\ \A g \in File : CopyDonor(g) =>
       chunks'[g] = chunks[g] /\ parents'[g] = parents[g] /\ hype'[g] = hype[g]

LEMMA FileStepLocal ==
  ASSUME Orderly, RetireInv, NEW f \in File, FileStep(f)
  PROVE  FileLocal(f)
<1>0. row[f] \in FileRows /\ row \in [File -> FileRows] /\ FileAlone(f)
  BY RetireRuns, FileStepAlone DEF RetireInv, TypeOK
<1>1. \A g \in File : Deleting(g) => ~CopyDonor(g)
  BY DEF RetireInv, RebuildRetiresDonor, TakenApart, CopyDonor
<1>2. CASE \/ Upload(f) \/ Retry(f) \/ StuckSweep(f) \/ Reembed(f) \/ ChangeConfig(f)
           \/ DropTask(f)
  <2>1. UNCHANGED <<del, chunks, parents, hype>>
    BY <1>2 DEF Upload, Retry, StuckSweep, Reembed, ChangeConfig, DropTask, index
  <2>2. CopyDonor(f) => row'[f] = row[f]
    BY <1>2 DEF Upload, Retry, StuckSweep, Reembed, ChangeConfig, DropTask, CopyDonor, Advertises
  <2> QED
    BY <1>0, <2>1, <2>2 DEF FileLocal, Deleting
<1>3. CASE DeleteFile(f)
  <2>1. /\ UNCHANGED <<chunks, parents, hype>>
        /\ row' = [row EXCEPT ![f] = [Touched(row[f]) EXCEPT !.fp = NoFp]]
    BY <1>0, <1>3 DEF DeleteFile, Orderly, index
  <2>2. row'[f] = [Touched(row[f]) EXCEPT !.fp = NoFp]
    BY <1>0, <2>1
  <2>3. Touched(row[f]) \in FileRows /\ Touched(row[f]).gen > row[f].gen
    BY <1>0, RowType, RowWrites
  <2>4. row'[f].fp = NoFp /\ row'[f].gen = Touched(row[f]).gen
    BY <2>2, <2>3 DEF FileRows
  <2> QED
    BY <1>0, <2>1, <2>3, <2>4 DEF FileLocal
<1>4. CASE CascadeChunks(f) \/ CascadeHype(f) \/ CascadeParents(f) \/ DeleteRow(f)
  <2>1. /\ Deleting(f)
        /\ \A g \in File \ {f} : /\ chunks'[g] = chunks[g]
                                  /\ parents'[g] = parents[g]
                                  /\ hype'[g] = hype[g]
    BY <1>4 DEF CascadeChunks, CascadeHype, CascadeParents, DeleteRow, Deleting, Emptied, TypeOK,
         RetireInv, index
  <2> QED
    BY <1>0, <1>1, <2>1 DEF FileLocal
<1> QED
  BY <1>2, <1>3, <1>4 DEF FileStep

LEMMA FileRetire ==
  ASSUME Orderly, RetireInv, NEW f \in File, FileStep(f)
  PROVE  Exclusive' /\ GoneIsNoDonor' /\ RebuildRetiresDonor'
<1>1. FileLocal(f)
  BY FileStepLocal
<1>2. Exclusive' /\ GoneIsNoDonor'
  BY RetireRuns, FileRunsAlone
<1>3. RebuildRetiresDonor'
  <2> SUFFICES ASSUME NEW g \in File, TakenApart(g)' PROVE row'[g].fp = NoFp
    BY DEF RebuildRetiresDonor
  <2>1. CASE g # f
    BY <1>1, <2>1 DEF FileLocal, FileAlone, RetireInv, RebuildRetiresDonor, TakenApart, Deleting
  <2>2. CASE g = f
    BY <1>1, <2>2 DEF FileLocal, FileAlone, RetireInv, RebuildRetiresDonor, TakenApart
  <2> QED
    BY <2>1, <2>2
<1> QED
  BY <1>2, <1>3

LEMMA InitRetire == Init => RetireInv
<1> SUFFICES ASSUME Init PROVE RetireInv
  OBVIOUS
<1>1. /\ \A w \in Worker : At(w, "idle")
      /\ \A f \in File : row[f].fp = NoFp
  BY DEF Init, At, NoJob
<1> QED
  BY <1>1, InitType DEF RetireInv, Exclusive, GoneIsNoDonor, RebuildRetiresDonor

LEMMA RetireStep ==
  ASSUME Orderly, RetireInv, [Next]_vars
  PROVE  RetireInv'
<1>0. TypeOK'
  BY TypeCorrectStep DEF RetireInv
<1>1. ASSUME NEW f \in File, FileStep(f) PROVE RetireInv'
  BY <1>0, <1>1, FileRetire DEF RetireInv
<1>2. ASSUME NEW w \in Worker, WorkerStep(w) PROVE RetireInv'
  BY <1>0, <1>2, WorkerRetire DEF RetireInv
<1>3. CASE UNCHANGED vars
  BY <1>3 DEF vars, index, RetireInv, TypeOK, Exclusive, At, Deleting, GoneIsNoDonor, Exists,
              RebuildRetiresDonor, TakenApart
<1> QED
  BY <1>1, <1>2, <1>3 DEF Next

LEMMA RetireInvariant ==
  ASSUME Orderly
  PROVE  Spec => []RetireInv
<1>1. RetireInv /\ [Next]_vars => RetireInv'
  BY RetireStep
<1> QED
  BY InitRetire, <1>1, PTL DEF Spec

(* However the runs of different files, requests, crashes and retries       *)
(* interleave, also with changing settings and with best-effort deletes     *)
(* that fail: from the first statement that takes an index apart to the     *)
(* stamp of the run that rebuilds it, the row carries no fingerprint        *)
(* (UpdateFileStatus, retireCopyDonors).                                    *)
THEOREM Retired ==
  ASSUME Orderly
  PROVE  Spec => []RebuildRetiresDonor
<1>1. RetireInv => RebuildRetiresDonor
  BY DEF RetireInv
<1> QED
  BY RetireInvariant, <1>1, PTL

(* Under the same conditions no step of anyone touches the index of a row   *)
(* while the row advertises it, so a copier reads a donor that stays put    *)
(* (FindCopyDonor, CopyFileIndex).                                          *)
THEOREM DonorsStayPut ==
  ASSUME Orderly
  PROVE  Spec => DonorIndexStable
<1>1. ASSUME RetireInv, RetireInv', [Next]_vars
      PROVE  [\A f \in File : CopyDonor(f) =>
                chunks'[f] = chunks[f] /\ parents'[f] = parents[f] /\ hype'[f] = hype[f]]_vars
  <2> SUFFICES ASSUME NEW g \in File, CopyDonor(g), Next
               PROVE  chunks'[g] = chunks[g] /\ parents'[g] = parents[g] /\ hype'[g] = hype[g]
    BY <1>1
  <2>1. ASSUME NEW f \in File, FileStep(f)
        PROVE  chunks'[g] = chunks[g] /\ parents'[g] = parents[g] /\ hype'[g] = hype[g]
    BY <1>1, <2>1, FileStepLocal DEF FileLocal, FileAlone
  <2>2. ASSUME NEW w \in Worker, WorkerStep(w)
        PROVE  chunks'[g] = chunks[g] /\ parents'[g] = parents[g] /\ hype'[g] = hype[g]
    <3>1. Local(w)
      BY <1>1, <2>2, WorkerLocal DEF RetireInv
    <3>2. CASE g # job[w].file
      BY <3>1, <3>2 DEF Local
    <3>3. CASE g = job[w].file
      <4>1. CASE \E f \in File, k \in Kind : StartTask(w, f, k)
        BY <4>1 DEF StartTask, index
      <4>2. CASE ~ \E f \in File, k \in Kind : StartTask(w, f, k)
        BY <1>1, <2>2, <3>3, <4>2, WorkerDisciplined DEF Disciplined
      <4> QED
        BY <4>1, <4>2
    <3> QED
      BY <3>2, <3>3
  <2> QED
    BY <2>1, <2>2 DEF Next
<1> QED
  BY RetireInvariant, <1>1, PTL DEF Spec, DonorIndexStable

(* Under the same conditions a row stops being a donor only with a new      *)
(* generation token or with the row, so DonorStillValid cannot take a donor *)
(* that was retired and stamped again for the one the copier found.         *)
THEOREM TokensMove ==
  ASSUME Orderly
  PROVE  Spec => TokenMovesOnRetire
<1>1. ASSUME RetireInv, RetireInv', [Next]_vars
      PROVE  [\A f \in File : CopyDonor(f) /\ ~CopyDonor(f)' =>
                row'[f].gen > row[f].gen \/ ~Exists(f)']_vars
  <2> SUFFICES ASSUME NEW g \in File, CopyDonor(g), ~CopyDonor(g)', Next
               PROVE  row'[g].gen > row[g].gen \/ ~Exists(g)'
    BY <1>1
  <2>0. row'[g] # row[g]
    BY DEF CopyDonor, Advertises
  <2>1. ASSUME NEW f \in File, FileStep(f)
        PROVE  row'[g].gen > row[g].gen \/ ~Exists(g)'
    BY <1>1, <2>0, <2>1, FileStepLocal DEF FileLocal, FileAlone, Exists
  <2>2. ASSUME NEW w \in Worker, WorkerStep(w)
        PROVE  row'[g].gen > row[g].gen \/ ~Exists(g)'
    <3>1. g = job[w].file
      BY <1>1, <2>0, <2>2, WorkerLocal DEF Local, RetireInv
    <3>2. CASE \E f \in File, k \in Kind : StartTask(w, f, k)
      BY <2>0, <3>2 DEF StartTask
    <3>3. CASE ~ \E f \in File, k \in Kind : StartTask(w, f, k)
      BY <1>1, <2>0, <2>2, <3>1, <3>3, WorkerDisciplined DEF Disciplined
    <3> QED
      BY <3>2, <3>3
  <2> QED
    BY <2>1, <2>2 DEF Next
<1> QED
  BY RetireInvariant, <1>1, PTL DEF Spec, TokenMovesOnRetire

-----------------------------------------------------------------------------
(* A donor is whole when nothing is disturbed but the final delete of a     *)
(* files row.                                                               *)

Calm == Disturbances \subseteq {"rowDelete"}

LEMMA CalmIsOrderly == Calm => Orderly
  BY DEF Calm, Orderly

SameIndex(f) == chunks'[f] = chunks[f] /\ parents'[f] = parents[f] /\ hype'[f] = hype[f]

(***************************************************************************)
(* What a run may rely on while others step.                               *)
(***************************************************************************)
LEMMA WholeKept ==
  ASSUME TypeOK, TypeOK', NEW f \in File, NEW p \in Fp, IndexWhole(f, p), SameIndex(f),
         runs' >= runs
  PROVE  IndexWhole(f, p)'
<1>1. PICK r \in 0..runs, b \in 0..runs : WholeAs(f, p, r, b)
  BY DEF IndexWhole
<1>2. r \in 0..runs' /\ b \in 0..runs'
  BY DEF TypeOK
<1>3. WholeAs(f, p, r, b)'
  BY <1>1 DEF WholeAs, SameIndex
<1> QED
  BY <1>2, <1>3 DEF IndexWhole

(* The donor of a copy: another step leaves it alone or moves its token.   *)
DonorRely(d) ==
  /\ row'[d].gen >= row[d].gen
  /\ CopyDonor(d) => SameIndex(d) /\ (row'[d] = row[d] \/ row'[d].gen > row[d].gen)

LEMMA DonorRelyStep ==
  ASSUME Orderly, RetireInv, Next, NEW d \in File
  PROVE  DonorRely(d)
<1>0. row[d] \in FileRows /\ row[d].gen >= row[d].gen
  BY DEF RetireInv, TypeOK, FileRows
<1>1. ASSUME NEW f \in File, FileStep(f) PROVE DonorRely(d)
  BY <1>0, <1>1, FileStepLocal DEF FileLocal, FileAlone, DonorRely, SameIndex
<1>2. ASSUME NEW w \in Worker, WorkerStep(w) PROVE DonorRely(d)
  <2>1. Local(w)
    BY <1>2, WorkerLocal DEF RetireInv
  <2>2. CASE d # job[w].file
    BY <1>0, <2>1, <2>2 DEF Local, DonorRely, SameIndex
  <2>3. CASE \E f \in File, k \in Kind : StartTask(w, f, k)
    BY <1>0, <2>3 DEF StartTask, index, DonorRely, SameIndex
  <2>4. CASE d = job[w].file /\ ~ \E f \in File, k \in Kind : StartTask(w, f, k)
    BY <1>2, <2>4, WorkerDisciplined DEF Disciplined, DonorRely, SameIndex
  <2> QED
    BY <2>2, <2>3, <2>4
<1> QED
  BY <1>1, <1>2 DEF Next

ConfigPC == {"mark"} \cup BuildPC \cup TailPC

(* A step that is not of v leaves what v has built alone.                  *)
LEMMA BuildRely ==
  ASSUME TypeOK, TypeOK', NEW v \in Worker, BuildProgress(v), job'[v] = job[v], runs' >= runs,
         ~At(v, "idle") => SameIndex(job[v].file),
         job[v].pc \in ConfigPC => cfg'[job[v].file] = cfg[job[v].file]
  PROVE  BuildProgress(v)'
<1>1. job[v].run \in 0..runs => job[v].run \in 0..runs'
  BY DEF TypeOK
<1>2. CASE job[v].pc \in ConfigPC
  <2> DEFINE f == job[v].file
  <2>1. SameIndex(job[v].file) /\ cfg'[job[v].file] = cfg[job[v].file]
    BY <1>2 DEF ConfigPC, BuildPC, TailPC, At
  <2>2. \A x : Built(v, x)' = Built(v, x)
    BY <2>1 DEF Built
  <2>3. /\ \A P : Stored(v, P) => chunks'[job'[v].file] = {Built(v, x)' : x \in P}
        /\ HasParents(v) => HasParents(v)'
        /\ NoParents(v) => NoParents(v)'
    BY <2>1, <2>2 DEF Stored, HasParents, NoParents, SameIndex
  <2> QED
    BY <1>1, <2>1, <2>2, <2>3 DEF BuildProgress, SameIndex, Stored
<1>3. CASE job[v].pc \notin ConfigPC
  BY <1>1, <1>3 DEF BuildProgress, ConfigPC, BuildPC, TailPC
<1> QED
  BY <1>2, <1>3

LEMMA CopyRely ==
  ASSUME TypeOK, TypeOK', NEW v \in Worker, CopyProgress(v), job'[v] = job[v], runs' >= runs,
         ~At(v, "idle") => SameIndex(job[v].file),
         \A d \in File : DonorRely(d)
  PROVE  CopyProgress(v)'
<1>1. CASE job[v].pc \notin CopyPC \ {"lookup"}
  BY <1>1 DEF CopyProgress, CopyPC, TxPC
<1>2. CASE job[v].pc \in CopyPC \ {"lookup"}
  <2> DEFINE f == job[v].file
             d == job[v].donor
  <2>1. f \in File /\ d \in File /\ job[v] \in Jobs /\ SameIndex(f)
    BY <1>2, FileOfJob DEF TypeOK, At, CopyPC, TxPC
  <2>2. /\ row[d].gen \in Nat /\ row'[d].gen \in Nat /\ job[v].gen \in Nat
        /\ row'[d].gen >= row[d].gen
    BY <2>1 DEF TypeOK, FileRows, Jobs, DonorRely
  <2>3. /\ d # f /\ job[v].fp \in Fp /\ job[v].gen <= row[d].gen
        /\ Same(v) => Advertises(d, job[v].fp)
    BY <1>2 DEF CopyProgress
  <2>4. job[v].gen <= row'[d].gen
    BY <2>2, <2>3
  <2>5. ASSUME Same(v)'
        PROVE  Same(v) /\ row'[d] = row[d] /\ SameIndex(d)
    <3>1. row'[d].gen = job[v].gen
      BY <2>5 DEF Same
    <3>2. row[d].gen = job[v].gen /\ ~(row'[d].gen > row[d].gen)
      BY <2>2, <2>3, <3>1
    <3>3. Same(v) /\ CopyDonor(d)
      BY <2>3, <3>2, FpAssumption DEF Same, CopyDonor, Advertises
    <3> QED
      BY <2>1, <3>2, <3>3 DEF DonorRely
  <2>6. Same(v)' => Advertises(job[v].donor, job[v].fp)'
    BY <2>3, <2>5 DEF Advertises
  <2>7. CopyIsWhole(v) => CopyIsWhole(v)'
    <3> SUFFICES ASSUME CopyIsWhole(v), NEW g \in File, NEW p \in Fp,
                        g = job'[v].file, p = job'[v].fp
                 PROVE  IndexWhole(g, p)'
      BY DEF CopyIsWhole
    <3> QED
      BY <2>1, WholeKept DEF CopyIsWhole
  <2>8. SameIndex(job[v].file) /\ (Same(v)' => Same(v) /\ SameIndex(job[v].donor))
    BY <2>1, <2>5
  <2> QED
    BY <2>3, <2>4, <2>6, <2>7, <2>8 DEF CopyProgress, SameIndex
<1> QED
  BY <1>1, <1>2

(***************************************************************************)
(* BuildProgress of a run that ingests, with its parameters spelled out:   *)
(* f its file, c the settings, r its number, n its next batch, bad the      *)
(* batches that failed.                                                    *)
(***************************************************************************)
Rows(r, c, P) == {IndexRow(r, r, c, x) : x \in P}

BuildAs(w, f, c, r, n, bad) ==
  LET pc == job[w].pc IN
  /\ job[w].file = f /\ cfg[f] = c
  /\ job[w].run = r /\ job[w].next = n /\ job[w].failed = bad
  /\ r \in 0..runs
  /\ pc \notin EmbedPC => n = 1 /\ bad = {}
  /\ job[w].fp \in {c, NoFp}
  /\ pc # "mark" => (job[w].tail <=> c \notin ParentChild)
  /\ pc \in {"parents", "children", "finishPC", "stampPC"} => c \in ParentChild
  /\ pc \in {"leaves", "finish", "hype", "hypeChunk", "stamp"} => c \notin ParentChild
  /\ pc \in {"delParents", "parse", "parents"} => chunks[f] = {}
  /\ pc \in {"parse", "parents", "leaves", "finish", "hype", "hypeChunk", "stamp"} =>
       parents[f] = {}
  /\ pc \in {"children", "finishPC", "stampPC"} =>
       parents[f] = {IndexRow(r, r, c, Parent)} /\ bad = {}
  /\ pc \in {"children", "leaves"} => n \in Leaf /\ bad \subseteq 1..(n - 1)
  /\ pc \in {"children", "leaves"} => chunks[f] = Rows(r, c, (1..(n - 1)) \ bad)
  /\ pc \in {"finishPC", "stampPC", "finish", "hype", "hypeChunk"} =>
       chunks[f] = Rows(r, c, Leaf \ bad)
  /\ pc = "hypeChunk" /\ ~job[w].degraded => chunks[f] \ job[w].rows \subseteq hype[f]
  /\ pc = "stamp" /\ ~job[w].degraded /\ bad = {} =>
       chunks[f] = Rows(r, c, Leaf \cup {Tree}) /\ Rows(r, c, Leaf) \subseteq hype[f]

LEMMA BuildToAs ==
  ASSUME TypeOK, NEW w \in Worker, BuildProgress(w), job[w].pc \in ConfigPC,
         NEW f \in File, NEW c \in Fp, NEW r \in Nat, NEW n \in Nat, NEW bad \in SUBSET Nat,
         f = job[w].file, c = cfg[f], r = job[w].run, n = job[w].next, bad = job[w].failed
  PROVE  BuildAs(w, f, c, r, n, bad)
<1>1. \A x : Built(w, x) = IndexRow(r, r, c, x)
  BY DEF Built
<1>2. /\ \A P : Stored(w, P) => chunks[f] = Rows(r, c, P)
      /\ HasParents(w) => parents[f] = {IndexRow(r, r, c, Parent)}
      /\ NoParents(w) => parents[f] = {}
      /\ {Built(w, x) : x \in Leaf} \subseteq hype[f] => Rows(r, c, Leaf) \subseteq hype[f]
  BY <1>1 DEF Stored, HasParents, NoParents, Rows
<1>3. job[w].pc # "idle" /\ (job[w].pc # "mark" => job[w].pc \in BuildPC \cup TailPC)
  BY DEF ConfigPC, BuildPC, TailPC
<1> QED
  BY <1>2, <1>3 DEF BuildProgress, BuildAs, ConfigPC

LEMMA AsToBuild ==
  ASSUME TypeOK', NEW w \in Worker,
         NEW f \in File, NEW c \in Fp, NEW r \in Nat, NEW n \in Nat, NEW bad \in SUBSET Nat,
         BuildAs(w, f, c, r, n, bad)'
  PROVE  BuildProgress(w)'
<1>0. /\ job'[w].file = f /\ cfg'[f] = c /\ job'[w].run = r /\ job'[w].next = n
      /\ job'[w].failed = bad
  BY DEF BuildAs
<1>1. \A x : Built(w, x)' = IndexRow(r, r, c, x)
  BY <1>0 DEF Built
<1>2. /\ \A P : Stored(w, P)' <=> chunks'[f] = Rows(r, c, P)
      /\ HasParents(w)' <=> parents'[f] = {IndexRow(r, r, c, Parent)}
      /\ NoParents(w)' <=> parents'[f] = {}
      /\ {Built(w, x)' : x \in Leaf} \subseteq hype'[f] <=> Rows(r, c, Leaf) \subseteq hype'[f]
  BY <1>0, <1>1 DEF Stored, HasParents, NoParents, Rows
<1>3. /\ job'[w].pc \in {"children", "leaves"} =>
           chunks'[job'[w].file] = {Built(w, x)' : x \in (1..(job'[w].next - 1)) \ job'[w].failed}
      /\ job'[w].pc \in {"finishPC", "stampPC", "finish", "hype", "hypeChunk"} =>
           chunks'[job'[w].file] = {Built(w, x)' : x \in Leaf \ job'[w].failed}
      /\ job'[w].pc = "stamp" /\ ~job'[w].degraded /\ job'[w].failed = {} =>
           chunks'[job'[w].file] = {Built(w, x)' : x \in Leaf \cup {Tree}}
  BY <1>0, <1>2 DEF BuildAs, Stored
<1>4. /\ job'[w].pc \in {"children", "finishPC", "stampPC"} => HasParents(w)'
      /\ job'[w].pc \in {"parse", "parents", "leaves", "finish", "hype", "hypeChunk", "stamp"} =>
           NoParents(w)'
  BY <1>0, <1>2 DEF BuildAs
<1>5. /\ job'[w].pc # "idle" => job'[w].run \in 0..runs'
      /\ job'[w].pc \notin EmbedPC => job'[w].next = 1 /\ job'[w].failed = {}
      /\ job'[w].fp \in {cfg'[f], NoFp}
      /\ job'[w].pc \in BuildPC \cup TailPC => (job'[w].tail <=> cfg'[f] \notin ParentChild)
  BY <1>0 DEF BuildAs, BuildPC, TailPC
<1>6. /\ job'[w].pc \in {"parents", "children", "finishPC", "stampPC"} => cfg'[f] \in ParentChild
      /\ job'[w].pc \in {"leaves", "finish", "hype", "hypeChunk", "stamp"} =>
           cfg'[f] \notin ParentChild
      /\ job'[w].pc \in {"delParents", "parse", "parents"} => chunks'[f] = {}
      /\ job'[w].pc \in {"children", "finishPC", "stampPC"} => job'[w].failed = {}
      /\ job'[w].pc \in {"children", "leaves"} =>
           job'[w].next \in Leaf /\ job'[w].failed \subseteq 1..(job'[w].next - 1)
      /\ job'[w].pc = "hypeChunk" /\ ~job'[w].degraded =>
           chunks'[f] \ job'[w].rows \subseteq hype'[f]
  BY <1>0 DEF BuildAs
<1>7. job'[w].pc = "stamp" /\ ~job'[w].degraded /\ job'[w].failed = {} =>
        {Built(w, x)' : x \in Leaf} \subseteq hype'[job'[w].file]
  BY <1>0, <1>2 DEF BuildAs
<1> QED
  BY <1>0, <1>3, <1>4, <1>5, <1>6, <1>7 DEF BuildProgress, Stored

(* The two halves of the progress of w do not meet.                        *)
LEMMA NoCopy ==
  ASSUME NEW w \in Worker, job'[w].pc \notin CopyPC
  PROVE  CopyProgress(w)'
BY DEF CopyProgress, CopyPC, TxPC

LEMMA NoBuild ==
  ASSUME NEW w \in Worker, job'[w].pc \notin ConfigPC,
         job'[w].pc # "idle" => job'[w].run \in 0..runs',
         job'[w].pc # "progress" => job'[w].next = 1 /\ job'[w].failed = {}
  PROVE  BuildProgress(w)'
BY DEF BuildProgress, ConfigPC, BuildPC, TailPC, EmbedPC

(***************************************************************************)
(* The steps of an ingest keep BuildProgress.                              *)
(***************************************************************************)
LEMMA GotoKeeps ==
  ASSUME TypeOK, NEW w \in Worker, NEW p \in PC, Goto(w, p)
  PROVE  /\ job'[w].pc = p /\ job'[w].file = job[w].file /\ job'[w].run = job[w].run
         /\ job'[w].fp = job[w].fp /\ job'[w].donor = job[w].donor /\ job'[w].gen = job[w].gen
         /\ job'[w].pmap = job[w].pmap /\ job'[w].rows = job[w].rows /\ job'[w].qs = job[w].qs
         /\ job'[w].old = job[w].old /\ job'[w].oldQs = job[w].oldQs
         /\ job'[w].next = job[w].next /\ job'[w].failed = job[w].failed
         /\ job'[w].tail = job[w].tail /\ job'[w].degraded = job[w].degraded
<1>1. job[w] \in Jobs /\ job \in [Worker -> Jobs]
  BY DEF TypeOK
<1>2. job'[w] = [job[w] EXCEPT !.pc = p]
  BY <1>1 DEF Goto
<1> QED
  BY <1>1, <1>2 DEF Jobs

LEMMA DropKeeps ==
  ASSUME TypeOK, NEW w \in Worker, NEW p \in PC, Drop(w, p)
  PROVE  /\ job'[w].pc = p /\ job'[w].file = job[w].file /\ job'[w].run = job[w].run
         /\ job'[w].next = 1 /\ job'[w].failed = {} /\ job'[w].qs = {}
BY DEF TypeOK, Drop, NoJob

(* A run that ended, or went on without what it had done so far.           *)
LEMMA EndProgress ==
  ASSUME TypeOK, NEW w \in Worker, End(w)
  PROVE  BuildProgress(w)' /\ CopyProgress(w)'
<1>1. job'[w].pc = "idle" /\ job'[w].next = 1 /\ job'[w].failed = {}
  BY DEF TypeOK, End, NoJob
<1>2. job'[w].pc \notin CopyPC \cup ConfigPC
  BY <1>1 DEF CopyPC, TxPC, ConfigPC, BuildPC, TailPC
<1> QED
  BY <1>1, <1>2, NoCopy, NoBuild

LEMMA DropProgress ==
  ASSUME TypeOK, NEW w \in Worker, ~At(w, "idle"), BuildProgress(w), UNCHANGED runs,
         Drop(w, "clean") \/ Drop(w, "guard")
  PROVE  BuildProgress(w)' /\ CopyProgress(w)'
<1>1. /\ job'[w].pc \in {"clean", "guard"} /\ job'[w].run = job[w].run
      /\ job'[w].next = 1 /\ job'[w].failed = {}
  BY DropKeeps DEF PC, CleanPC
<1>2. job'[w].pc \notin CopyPC \cup ConfigPC
  BY <1>1 DEF CopyPC, TxPC, ConfigPC, BuildPC, TailPC
<1>3. job'[w].run \in 0..runs'
  BY <1>1 DEF BuildProgress, At
<1> QED
  BY <1>1, <1>2, <1>3, NoCopy, NoBuild

(* A step to a place outside of the copy and of the ingest proper.         *)
LEMMA PlainProgress ==
  ASSUME TypeOK, NEW w \in Worker, ~At(w, "idle"), BuildProgress(w), UNCHANGED runs,
         NEW p \in {"reMark", "reChunks", "reParents", "cleanParents", "cleanHype", "guard"},
         Goto(w, p), job[w].pc \notin EmbedPC
  PROVE  BuildProgress(w)' /\ CopyProgress(w)'
<1>1. /\ job'[w].pc = p /\ job'[w].run = job[w].run
      /\ job'[w].next = job[w].next /\ job'[w].failed = job[w].failed
  BY GotoKeeps DEF PC, CleanPC, ReembedPC
<1>2. job'[w].pc \notin CopyPC \cup ConfigPC
  BY <1>1 DEF CopyPC, TxPC, ConfigPC, BuildPC, TailPC
<1>3. job'[w].run \in 0..runs' /\ job'[w].next = 1 /\ job'[w].failed = {}
  BY <1>1 DEF BuildProgress, At
<1> QED
  BY <1>1, <1>2, <1>3, NoCopy, NoBuild

LEMMA GuardProgress ==
  ASSUME TypeOK, TypeOK', NEW w \in Worker, BuildProgress(w), Guard(w)
  PROVE  BuildProgress(w)' /\ CopyProgress(w)'
<1>1. CASE End(w)
  BY <1>1, EndProgress
<1>2. ASSUME NEW p \in {cfg[job[w].file], NoFp},
             job' = [job EXCEPT ![w] = [job[w] EXCEPT !.pc = "mark", !.fp = p]]
      PROVE  BuildProgress(w)' /\ CopyProgress(w)'
  <2>1. job[w] \in Jobs /\ job \in [Worker -> Jobs] /\ UNCHANGED <<runs, cfg>>
    BY DEF TypeOK, Guard
  <2>2. /\ job'[w].pc = "mark" /\ job'[w].file = job[w].file /\ job'[w].run = job[w].run
        /\ job'[w].next = job[w].next /\ job'[w].failed = job[w].failed /\ job'[w].fp = p
    BY <1>2, <2>1 DEF Jobs
  <2>3. job[w].run \in 0..runs /\ job[w].next = 1 /\ job[w].failed = {}
    BY DEF BuildProgress, Guard, At, EmbedPC
  <2>4. BuildProgress(w)'
    BY <2>1, <2>2, <2>3 DEF BuildProgress, BuildPC, TailPC
  <2>5. CopyProgress(w)'
    BY <2>2, NoCopy DEF CopyPC, TxPC
  <2> QED
    BY <2>4, <2>5
<1>3. \/ End(w)
      \/ \E p \in {cfg[job[w].file], NoFp} :
           job' = [job EXCEPT ![w] = [job[w] EXCEPT !.pc = "mark", !.fp = p]]
  BY DEF Guard, TypeOK
<1> QED
  BY <1>1, <1>2, <1>3

(***************************************************************************)
(* The steps from the mark to the final status.                            *)
(***************************************************************************)
LEMMA PrepareBuilds ==
  ASSUME Calm, TypeOK, TypeOK', NEW w \in Worker, NEW f \in File, NEW c \in Fp, NEW r \in Nat,
         NEW n \in Nat, NEW bad \in SUBSET Nat, BuildAs(w, f, c, r, n, bad),
         \/ MarkProcessing(w) \/ DeleteOldChunks(w) \/ DeleteOldParents(w) \/ Parse(w)
         \/ InsertParents(w)
  PROVE  /\ BuildAs(w, f, c, r, n, bad)'
         /\ job'[w].pc \in {"delChunks", "delParents", "parse", "parents", "leaves", "children"}
<1>0. /\ job[w] \in Jobs /\ job \in [Worker -> Jobs]
      /\ chunks \in [File -> SUBSET IndexRows] /\ parents \in [File -> SUBSET IndexRows]
  BY DEF TypeOK
<1>a. job[w].file = f /\ cfg[f] = c /\ job[w].run = r /\ job[w].next = n /\ job[w].failed = bad
  BY DEF BuildAs
<1>b. UNCHANGED <<cfg, runs>>
  BY DEF MarkProcessing, DeleteOldChunks, DeleteOldParents, Parse, InsertParents
<1>1. CASE MarkProcessing(w)
  <2> DEFINE t == c \notin ParentChild
  <2>1. job' = [job EXCEPT ![w] = [job[w] EXCEPT !.pc = "delChunks", !.tail = t]]
    BY <1>0, <1>1, <1>a DEF MarkProcessing
  <2>2. /\ job'[w].pc = "delChunks" /\ job'[w].file = f /\ job'[w].run = r
        /\ job'[w].next = n /\ job'[w].failed = bad /\ job'[w].fp = job[w].fp
        /\ job'[w].tail = t
    BY <1>0, <1>a, <2>1 DEF Jobs
  <2>3. job[w].pc = "mark"
    BY <1>1 DEF MarkProcessing, At
  <2> QED
    BY <1>a, <1>b, <2>2, <2>3 DEF BuildAs, EmbedPC
<1>2. CASE DeleteOldChunks(w)
  <2>1. /\ job[w].pc = "delChunks" /\ Goto(w, "delParents") /\ chunks'[f] = {}
        /\ UNCHANGED parents
    BY <1>0, <1>2, <1>a DEF DeleteOldChunks, At, Emptied, Calm
  <2>2. /\ job'[w].pc = "delParents" /\ job'[w].file = f /\ job'[w].run = r
        /\ job'[w].next = n /\ job'[w].failed = bad /\ job'[w].fp = job[w].fp
        /\ job'[w].tail = job[w].tail
    BY <1>a, <2>1, GotoKeeps DEF PC, BuildPC
  <2> QED
    BY <1>a, <1>b, <2>1, <2>2 DEF BuildAs, EmbedPC
<1>3. CASE DeleteOldParents(w)
  <2>1. /\ job[w].pc = "delParents" /\ Goto(w, "parse") /\ parents'[f] = {}
        /\ UNCHANGED chunks
    BY <1>0, <1>3, <1>a DEF DeleteOldParents, At, Emptied, Calm
  <2>2. /\ job'[w].pc = "parse" /\ job'[w].file = f /\ job'[w].run = r
        /\ job'[w].next = n /\ job'[w].failed = bad /\ job'[w].fp = job[w].fp
        /\ job'[w].tail = job[w].tail
    BY <1>a, <2>1, GotoKeeps DEF PC, BuildPC
  <2> QED
    BY <1>a, <1>b, <2>1, <2>2 DEF BuildAs, EmbedPC
<1>4. CASE Parse(w)
  <2> DEFINE p == IF c \in ParentChild THEN "parents" ELSE "leaves"
  <2>1. PICK b \in BOOLEAN : job' = [job EXCEPT ![w] = [job[w] EXCEPT !.degraded = b, !.pc = p]]
    BY <1>0, <1>4, <1>a DEF Parse
  <2>2. p \in {"parents", "leaves"} /\ (p = "parents" <=> c \in ParentChild)
    OBVIOUS
  <2> HIDE DEF p
  <2>3. /\ job'[w].pc = p /\ job'[w].file = f /\ job'[w].run = r
        /\ job'[w].next = n /\ job'[w].failed = bad /\ job'[w].fp = job[w].fp
        /\ job'[w].tail = job[w].tail
    BY <1>0, <1>a, <2>1 DEF Jobs
  <2>4. job[w].pc = "parse" /\ UNCHANGED <<chunks, parents>>
    BY <1>4 DEF Parse, At, index
  <2>5. /\ n = 1 /\ bad = {} /\ chunks[f] = {} /\ parents[f] = {} /\ r \in 0..runs
        /\ job[w].fp \in {c, NoFp} /\ (job[w].tail <=> c \notin ParentChild)
    BY <2>4 DEF BuildAs, EmbedPC
  <2>6. n \in Leaf /\ bad \subseteq 1..(n - 1)
    BY <2>5, LeafAssumption DEF Leaf
  <2>7. Rows(r, c, (1..(n - 1)) \ bad) = {}
    <3>1. (1..(n - 1)) \ bad = {}
      BY <2>5
    <3> QED
      BY <3>1 DEF Rows
  <2> QED
    BY <1>a, <1>b, <2>2, <2>3, <2>4, <2>5, <2>6, <2>7 DEF BuildAs, EmbedPC
<1>5. CASE InsertParents(w)
  <2>1. /\ job[w].pc = "parents" /\ Goto(w, "children") /\ UNCHANGED chunks
        /\ parents'[f] = parents[f] \cup {Built(w, Parent)}
    BY <1>0, <1>5, <1>a DEF InsertParents, At
  <2>2. /\ job'[w].pc = "children" /\ job'[w].file = f /\ job'[w].run = r
        /\ job'[w].next = n /\ job'[w].failed = bad /\ job'[w].fp = job[w].fp
        /\ job'[w].tail = job[w].tail
    BY <1>a, <2>1, GotoKeeps DEF PC, BuildPC
  <2>3. /\ n = 1 /\ bad = {} /\ chunks[f] = {} /\ parents[f] = {} /\ r \in 0..runs
        /\ job[w].fp \in {c, NoFp} /\ (job[w].tail <=> c \notin ParentChild)
        /\ c \in ParentChild
    BY <2>1 DEF BuildAs, EmbedPC
  <2>4. n \in Leaf /\ bad \subseteq 1..(n - 1)
    BY <2>3, LeafAssumption DEF Leaf
  <2>5. Rows(r, c, (1..(n - 1)) \ bad) = {}
    <3>1. (1..(n - 1)) \ bad = {}
      BY <2>3
    <3> QED
      BY <3>1 DEF Rows
  <2>6. parents'[f] = {IndexRow(r, r, c, Parent)}
    BY <1>a, <2>1, <2>3 DEF Built
  <2> QED
    BY <1>a, <1>b, <2>1, <2>2, <2>3, <2>4, <2>5, <2>6 DEF BuildAs, EmbedPC
<1> QED
  BY <1>1, <1>2, <1>3, <1>4, <1>5

LEMMA EmbedBuilds ==
  ASSUME TypeOK, TypeOK', NEW w \in Worker, NEW f \in File, NEW c \in Fp, NEW r \in Nat,
         NEW n \in Nat, NEW bad \in SUBSET Nat, BuildAs(w, f, c, r, n, bad),
         EmbedChildren(w) \/ EmbedBatch(w)
  PROVE  /\ \E b \in SUBSET Nat : BuildAs(w, f, c, r, n + 1, b)'
         /\ job'[w].pc \in {"children", "leaves", "finish", "finishPC"}
<1> DEFINE here == job[w].pc
           done == IF job[w].pc = "children" THEN "finishPC" ELSE "finish"
           p == IF n = NLeaf THEN done ELSE here
           old == Rows(r, c, (1..(n - 1)) \ bad)
<1>0. /\ job[w] \in Jobs /\ job \in [Worker -> Jobs]
      /\ chunks \in [File -> SUBSET IndexRows]
  BY DEF TypeOK
<1>a. job[w].file = f /\ cfg[f] = c /\ job[w].run = r /\ job[w].next = n /\ job[w].failed = bad
  BY DEF BuildAs
<1>b. /\ UNCHANGED <<cfg, runs, parents, hype>>
      /\ job[w].pc \in {"children", "leaves"}
  BY DEF EmbedChildren, EmbedBatch, At
<1>c. /\ n \in Leaf /\ bad \subseteq 1..(n - 1) /\ r \in 0..runs
      /\ chunks[f] = old
      /\ job[w].fp \in {c, NoFp} /\ (job[w].tail <=> c \notin ParentChild)
      /\ job[w].pc = "children" => c \in ParentChild /\ bad = {}
                                   /\ parents[f] = {IndexRow(r, r, c, Parent)}
      /\ job[w].pc = "leaves" => c \notin ParentChild /\ parents[f] = {}
  BY <1>b DEF BuildAs
<1>d. /\ p \in {"children", "leaves", "finish", "finishPC"}
      /\ p \in {"children", "leaves"} => n # NLeaf
      /\ p \in {"finish", "finishPC"} => n = NLeaf
      /\ p \in {"children", "finishPC"} <=> job[w].pc = "children"
  BY <1>b
<1>e. /\ n # NLeaf => n + 1 \in Leaf
      /\ n = NLeaf => Leaf = 1..n
      /\ (n + 1) - 1 = n /\ n + 1 \in Nat /\ n \in 1..n /\ 1..(n - 1) \subseteq 1..n
  BY <1>c, LeafAssumption DEF Leaf
<1>f. /\ Rows(r, c, (1..n) \ bad) = old \cup {IndexRow(r, r, c, n)}
      /\ Rows(r, c, (1..n) \ (bad \cup {n})) = old
  <2>1. n \in Nat /\ n >= 1 /\ bad \subseteq 1..(n - 1)
    BY <1>c, LeafAssumption DEF Leaf
  <2>2. n \notin bad
    BY <2>1
  <2>3. (1..n) \ bad = ((1..(n - 1)) \ bad) \cup {n}
    BY <2>1, <2>2
  <2>4. (1..n) \ (bad \cup {n}) = (1..(n - 1)) \ bad
    BY <2>1
  <2> QED
    BY <2>3, <2>4 DEF Rows
<1> HIDE DEF p, old
<1>1. ASSUME NEW b \in SUBSET (1..n), b = bad \/ (job[w].pc = "leaves" /\ b = bad \cup {n}),
             job' = [job EXCEPT ![w] = [job[w] EXCEPT !.next = n + 1, !.failed = b, !.pc = p]],
             chunks'[f] = Rows(r, c, (1..n) \ b)
      PROVE  BuildAs(w, f, c, r, n + 1, b)' /\ job'[w].pc = p
  <2>1. /\ job'[w].pc = p /\ job'[w].file = f /\ job'[w].run = r
        /\ job'[w].next = n + 1 /\ job'[w].failed = b /\ job'[w].fp = job[w].fp
        /\ job'[w].tail = job[w].tail
    BY <1>0, <1>1, <1>a DEF Jobs
  <2>2. /\ p \in {"children", "leaves"} => chunks'[f] = Rows(r, c, (1..((n + 1) - 1)) \ b)
        /\ p \in {"finish", "finishPC"} => chunks'[f] = Rows(r, c, Leaf \ b)
    BY <1>1, <1>d, <1>e
  <2>3. p \in {"children", "leaves"} => n + 1 \in Leaf /\ b \subseteq 1..((n + 1) - 1)
    BY <1>1, <1>d, <1>e
  <2>4. p \in {"children", "finishPC"} => b = {} /\ parents'[f] = {IndexRow(r, r, c, Parent)}
    BY <1>1, <1>b, <1>c, <1>d
  <2>5. cfg'[f] = c /\ r \in 0..runs'
    BY <1>a, <1>b, <1>c
  <2>6. p \in {"leaves", "finish"} => parents'[f] = {} /\ c \notin ParentChild
    BY <1>b, <1>c, <1>d
  <2>7. p \in {"children", "finishPC"} => c \in ParentChild
    BY <1>c, <1>d
  <2> QED
    BY <1>c, <1>d, <2>1, <2>2, <2>3, <2>4, <2>5, <2>6, <2>7 DEF BuildAs, EmbedPC
<1>2. CASE Store(w, n) /\ NextBatch(w, here, done, {})
  <2>1. chunks'[f] = chunks[f] \cup {IndexRow(r, r, c, n)}
    BY <1>0, <1>2, <1>a DEF Store, Built
  <2>2. chunks'[f] = Rows(r, c, (1..n) \ bad)
    BY <1>c, <1>f, <2>1
  <2>3. job' = [job EXCEPT ![w] = [job[w] EXCEPT !.next = n + 1, !.failed = bad, !.pc = p]]
    <3>1. bad \cup {} = bad
      OBVIOUS
    <3> QED
      BY <1>0, <1>2, <1>a, <3>1 DEF NextBatch, p
  <2>4. bad \in SUBSET (1..n)
    BY <1>c, <1>e
  <2> QED
    BY <1>1, <1>d, <2>2, <2>3, <2>4
<1>3. CASE UNCHANGED chunks /\ job[w].pc = "leaves" /\ NextBatch(w, here, done, {n})
  <2>1. chunks'[f] = Rows(r, c, (1..n) \ (bad \cup {n}))
    BY <1>3, <1>c, <1>f
  <2>2. job' = [job EXCEPT ![w] = [job[w] EXCEPT !.next = n + 1, !.failed = bad \cup {n}, !.pc = p]]
    BY <1>0, <1>3, <1>a DEF NextBatch, p
  <2>3. bad \cup {n} \in SUBSET (1..n) /\ bad \cup {n} \in SUBSET Nat
    BY <1>c, <1>e
  <2> DEFINE b == bad \cup {n}
  <2>4. b \in SUBSET (1..n) /\ b \in SUBSET Nat /\ b = bad \cup {n}
    BY <2>3
  <2>5. /\ chunks'[f] = Rows(r, c, (1..n) \ b)
        /\ job' = [job EXCEPT ![w] = [job[w] EXCEPT !.next = n + 1, !.failed = b, !.pc = p]]
    BY <2>1, <2>2
  <2> HIDE DEF b
  <2> QED
    BY <1>1, <1>3, <1>d, <2>4, <2>5
<1>4. \/ Store(w, n) /\ NextBatch(w, here, done, {})
      \/ UNCHANGED chunks /\ job[w].pc = "leaves" /\ NextBatch(w, here, done, {n})
  <2>1. CASE EmbedChildren(w)
    BY <1>a, <2>1 DEF EmbedChildren, At
  <2>2. CASE EmbedBatch(w)
    BY <1>a, <2>2 DEF EmbedBatch, At
  <2> QED
    BY <2>1, <2>2
<1> QED
  BY <1>2, <1>3, <1>4

LEMMA FinishBuilds ==
  ASSUME TypeOK, TypeOK', NEW w \in Worker, NEW f \in File, NEW c \in Fp, NEW r \in Nat,
         NEW n \in Nat, NEW bad \in SUBSET Nat, BuildAs(w, f, c, r, n, bad),
         FinishFlat(w) \/ FinishParentChild(w)
  PROVE  BuildAs(w, f, c, r, n, bad)' /\ job'[w].pc \in {"hype", "stampPC"}
<1>a. job[w].file = f /\ cfg[f] = c /\ job[w].run = r /\ job[w].next = n /\ job[w].failed = bad
  BY DEF BuildAs
<1>b. UNCHANGED <<cfg, runs, chunks, parents, hype>>
  BY DEF FinishFlat, FinishParentChild, index
<1>1. CASE FinishFlat(w)
  <2>1. job[w].pc = "finish" /\ Goto(w, IF job[w].tail THEN "hype" ELSE "stamp")
    BY <1>1 DEF FinishFlat, At
  <2>2. job[w].tail
    BY <2>1 DEF BuildAs
  <2>3. Goto(w, "hype")
    BY <2>1, <2>2
  <2>4. /\ job'[w].pc = "hype" /\ job'[w].file = f /\ job'[w].run = r
        /\ job'[w].next = n /\ job'[w].failed = bad /\ job'[w].fp = job[w].fp
        /\ job'[w].tail = job[w].tail
    BY <1>a, <2>3, GotoKeeps DEF PC, TailPC
  <2> QED
    BY <1>a, <1>b, <2>1, <2>4 DEF BuildAs, EmbedPC
<1>2. CASE FinishParentChild(w)
  <2>1. job[w].pc = "finishPC" /\ Goto(w, "stampPC")
    BY <1>2 DEF FinishParentChild, At
  <2>2. /\ job'[w].pc = "stampPC" /\ job'[w].file = f /\ job'[w].run = r
        /\ job'[w].next = n /\ job'[w].failed = bad /\ job'[w].fp = job[w].fp
        /\ job'[w].tail = job[w].tail
    BY <1>a, <2>1, GotoKeeps DEF PC, TailPC
  <2> QED
    BY <1>a, <1>b, <2>1, <2>2 DEF BuildAs, EmbedPC
<1> QED
  BY <1>1, <1>2

LEMMA TailBuilds ==
  ASSUME TypeOK, TypeOK', NEW w \in Worker, NEW f \in File, NEW c \in Fp, NEW r \in Nat,
         NEW n \in Nat, NEW bad \in SUBSET Nat, BuildAs(w, f, c, r, n, bad),
         HypeStage(w) \/ HypeChunk(w) \/ Raptor(w)
  PROVE  BuildAs(w, f, c, r, n, bad)' /\ job'[w].pc \in {"hypeChunk", "stamp"}
<1>0. /\ job[w] \in Jobs /\ job \in [Worker -> Jobs]
      /\ chunks \in [File -> SUBSET IndexRows] /\ hype \in [File -> SUBSET IndexRows]
  BY DEF TypeOK
<1>a. job[w].file = f /\ cfg[f] = c /\ job[w].run = r /\ job[w].next = n /\ job[w].failed = bad
  BY DEF BuildAs
<1>b. UNCHANGED <<cfg, runs, parents>>
  BY DEF HypeStage, HypeChunk, Raptor, index
<1>1. CASE HypeStage(w)
  <2>1. job[w].pc = "hype" /\ UNCHANGED <<chunks, hype>>
    BY <1>1 DEF HypeStage, At, index
  <2>2. /\ job'[w].pc = "hypeChunk" /\ job'[w].file = f /\ job'[w].run = r
        /\ job'[w].next = n /\ job'[w].failed = bad /\ job'[w].fp = job[w].fp
        /\ job'[w].tail = job[w].tail
        /\ job'[w].rows = chunks[f] \/ job'[w].degraded
    <3>1. CASE job' = [job EXCEPT ![w] = [job[w] EXCEPT !.pc = "hypeChunk", !.rows = chunks[f]]]
      BY <1>0, <1>a, <3>1 DEF Jobs
    <3>2. CASE job' = [job EXCEPT ![w] = [job[w] EXCEPT !.pc = "hypeChunk", !.degraded = TRUE]]
      BY <1>0, <1>a, <3>2 DEF Jobs
    <3> QED
      BY <1>0, <1>1, <1>a, <3>1, <3>2 DEF HypeStage
  <2>3. ~job'[w].degraded => chunks'[f] \ job'[w].rows \subseteq hype'[f]
    BY <2>1, <2>2
  <2> QED
    BY <1>a, <1>b, <2>1, <2>2, <2>3 DEF BuildAs, EmbedPC
<1>2. CASE HypeChunk(w)
  <2>1. PICK x \in job[w].rows :
          \/ /\ hype' = [hype EXCEPT ![f] = hype[f] \cup {x}]
             /\ job' = [job EXCEPT ![w] = [job[w] EXCEPT !.rows = job[w].rows \ {x}]]
          \/ /\ UNCHANGED hype
             /\ job' = [job EXCEPT ![w] = [job[w] EXCEPT !.rows = job[w].rows \ {x},
                                                      !.degraded = TRUE]]
    BY <1>0, <1>2, <1>a DEF HypeChunk
  <2>2. job[w].pc = "hypeChunk" /\ UNCHANGED chunks
    BY <1>2 DEF HypeChunk, At
  <2>3. /\ job'[w].pc = "hypeChunk" /\ job'[w].file = f /\ job'[w].run = r
        /\ job'[w].next = n /\ job'[w].failed = bad /\ job'[w].fp = job[w].fp
        /\ job'[w].tail = job[w].tail /\ job'[w].rows = job[w].rows \ {x}
        /\ \/ job'[w].degraded
           \/ job'[w].degraded = job[w].degraded /\ hype'[f] = hype[f] \cup {x}
    <3>1. CASE /\ hype' = [hype EXCEPT ![f] = hype[f] \cup {x}]
               /\ job' = [job EXCEPT ![w] = [job[w] EXCEPT !.rows = job[w].rows \ {x}]]
      <4>1. hype'[f] = hype[f] \cup {x}
        BY <1>0, <3>1
      <4> QED
        BY <1>0, <1>a, <2>2, <3>1, <4>1 DEF Jobs
    <3>2. CASE job' = [job EXCEPT ![w] = [job[w] EXCEPT !.rows = job[w].rows \ {x},
                                                        !.degraded = TRUE]]
      BY <1>0, <1>a, <2>2, <3>2 DEF Jobs
    <3> QED
      BY <2>1, <3>1, <3>2
  <2>4. ~job[w].degraded => chunks[f] \ job[w].rows \subseteq hype[f]
    BY <2>2 DEF BuildAs
  <2>5. ~job'[w].degraded => chunks'[f] \ job'[w].rows \subseteq hype'[f]
    BY <2>2, <2>3, <2>4
  <2> QED
    BY <1>a, <1>b, <2>2, <2>3, <2>5 DEF BuildAs, EmbedPC
<1>3. CASE Raptor(w)
  <2>1. /\ job[w].pc = "hypeChunk" /\ job[w].rows = {} /\ UNCHANGED hype
        /\ c \notin ParentChild
    BY <1>3 DEF Raptor, At, BuildAs
  <2>2. /\ ~job[w].degraded => chunks[f] \subseteq hype[f]
        /\ chunks[f] = Rows(r, c, Leaf \ bad) /\ parents[f] = {} /\ r \in 0..runs
        /\ job[w].fp \in {c, NoFp} /\ (job[w].tail <=> c \notin ParentChild)
    BY <2>1 DEF BuildAs
  <2>3. \/ Store(w, Tree) /\ Goto(w, "stamp")
        \/ job' = [job EXCEPT ![w] = [job[w] EXCEPT !.pc = "stamp", !.degraded = TRUE]]
    BY <1>0, <1>3, <1>a, <2>1 DEF Raptor
  <2>4. /\ job'[w].pc = "stamp" /\ job'[w].file = f /\ job'[w].run = r
        /\ job'[w].next = n /\ job'[w].failed = bad /\ job'[w].fp = job[w].fp
        /\ job'[w].tail = job[w].tail
        /\ job'[w].degraded \/ (Store(w, Tree) /\ job'[w].degraded = job[w].degraded)
    <3>1. CASE Store(w, Tree) /\ Goto(w, "stamp")
      BY <1>a, <3>1, GotoKeeps DEF PC, TailPC
    <3>2. CASE job' = [job EXCEPT ![w] = [job[w] EXCEPT !.pc = "stamp", !.degraded = TRUE]]
      BY <1>0, <1>a, <3>2 DEF Jobs
    <3> QED
      BY <2>3, <3>1, <3>2
  <2>5. ASSUME ~job'[w].degraded, bad = {}
        PROVE  chunks'[f] = Rows(r, c, Leaf \cup {Tree}) /\ Rows(r, c, Leaf) \subseteq hype'[f]
    <3>1. chunks'[f] = chunks[f] \cup {IndexRow(r, r, c, Tree)}
      BY <1>0, <1>a, <2>4, <2>5 DEF Store, Built
    <3>2. Leaf \ bad = Leaf
      BY <2>5
    <3>3. chunks[f] = Rows(r, c, Leaf)
      BY <2>2, <3>2
    <3>4. chunks'[f] = Rows(r, c, Leaf \cup {Tree})
      BY <3>1, <3>3 DEF Rows
    <3>5. Rows(r, c, Leaf) \subseteq hype'[f]
      BY <2>1, <2>2, <2>4, <2>5, <3>3
    <3> QED
      BY <3>4, <3>5
  <2> QED
    BY <1>a, <1>b, <2>1, <2>2, <2>4, <2>5 DEF BuildAs, EmbedPC
<1> QED
  BY <1>1, <1>2, <1>3

LEMMA IngestProgress ==
  ASSUME Calm, TypeOK, TypeOK', NEW w \in Worker, BuildProgress(w), IngestStep(w)
  PROVE  BuildProgress(w)' /\ CopyProgress(w)'
<1>1. CASE Preflight(w) \/ ReembedMark(w) \/ ReembedDeleteChunks(w) \/ ReembedDeleteParents(w)
  <2>1. /\ job[w].pc \in ReembedPC /\ UNCHANGED runs
        /\ \E p \in {"reMark", "reChunks", "reParents", "guard"} : Goto(w, p)
    BY <1>1 DEF Preflight, ReembedMark, ReembedDeleteChunks, ReembedDeleteParents, At, ReembedPC
  <2>2. ~At(w, "idle") /\ job[w].pc \notin EmbedPC
    BY <2>1 DEF At, ReembedPC, EmbedPC
  <2> QED
    BY <2>1, <2>2, PlainProgress
<1>2. CASE Guard(w)
  BY <1>2, GuardProgress
<1>3. CASE FinalProgress(w)
  BY <1>3, EndProgress DEF FinalProgress
<1>4. CASE RowGoneNoticed(w)
  <2>1. ~At(w, "idle") /\ Drop(w, "clean") /\ UNCHANGED runs
    BY <1>4 DEF RowGoneNoticed, At, BuildPC, TailPC
  <2> QED
    BY <2>1, DropProgress
<1>5. CASE Stamp(w)
  <2>1. CASE End(w)
    BY <2>1, EndProgress
  <2>2. CASE Goto(w, "progress")
    <3>1. job'[w].pc = "progress" /\ job'[w].run = job[w].run
      BY <2>2, GotoKeeps DEF PC
    <3>2. job[w].run \in 0..runs /\ UNCHANGED runs
      BY <1>5 DEF Stamp, BuildProgress
    <3>3. job'[w].pc \notin CopyPC \cup ConfigPC
      BY <3>1 DEF CopyPC, TxPC, ConfigPC, BuildPC, TailPC
    <3> QED
      BY <3>1, <3>2, <3>3, NoCopy, NoBuild
  <2> QED
    BY <1>5, <2>1, <2>2 DEF Stamp
<1>6. CASE \/ MarkProcessing(w) \/ DeleteOldChunks(w) \/ DeleteOldParents(w) \/ Parse(w)
           \/ InsertParents(w) \/ EmbedChildren(w) \/ EmbedBatch(w)
           \/ FinishFlat(w) \/ FinishParentChild(w)
           \/ HypeStage(w) \/ HypeChunk(w) \/ Raptor(w)
  <2>1. job[w].pc \in ConfigPC /\ ~At(w, "idle")
    BY <1>6 DEF MarkProcessing, DeleteOldChunks, DeleteOldParents, Parse, InsertParents,
         EmbedChildren, EmbedBatch, FinishFlat, FinishParentChild, HypeStage, HypeChunk,
         Raptor, At, ConfigPC, BuildPC, TailPC
  <2>2. job[w].file \in File /\ job[w] \in Jobs
    BY <2>1, FileOfJob
  <2>3. PICK f \in File, c \in Fp, r \in Nat, n \in Nat, bad \in SUBSET Nat :
          /\ f = job[w].file /\ c = cfg[f] /\ r = job[w].run /\ n = job[w].next
          /\ bad = job[w].failed
    <3>1. cfg[job[w].file] \in Fp
      BY <2>2 DEF TypeOK
    <3>2. job[w].run \in Nat /\ job[w].next \in Nat /\ job[w].failed \in SUBSET Nat
      BY <2>2 DEF Jobs
    <3> QED
      BY <2>2, <3>1, <3>2
  <2>4. BuildAs(w, f, c, r, n, bad)
    BY <2>1, <2>3, BuildToAs
  <2>5. /\ \E m \in Nat, b \in SUBSET Nat : BuildAs(w, f, c, r, m, b)'
        /\ job'[w].pc \in BuildPC \cup TailPC
    <3>1. CASE \/ MarkProcessing(w) \/ DeleteOldChunks(w) \/ DeleteOldParents(w) \/ Parse(w)
               \/ InsertParents(w)
      BY <2>4, <3>1, PrepareBuilds DEF BuildPC
    <3>2. CASE EmbedChildren(w) \/ EmbedBatch(w)
      <4>1. n + 1 \in Nat
        OBVIOUS
      <4> QED
        BY <2>4, <3>2, <4>1, EmbedBuilds DEF BuildPC
    <3>3. CASE FinishFlat(w) \/ FinishParentChild(w)
      BY <2>4, <3>3, FinishBuilds DEF TailPC
    <3>4. CASE HypeStage(w) \/ HypeChunk(w) \/ Raptor(w)
      BY <2>4, <3>4, TailBuilds DEF TailPC
    <3> QED
      BY <1>6, <3>1, <3>2, <3>3, <3>4
  <2>6. BuildProgress(w)'
    BY <2>5, AsToBuild
  <2>7. job'[w].pc \notin CopyPC
    BY <2>5 DEF BuildPC, TailPC, CopyPC, TxPC
  <2> QED
    BY <2>6, <2>7, NoCopy
<1> QED
  BY <1>1, <1>2, <1>3, <1>4, <1>5, <1>6 DEF IngestStep

(***************************************************************************)
(* CopyProgress of a run that copies, with its parameters spelled out: f    *)
(* the target, d the donor, p the settings, g the token of the lookup.     *)
(***************************************************************************)
CopyAs(w, f, d, p, g) ==
  LET pc == job[w].pc
      same == row[d].gen = g
  IN
  /\ job[w].file = f /\ job[w].donor = d /\ job[w].fp = p /\ job[w].gen = g
  /\ d # f /\ g <= row[d].gen
  /\ same => Advertises(d, p)
  /\ pc \in TxPC => job[w].old = chunks[f] \cup parents[f] /\ job[w].oldQs = hype[f]
  /\ pc \in TxPC /\ same => job[w].pmap = parents[d]
  /\ pc \in {"copyMark", "clear", "copyParents", "mapChunks", "copyChunks"} => job[w].qs = {}
  /\ pc \in {"copyChunks", "copyHype", "commit"} /\ same => job[w].rows = chunks[d]
  /\ pc = "commit" /\ same => job[w].qs = job[w].rows \cap hype[d]
  /\ pc = "recheck" /\ same => IndexWhole(f, p)
  /\ pc = "markCopied" => IndexWhole(f, p)

LEMMA CopyToAs ==
  ASSUME NEW w \in Worker, CopyProgress(w), job[w].pc \in CopyPC \ {"lookup"},
         NEW f \in File, NEW d \in File, NEW p \in Fp, NEW g \in Nat,
         f = job[w].file, d = job[w].donor, p = job[w].fp, g = job[w].gen
  PROVE  CopyAs(w, f, d, p, g)
<1>1. CopyIsWhole(w) => IndexWhole(f, p)
  BY DEF CopyIsWhole
<1> QED
  BY <1>1 DEF CopyProgress, CopyAs, Same

LEMMA AsToCopy ==
  ASSUME NEW w \in Worker, job'[w].pc \in CopyPC \ {"lookup"},
         NEW f \in File, NEW d \in File, NEW p \in Fp, NEW g \in Nat, CopyAs(w, f, d, p, g)'
  PROVE  CopyProgress(w)'
<1>1. job'[w].file = f /\ job'[w].donor = d /\ job'[w].fp = p /\ job'[w].gen = g
  BY DEF CopyAs
<1>2. IndexWhole(f, p)' => CopyIsWhole(w)'
  BY <1>1 DEF CopyIsWhole
<1> QED
  BY <1>1, <1>2 DEF CopyProgress, CopyAs, Same, Advertises

LEMMA CopyNoBuild ==
  ASSUME NEW w \in Worker, BuildProgress(w), job[w].pc \in CopyPC, job'[w].pc \in CopyPC,
         job'[w].run = job[w].run, job'[w].next = job[w].next, job'[w].failed = job[w].failed,
         UNCHANGED runs
  PROVE  BuildProgress(w)'
<1>1. /\ job[w].pc \notin EmbedPC /\ job[w].pc # "idle" /\ job'[w].pc \notin ConfigPC
  BY DEF CopyPC, TxPC, EmbedPC, ConfigPC, BuildPC, TailPC
<1>2. job[w].run \in 0..runs /\ job[w].next = 1 /\ job[w].failed = {}
  BY <1>1 DEF BuildProgress
<1> QED
  BY <1>1, <1>2, NoBuild

(* The lookup.                                                             *)
LEMMA FindProgress ==
  ASSUME TypeOK, NEW w \in Worker, BuildProgress(w), CopyProgress(w),
         NEW d \in File, FindCopyDonor(w, d)
  PROVE  BuildProgress(w)' /\ CopyProgress(w)'
<1>1. /\ job[w].pc = "lookup" /\ d # job[w].file /\ Advertises(d, job[w].fp)
      /\ UNCHANGED <<row, runs>>
      /\ job' = [job EXCEPT ![w] = [job[w] EXCEPT !.pc = "copyMark", !.donor = d,
                                                 !.gen = row[d].gen]]
  BY DEF FindCopyDonor, At, TypeOK
<1>2. job[w] \in Jobs /\ job \in [Worker -> Jobs] /\ row[d].gen \in Nat
  BY DEF TypeOK, FileRows
<1>3. /\ job'[w].pc = "copyMark" /\ job'[w].file = job[w].file /\ job'[w].run = job[w].run
      /\ job'[w].next = job[w].next /\ job'[w].failed = job[w].failed /\ job'[w].fp = job[w].fp
      /\ job'[w].donor = d /\ job'[w].gen = row[d].gen /\ job'[w].qs = job[w].qs
  BY <1>1, <1>2 DEF Jobs
<1>4. BuildProgress(w)'
  BY <1>1, <1>3, CopyNoBuild DEF CopyPC
<1>5. job[w].fp \in Fp /\ job[w].qs = {}
  BY <1>1 DEF CopyProgress, CopyPC
<1>6. row'[d].gen = row[d].gen /\ row[d].gen <= row[d].gen
  BY <1>1, <1>2
<1>7. CopyProgress(w)'
  BY <1>1, <1>3, <1>5, <1>6 DEF CopyProgress, CopyPC, TxPC, Same, Advertises
<1> QED
  BY <1>4, <1>7

(* The statements of CopyFileIndex before its commit.                      *)
LEMMA ReadsKeep ==
  ASSUME TypeOK, NEW w \in Worker,
         NEW f \in File, NEW d \in File, NEW p \in Fp, NEW g \in Nat, CopyAs(w, f, d, p, g),
         CopyMark(w) \/ ClearTarget(w) \/ CopyParents(w) \/ MapChunks(w) \/ CopyHype(w)
           \/ (CopyChunks(w) /\ Goto(w, "copyHype"))
  PROVE  /\ CopyAs(w, f, d, p, g)' /\ job'[w].pc \in {"clear"} \cup TxPC
         /\ job'[w].run = job[w].run /\ job'[w].next = job[w].next
         /\ job'[w].failed = job[w].failed
<1>0. job[w] \in Jobs /\ job \in [Worker -> Jobs] /\ row \in [File -> FileRows]
  BY DEF TypeOK
<1>a. /\ job[w].file = f /\ job[w].donor = d /\ job[w].fp = p /\ job[w].gen = g
      /\ d # f /\ g <= row[d].gen
      /\ row[d].gen = g => Advertises(d, p)
  BY DEF CopyAs
<1>b. /\ UNCHANGED <<chunks, parents, hype>> /\ row'[d] = row[d]
  <2>1. CASE CopyMark(w)
    BY <1>0, <1>a, <2>1 DEF CopyMark, Update, index
  <2>2. CASE ~CopyMark(w)
    BY <2>2 DEF ClearTarget, CopyParents, MapChunks, CopyHype, CopyChunks, index
  <2> QED
    BY <2>1, <2>2
<1>c. g <= row'[d].gen /\ (row'[d].gen = g => Advertises(d, p)')
  BY <1>a, <1>b DEF Advertises
<1>1. CASE CopyMark(w)
  <2>1. job[w].pc = "copyMark" /\ Goto(w, "clear")
    BY <1>1 DEF CopyMark, At
  <2>2. /\ job'[w].pc = "clear" /\ job'[w].file = f /\ job'[w].donor = d /\ job'[w].fp = p
        /\ job'[w].gen = g /\ job'[w].qs = job[w].qs /\ job'[w].run = job[w].run
        /\ job'[w].next = job[w].next /\ job'[w].failed = job[w].failed
    BY <1>a, <2>1, GotoKeeps DEF PC, CopyPC
  <2>3. job[w].qs = {}
    BY <2>1 DEF CopyAs
  <2> QED
    BY <1>a, <1>c, <2>2, <2>3 DEF CopyAs, TxPC
<1>2. CASE ClearTarget(w)
  <2>1. /\ job[w].pc = "clear"
        /\ job' = [job EXCEPT ![w] = [job[w] EXCEPT !.pc = "copyParents",
                     !.old = chunks[f] \cup parents[f], !.oldQs = hype[f], !.pmap = parents[d]]]
    BY <1>0, <1>2, <1>a DEF ClearTarget, At
  <2>2. /\ job'[w].pc = "copyParents" /\ job'[w].file = f /\ job'[w].donor = d
        /\ job'[w].fp = p /\ job'[w].gen = g /\ job'[w].qs = job[w].qs
        /\ job'[w].run = job[w].run /\ job'[w].next = job[w].next
        /\ job'[w].failed = job[w].failed
    BY <1>0, <1>a, <2>1 DEF Jobs
  <2>3. /\ job'[w].old = chunks[f] \cup parents[f] /\ job'[w].oldQs = hype[f]
        /\ job'[w].pmap = parents[d]
    BY <1>0, <2>1 DEF Jobs
  <2>4. job[w].qs = {}
    BY <2>1 DEF CopyAs
  <2> QED
    BY <1>a, <1>b, <1>c, <2>2, <2>3, <2>4 DEF CopyAs, TxPC
<1>3. CASE CopyParents(w)
  <2>1. /\ job[w].pc = "copyParents"
        /\ job' = [job EXCEPT ![w] = [job[w] EXCEPT !.pc = "mapChunks",
                                         !.pmap = job[w].pmap \cap parents[d]]]
    BY <1>0, <1>3, <1>a DEF CopyParents, At
  <2>2. /\ job'[w].pc = "mapChunks" /\ job'[w].file = f /\ job'[w].donor = d
        /\ job'[w].fp = p /\ job'[w].gen = g /\ job'[w].qs = job[w].qs
        /\ job'[w].run = job[w].run /\ job'[w].next = job[w].next
        /\ job'[w].failed = job[w].failed
    BY <1>0, <1>a, <2>1 DEF Jobs
  <2>3. /\ job'[w].old = job[w].old /\ job'[w].oldQs = job[w].oldQs
        /\ job'[w].pmap = job[w].pmap \cap parents[d]
    BY <1>0, <2>1 DEF Jobs
  <2>4. /\ job[w].qs = {} /\ job[w].old = chunks[f] \cup parents[f] /\ job[w].oldQs = hype[f]
        /\ row[d].gen = g => job[w].pmap = parents[d]
    BY <2>1 DEF CopyAs, TxPC
  <2>5. row[d].gen = g => job'[w].pmap = parents[d]
    BY <2>3, <2>4
  <2> QED
    BY <1>a, <1>b, <1>c, <2>2, <2>3, <2>4, <2>5 DEF CopyAs, TxPC
<1>4. CASE MapChunks(w)
  <2> DEFINE q == IF chunks[d] = {} THEN "commit" ELSE "copyChunks"
  <2>1. /\ job[w].pc = "mapChunks"
        /\ job' = [job EXCEPT ![w] = [job[w] EXCEPT !.pc = q, !.rows = chunks[d]]]
    BY <1>0, <1>4, <1>a DEF MapChunks, At
  <2>2. q \in {"commit", "copyChunks"} /\ (q = "commit" => chunks[d] = {})
    OBVIOUS
  <2> HIDE DEF q
  <2>3. /\ job'[w].pc = q /\ job'[w].file = f /\ job'[w].donor = d
        /\ job'[w].fp = p /\ job'[w].gen = g /\ job'[w].qs = job[w].qs
        /\ job'[w].run = job[w].run /\ job'[w].next = job[w].next
        /\ job'[w].failed = job[w].failed
    BY <1>0, <1>a, <2>1 DEF Jobs
  <2>4. /\ job'[w].old = job[w].old /\ job'[w].oldQs = job[w].oldQs
        /\ job'[w].pmap = job[w].pmap /\ job'[w].rows = chunks[d]
    BY <1>0, <2>1 DEF Jobs
  <2>5. /\ job[w].qs = {} /\ job[w].old = chunks[f] \cup parents[f] /\ job[w].oldQs = hype[f]
        /\ row[d].gen = g => job[w].pmap = parents[d]
    BY <2>1 DEF CopyAs, TxPC
  <2>6. q = "commit" => job'[w].qs = job'[w].rows \cap hype'[d]
    BY <2>2, <2>3, <2>4, <2>5
  <2> QED
    BY <1>a, <1>b, <1>c, <2>2, <2>3, <2>4, <2>5, <2>6 DEF CopyAs, TxPC
<1>5. CASE CopyChunks(w) /\ Goto(w, "copyHype")
  <2>1. job[w].pc = "copyChunks"
    BY <1>5 DEF CopyChunks, At
  <2>2. /\ job'[w].pc = "copyHype" /\ job'[w].file = f /\ job'[w].donor = d
        /\ job'[w].fp = p /\ job'[w].gen = g /\ job'[w].qs = job[w].qs
        /\ job'[w].run = job[w].run /\ job'[w].next = job[w].next
        /\ job'[w].failed = job[w].failed
        /\ job'[w].old = job[w].old /\ job'[w].oldQs = job[w].oldQs
        /\ job'[w].pmap = job[w].pmap /\ job'[w].rows = job[w].rows
    BY <1>5, <1>a, GotoKeeps DEF PC, CopyPC, TxPC
  <2>3. /\ job[w].old = chunks[f] \cup parents[f] /\ job[w].oldQs = hype[f]
        /\ row[d].gen = g => job[w].pmap = parents[d] /\ job[w].rows = chunks[d]
    BY <2>1 DEF CopyAs, TxPC
  <2> QED
    BY <1>a, <1>b, <1>c, <2>2, <2>3 DEF CopyAs, TxPC
<1>6. CASE CopyHype(w)
  <2>1. /\ job[w].pc = "copyHype"
        /\ job' = [job EXCEPT ![w] = [job[w] EXCEPT !.pc = "commit",
                                         !.qs = job[w].rows \cap hype[d]]]
    BY <1>0, <1>6, <1>a DEF CopyHype, At
  <2>2. /\ job'[w].pc = "commit" /\ job'[w].file = f /\ job'[w].donor = d
        /\ job'[w].fp = p /\ job'[w].gen = g /\ job'[w].qs = job[w].rows \cap hype[d]
        /\ job'[w].run = job[w].run /\ job'[w].next = job[w].next
        /\ job'[w].failed = job[w].failed
    BY <1>0, <1>a, <2>1 DEF Jobs
  <2>3. /\ job'[w].old = job[w].old /\ job'[w].oldQs = job[w].oldQs
        /\ job'[w].pmap = job[w].pmap /\ job'[w].rows = job[w].rows
    BY <1>0, <2>1 DEF Jobs
  <2>4. /\ job[w].old = chunks[f] \cup parents[f] /\ job[w].oldQs = hype[f]
        /\ row[d].gen = g => job[w].pmap = parents[d] /\ job[w].rows = chunks[d]
    BY <2>1 DEF CopyAs, TxPC
  <2> QED
    BY <1>a, <1>b, <1>c, <2>2, <2>3, <2>4 DEF CopyAs, TxPC
<1> QED
  BY <1>1, <1>2, <1>3, <1>4, <1>5, <1>6

(* A copy of a whole index, put in the place of all that was there, is one. *)
LEMMA CommitWhole ==
  ASSUME TypeOK, TypeOK', DonorsAreWhole, NEW w \in Worker,
         NEW f \in File, NEW d \in File, NEW p \in Fp, NEW g \in Nat, CopyAs(w, f, d, p, g),
         row[d].gen = g, job[w].run \in 0..runs, CommitCopy(w)
  PROVE  IndexWhole(f, p)'
<1>0. /\ chunks \in [File -> SUBSET IndexRows] /\ parents \in [File -> SUBSET IndexRows]
      /\ hype \in [File -> SUBSET IndexRows]
  BY DEF TypeOK
<1>1. PICK k \in 0..runs : k = job[w].run
  OBVIOUS
<1>2. PICK r \in 0..runs, b \in 0..runs : WholeAs(d, p, r, b)
  BY DEF CopyAs, DonorsAreWhole, IndexWhole
<1>3. /\ job[w].pc = "commit" /\ job[w].file = f /\ UNCHANGED runs
      /\ chunks'[f] = (chunks[f] \ job[w].old) \cup Copied(job[w].rows, k)
      /\ parents'[f] = (parents[f] \ job[w].old) \cup Copied(job[w].pmap, k)
      /\ hype'[f] = (hype[f] \ job[w].oldQs) \cup Copied(job[w].qs, k)
  <2>1. job[w].file = f
    BY DEF CopyAs
  <2> QED
    BY <1>0, <1>1, <2>1 DEF CommitCopy, At
<1>4. /\ job[w].old = chunks[f] \cup parents[f] /\ job[w].oldQs = hype[f]
      /\ job[w].pmap = parents[d] /\ job[w].rows = chunks[d]
      /\ job[w].qs = chunks[d] \cap hype[d]
  BY <1>3 DEF CopyAs, TxPC
<1>5. /\ chunks'[f] = Copied(chunks[d], k) /\ parents'[f] = Copied(parents[d], k)
      /\ hype'[f] = Copied(chunks[d] \cap hype[d], k)
  <2>1. /\ chunks[f] \ job[w].old = {} /\ parents[f] \ job[w].old = {}
        /\ hype[f] \ job[w].oldQs = {}
    BY <1>4
  <2> QED
    BY <1>3, <1>4, <2>1
<1>6. \A x : [IndexRow(r, b, p, x) EXCEPT !.run = k] = IndexRow(k, b, p, x)
  BY DEF IndexRow
<1>7. ASSUME NEW P
      PROVE  Copied({IndexRow(r, b, p, x) : x \in P}, k) = {IndexRow(k, b, p, x) : x \in P}
  BY <1>6 DEF Copied
<1>8. chunks'[f] = {IndexRow(k, b, p, x) : x \in Pieces(p)}
  <2>1. chunks[d] = {IndexRow(r, b, p, x) : x \in Pieces(p)}
    BY <1>2 DEF WholeAs
  <2>2. chunks'[f] = Copied({IndexRow(r, b, p, x) : x \in Pieces(p)}, k)
    BY <1>5, <2>1
  <2> QED
    BY <1>7, <2>2
<1>9. parents'[f] = IF p \in ParentChild THEN {IndexRow(k, b, p, Parent)} ELSE {}
  <2>1. CASE p \in ParentChild
    <3>1. parents[d] = {IndexRow(r, b, p, Parent)}
      BY <1>2, <2>1 DEF WholeAs
    <3>2. Copied(parents[d], k) = {IndexRow(k, b, p, Parent)}
      BY <1>6, <3>1 DEF Copied
    <3> QED
      BY <1>5, <2>1, <3>2
  <2>2. CASE p \notin ParentChild
    <3>1. parents[d] = {}
      BY <1>2, <2>2 DEF WholeAs
    <3>2. Copied(parents[d], k) = {}
      BY <3>1 DEF Copied
    <3> QED
      BY <1>5, <2>2, <3>2
  <2> QED
    BY <2>1, <2>2
<1>10. p \notin ParentChild => {IndexRow(k, b, p, x) : x \in Leaf} \subseteq hype'[f]
  <2> SUFFICES ASSUME p \notin ParentChild, NEW x \in Leaf
               PROVE  IndexRow(k, b, p, x) \in hype'[f]
    OBVIOUS
  <2>1. /\ {IndexRow(r, b, p, y) : y \in Leaf} \subseteq hype[d]
        /\ chunks[d] = {IndexRow(r, b, p, y) : y \in Pieces(p)}
        /\ Leaf \subseteq Pieces(p)
    BY <1>2 DEF WholeAs, Pieces
  <2>2. IndexRow(r, b, p, x) \in chunks[d] \cap hype[d]
    BY <2>1
  <2>3. [IndexRow(r, b, p, x) EXCEPT !.run = k] \in Copied(chunks[d] \cap hype[d], k)
    BY <2>2 DEF Copied
  <2> QED
    BY <1>5, <1>6, <2>3
<1>11. WholeAs(f, p, k, b)'
  BY <1>8, <1>9, <1>10 DEF WholeAs
<1>12. k \in 0..runs' /\ b \in 0..runs'
  BY <1>3
<1> QED
  BY <1>11, <1>12 DEF IndexWhole

LEMMA CommitProgress ==
  ASSUME TypeOK, TypeOK', DonorsAreWhole, NEW w \in Worker, BuildProgress(w),
         NEW f \in File, NEW d \in File, NEW p \in Fp, NEW g \in Nat, CopyAs(w, f, d, p, g),
         CommitCopy(w), job[w].rows # {}
  PROVE  /\ CopyAs(w, f, d, p, g)' /\ job'[w].pc = "recheck"
         /\ job'[w].run = job[w].run /\ job'[w].next = job[w].next
         /\ job'[w].failed = job[w].failed
<1>0. job[w] \in Jobs /\ job \in [Worker -> Jobs]
  BY DEF TypeOK
<1>1. /\ job[w].pc = "commit" /\ UNCHANGED row
      /\ job' = [job EXCEPT ![w] = [job[w] EXCEPT !.pc = "recheck", !.pmap = {}, !.rows = {},
                                       !.qs = {}, !.old = {}, !.oldQs = {}]]
  BY <1>0 DEF CommitCopy, At
<1>2. /\ job[w].file = f /\ job[w].donor = d /\ job[w].fp = p /\ job[w].gen = g
      /\ d # f /\ g <= row[d].gen
      /\ row[d].gen = g => Advertises(d, p)
  BY DEF CopyAs
<1>3. /\ job'[w].pc = "recheck" /\ job'[w].file = f /\ job'[w].donor = d /\ job'[w].fp = p
      /\ job'[w].gen = g /\ job'[w].run = job[w].run /\ job'[w].next = job[w].next
      /\ job'[w].failed = job[w].failed
  BY <1>0, <1>1, <1>2 DEF Jobs
<1>4. job[w].run \in 0..runs
  BY <1>1 DEF BuildProgress
<1>5. row[d].gen = g => IndexWhole(f, p)'
  BY <1>4, CommitWhole
<1> QED
  BY <1>1, <1>2, <1>3, <1>5 DEF CopyAs, TxPC, Advertises

LEMMA RecheckProgress ==
  ASSUME TypeOK, TypeOK', NEW w \in Worker,
         NEW f \in File, NEW d \in File, NEW p \in Fp, NEW g \in Nat, CopyAs(w, f, d, p, g),
         Recheck(w), DonorStillValid(w), Goto(w, "markCopied")
  PROVE  /\ CopyAs(w, f, d, p, g)' /\ job'[w].pc = "markCopied"
         /\ job'[w].run = job[w].run /\ job'[w].next = job[w].next
         /\ job'[w].failed = job[w].failed
<1>1. job[w].pc = "recheck" /\ UNCHANGED <<row, chunks, parents, hype, runs>>
  BY DEF Recheck, At, index
<1>2. /\ job[w].file = f /\ job[w].donor = d /\ job[w].fp = p /\ job[w].gen = g
      /\ d # f /\ g <= row[d].gen
      /\ row[d].gen = g => Advertises(d, p)
  BY DEF CopyAs
<1>3. /\ job'[w].pc = "markCopied" /\ job'[w].file = f /\ job'[w].donor = d /\ job'[w].fp = p
      /\ job'[w].gen = g /\ job'[w].run = job[w].run /\ job'[w].next = job[w].next
      /\ job'[w].failed = job[w].failed
  BY <1>2, GotoKeeps DEF PC, CopyPC
<1>4. row[d].gen = g
  BY <1>2 DEF DonorStillValid
<1>5. IndexWhole(f, p)
  BY <1>1, <1>4 DEF CopyAs
<1>6. IndexWhole(f, p)'
  BY <1>1, <1>5 DEF IndexWhole, WholeAs
<1> QED
  BY <1>1, <1>2, <1>3, <1>6 DEF CopyAs, TxPC, Advertises

LEMMA CopyStepProgress ==
  ASSUME TypeOK, TypeOK', DonorsAreWhole, NEW w \in Worker,
         BuildProgress(w), CopyProgress(w), CopyStep(w)
  PROVE  BuildProgress(w)' /\ CopyProgress(w)'
<1>1. CASE SkipCopy(w) \/ CopyFails(w)
  <2>1. /\ ~At(w, "idle") /\ UNCHANGED runs
        /\ (Drop(w, "clean") \/ Drop(w, "guard"))
    BY <1>1 DEF SkipCopy, CopyFails, At, TxPC
  <2> QED
    BY <2>1, DropProgress
<1>2. ASSUME NEW d \in File, FindCopyDonor(w, d) PROVE BuildProgress(w)' /\ CopyProgress(w)'
  BY <1>2, FindProgress
<1>3. CASE MarkCopied(w)
  BY <1>3, EndProgress DEF MarkCopied
<1>4. CASE CleanChunks(w) \/ CleanParents(w) \/ CleanHype(w)
  <2>1. /\ job[w].pc \in CleanPC /\ UNCHANGED runs
        /\ \E p \in {"cleanParents", "cleanHype", "guard"} : Goto(w, p)
    BY <1>4 DEF CleanChunks, CleanParents, CleanHype, At, CleanPC
  <2>2. ~At(w, "idle") /\ job[w].pc \notin EmbedPC
    BY <2>1 DEF At, CleanPC, EmbedPC
  <2> QED
    BY <2>1, <2>2, PlainProgress
<1>5. CASE \/ CopyMark(w) \/ ClearTarget(w) \/ CopyParents(w) \/ MapChunks(w)
           \/ CopyChunks(w) \/ CopyHype(w) \/ CommitCopy(w) \/ Recheck(w)
  <2>1. /\ job[w].pc \in CopyPC \ {"lookup"} /\ ~At(w, "idle") /\ UNCHANGED runs
    BY <1>5 DEF CopyMark, ClearTarget, CopyParents, MapChunks, CopyChunks, CopyHype,
                CommitCopy, Recheck, At, CopyPC, TxPC
  <2>2. job[w].file \in File /\ job[w] \in Jobs /\ job[w].donor \in File
    BY <2>1, FileOfJob DEF TypeOK
  <2>3. PICK f \in File, d \in File, p \in Fp, g \in Nat :
          f = job[w].file /\ d = job[w].donor /\ p = job[w].fp /\ g = job[w].gen
    <3>1. job[w].fp \in Fp
      BY <2>1 DEF CopyProgress
    <3>2. job[w].gen \in Nat
      BY <2>2 DEF Jobs
    <3> QED
      BY <2>2, <3>1, <3>2
  <2>4. CopyAs(w, f, d, p, g)
    BY <2>1, <2>3, CopyToAs
  <2>5. CASE Drop(w, "clean")
    BY <2>1, <2>5, DropProgress
  <2>6. CASE ~Drop(w, "clean")
    <3>1. /\ CopyAs(w, f, d, p, g)' /\ job'[w].pc \in CopyPC \ {"lookup"}
          /\ job'[w].run = job[w].run /\ job'[w].next = job[w].next
          /\ job'[w].failed = job[w].failed
      <4>1. CASE CopyMark(w) \/ ClearTarget(w) \/ CopyParents(w) \/ MapChunks(w) \/ CopyHype(w)
        BY <2>4, <4>1, ReadsKeep DEF CopyPC, TxPC
      <4>2. CASE CopyChunks(w)
        <5>1. Goto(w, "copyHype")
          BY <2>6, <4>2 DEF CopyChunks
        <5> QED
          BY <2>4, <4>2, <5>1, ReadsKeep DEF CopyPC, TxPC
      <4>3. CASE CommitCopy(w)
        <5>1. job[w].rows # {}
          BY <2>6, <4>3 DEF CommitCopy
        <5> QED
          BY <2>4, <4>3, <5>1, CommitProgress DEF CopyPC
      <4>4. CASE Recheck(w)
        <5>1. DonorStillValid(w) /\ Goto(w, "markCopied")
          BY <2>6, <4>4 DEF Recheck
        <5> QED
          BY <2>4, <4>4, <5>1, RecheckProgress DEF CopyPC
      <4> QED
        BY <1>5, <4>1, <4>2, <4>3, <4>4
    <3>2. CopyProgress(w)'
      BY <3>1, AsToCopy
    <3>3. job'[w].pc \in CopyPC /\ job[w].pc \in CopyPC
      BY <2>1, <3>1
    <3>4. BuildProgress(w)'
      BY <2>1, <3>1, <3>3, CopyNoBuild
    <3> QED
      BY <3>2, <3>4
  <2> QED
    BY <2>5, <2>6
<1> QED
  BY <1>1, <1>2, <1>3, <1>4, <1>5 DEF CopyStep

(***************************************************************************)
(* The progress of the run that steps.                                     *)
(***************************************************************************)
LEMMA StartProgress ==
  ASSUME TypeOK, NEW w \in Worker, NEW f \in File, NEW k \in Kind, StartTask(w, f, k)
  PROVE  BuildProgress(w)' /\ CopyProgress(w)'
<1>1. /\ job'[w].pc = (IF k = "reembed" THEN "preflight" ELSE "lookup")
      /\ job'[w].fp = (IF k = "reembed" THEN NoFp ELSE cfg[f])
      /\ job'[w].run = runs + 1 /\ job'[w].next = 1 /\ job'[w].failed = {}
      /\ job'[w].qs = {} /\ runs' = runs + 1
  BY DEF StartTask, TypeOK, NoJob
<1>2. job'[w].run \in 0..runs'
  BY <1>1 DEF TypeOK
<1>3. job'[w].pc \in {"preflight", "lookup"}
  BY <1>1
<1>4. job'[w].pc \notin ConfigPC
  BY <1>3 DEF ConfigPC, BuildPC, TailPC
<1>5. BuildProgress(w)'
  BY <1>1, <1>2, <1>4, NoBuild
<1>6. CopyProgress(w)'
  <2>1. CASE k = "reembed"
    BY <1>1, <2>1, NoCopy DEF CopyPC, TxPC
  <2>2. CASE k # "reembed"
    <3>1. job'[w].fp \in Fp /\ job'[w].pc = "lookup"
      BY <1>1, <2>2 DEF TypeOK
    <3> QED
      BY <1>1, <3>1 DEF CopyProgress, CopyPC, TxPC
  <2> QED
    BY <2>1, <2>2
<1> QED
  BY <1>5, <1>6

LEMMA OwnProgress ==
  ASSUME Calm, IInv, TypeOK', NEW w \in Worker, WorkerStep(w)
  PROVE  BuildProgress(w)' /\ CopyProgress(w)'
<1>1. TypeOK /\ DonorsAreWhole /\ BuildProgress(w) /\ CopyProgress(w)
  BY DEF IInv, RetireInv
<1>2. CASE WorkerCrash(w) \/ AttemptFails(w) \/ LastAttemptFails(w)
  <2>1. End(w)
    BY <1>2 DEF WorkerCrash, AttemptFails, LastAttemptFails
  <2> QED
    BY <1>1, <2>1, EndProgress
<1>3. CASE CopyStep(w)
  BY <1>1, <1>3, CopyStepProgress
<1>4. CASE IngestStep(w)
  BY <1>1, <1>4, IngestProgress
<1> QED
  BY <1>1, <1>2, <1>3, <1>4, StartProgress DEF WorkerStep

(***************************************************************************)
(* The progress of the others.                                             *)
(***************************************************************************)
LEMMA SameRuns ==
  ASSUME NEW w \in Worker, WorkerStep(w), ~ \E f \in File, k \in Kind : StartTask(w, f, k)
  PROVE  runs' = runs
<1>1. CASE CopyStep(w)
  BY <1>1 DEF CopyStep, SkipCopy, FindCopyDonor, CopyMark, ClearTarget, CopyParents,
       MapChunks, CopyChunks, CopyHype, CommitCopy, CopyFails, Recheck, MarkCopied,
       CleanChunks, CleanParents, CleanHype
<1>2. CASE IngestStep(w)
  BY <1>2 DEF IngestStep, Preflight, ReembedMark, ReembedDeleteChunks, ReembedDeleteParents,
       Guard, MarkProcessing, DeleteOldChunks, DeleteOldParents, Parse, InsertParents,
       EmbedChildren, EmbedBatch, FinishFlat, FinishParentChild, HypeStage, HypeChunk,
       Raptor, Stamp, FinalProgress, RowGoneNoticed
<1>3. CASE WorkerCrash(w) \/ AttemptFails(w) \/ LastAttemptFails(w)
  BY <1>3 DEF WorkerCrash, AttemptFails, LastAttemptFails
<1>. QED BY <1>1, <1>2, <1>3 DEF WorkerStep

LEMMA FileRunsKept ==
  ASSUME NEW f \in File, FileStep(f)
  PROVE  runs' = runs
BY DEF FileStep, Upload, Reembed, Retry, StuckSweep, ChangeConfig, DropTask, DeleteFile,
       CascadeChunks, CascadeHype, CascadeParents, DeleteRow

LEMMA RunsGrow ==
  ASSUME TypeOK, Next
  PROVE  runs' >= runs
<1>1. runs' = runs \/ runs' = runs + 1
  <2>1. ASSUME NEW f \in File, FileStep(f) PROVE runs' = runs
    BY <2>1, FileRunsKept
  <2>2. ASSUME NEW w \in Worker, WorkerStep(w) PROVE runs' = runs \/ runs' = runs + 1
    <3>1. CASE \E f \in File, k \in Kind : StartTask(w, f, k)
      BY <3>1 DEF StartTask
    <3> QED
      BY <2>2, <3>1, SameRuns
  <2> QED
    BY <2>1, <2>2 DEF Next
<1> QED
  BY <1>1 DEF TypeOK

LEMMA OthersProgress ==
  ASSUME Calm, IInv, TypeOK', NEW w \in Worker, WorkerStep(w), NEW v \in Worker, v # w
  PROVE  BuildProgress(v)' /\ CopyProgress(v)'
<1>1. RetireInv /\ TypeOK /\ Exclusive /\ BuildProgress(v) /\ CopyProgress(v)
  BY DEF IInv, RetireInv
<1>2. Next
  BY DEF Next
<1>3. Local(w) /\ job'[v] = job[v] /\ UNCHANGED cfg
  BY <1>1, WorkerLocal DEF Local
<1>4. ASSUME ~At(v, "idle") PROVE SameIndex(job[v].file)
  <2>1. CASE \E f \in File, k \in Kind : StartTask(w, f, k)
    BY <2>1 DEF StartTask, index, SameIndex
  <2>2. CASE ~ \E f \in File, k \in Kind : StartTask(w, f, k)
    <3>1. job[v].file # job[w].file /\ job[v].file \in File
      BY <1>1, <1>4, <2>2, FileOfJob, WorkerDisciplined DEF Exclusive
    <3> QED
      BY <1>3, <3>1 DEF Local, SameIndex
  <2> QED
    BY <2>1, <2>2
<1>5. runs' >= runs
  BY <1>1, <1>2, RunsGrow
<1>6. \A d \in File : DonorRely(d)
  BY <1>1, <1>2, CalmIsOrderly, DonorRelyStep
<1>7. BuildProgress(v)'
  BY <1>1, <1>3, <1>4, <1>5, BuildRely
<1>8. CopyProgress(v)'
  BY <1>1, <1>3, <1>4, <1>5, <1>6, CopyRely
<1> QED
  BY <1>7, <1>8

LEMMA FileProgress ==
  ASSUME Calm, IInv, TypeOK', NEW f \in File, FileStep(f), NEW v \in Worker
  PROVE  BuildProgress(v)' /\ CopyProgress(v)'
<1>1. RetireInv /\ TypeOK /\ BuildProgress(v) /\ CopyProgress(v)
  BY DEF IInv, RetireInv
<1>2. Next
  BY DEF Next
<1>3. FileLocal(f) /\ job'[v] = job[v]
  BY <1>1, CalmIsOrderly, FileStepLocal DEF FileLocal, FileAlone
<1>4. ASSUME ~At(v, "idle") PROVE SameIndex(job[v].file)
  <2>1. job[v].file \in File /\ Busy(job[v].file)
    BY <1>1, <1>4, FileOfJob DEF Busy
  <2> QED
    BY <1>3, <2>1 DEF FileLocal, FileAlone, SameIndex
<1>5. ASSUME job[v].pc \in ConfigPC PROVE cfg'[job[v].file] = cfg[job[v].file]
  <2>1. CASE ChangeConfig(f)
    <3>1. ~Ingesting(f)
      BY <2>1 DEF ChangeConfig, Calm
    <3>2. job[v].file # f
      BY <1>5, <3>1 DEF Ingesting, ConfigPC
    <3> QED
      BY <1>1, <2>1, <3>2 DEF ChangeConfig, TypeOK
  <2>2. CASE ~ChangeConfig(f)
    BY <2>2 DEF FileStep, Upload, Reembed, Retry, StuckSweep, DropTask, DeleteFile,
                CascadeChunks, CascadeHype, CascadeParents, DeleteRow
  <2> QED
    BY <2>1, <2>2
<1>6. runs' >= runs
  BY <1>1, <1>2, RunsGrow
<1>7. \A d \in File : DonorRely(d)
  BY <1>1, <1>2, CalmIsOrderly, DonorRelyStep
<1>8. BuildProgress(v)'
  BY <1>1, <1>3, <1>4, <1>5, <1>6, BuildRely
<1>9. CopyProgress(v)'
  BY <1>1, <1>3, <1>4, <1>6, <1>7, CopyRely
<1> QED
  BY <1>8, <1>9

(***************************************************************************)
(* The donors stay whole, and only whole indexes become donors.            *)
(***************************************************************************)

(* Who writes a row.                                                       *)
LEMMA RowWriters ==
  ASSUME TypeOK, NEW w \in Worker, WorkerStep(w), ~UNCHANGED row
  PROVE  \/ CopyMark(w) \/ ReembedMark(w) \/ MarkProcessing(w)
         \/ LastAttemptFails(w) \/ FinishFlat(w) \/ FinishParentChild(w)
         \/ Stamp(w) \/ FinalProgress(w) \/ MarkCopied(w)
<1>1. CASE CopyStep(w)
  BY <1>1 DEF CopyStep, SkipCopy, FindCopyDonor, ClearTarget, CopyParents, MapChunks,
       CopyChunks, CopyHype, CommitCopy, CopyFails, Recheck, CleanChunks, CleanParents, CleanHype
<1>2. CASE IngestStep(w)
  BY <1>2 DEF IngestStep, Preflight, ReembedDeleteChunks, ReembedDeleteParents, Guard,
       DeleteOldChunks, DeleteOldParents, Parse, InsertParents, EmbedChildren, EmbedBatch,
       HypeStage, HypeChunk, Raptor, RowGoneNoticed
<1>3. CASE WorkerCrash(w) \/ AttemptFails(w)
  BY <1>3 DEF WorkerCrash, AttemptFails
<1>4. ASSUME NEW f \in File, NEW k \in Kind, StartTask(w, f, k) PROVE UNCHANGED row
  BY <1>4 DEF StartTask
<1> QED
  BY <1>1, <1>2, <1>3, <1>4 DEF WorkerStep

(* The stamp of an ingest: c are the settings of the run, r is its number. *)
LEMMA StampBuild ==
  ASSUME TypeOK, TypeOK', NEW w \in Worker, BuildProgress(w), Stamp(w),
         NEW f \in File, f = job[w].file, row'[f] # row[f],
         NEW p \in Fp, row'[f].fp = p
  PROVE  \E r \in 0..runs : r = job[w].run /\ p = job[w].fp /\ WholeAs(f, p, r, r)'
<1>1. /\ job[w].pc \in {"stamp", "stampPC"} /\ job[w].fp # NoFp /\ job[w].failed = {}
      /\ ~job[w].degraded /\ UNCHANGED <<cfg, chunks, parents, hype, runs>>
      /\ row' = [row EXCEPT ![f] = [row[f] EXCEPT !.fp = job[w].fp]]
  BY DEF Stamp, Update, index
<1>2. job[w] \in Jobs /\ row[f] \in FileRows /\ row \in [File -> FileRows] /\ cfg[f] \in Fp
  BY DEF TypeOK
<1>3. row'[f].fp = job[w].fp
  BY <1>1, <1>2 DEF FileRows
<1>4. PICK c \in Fp, r \in Nat, n \in Nat, bad \in SUBSET Nat :
        c = cfg[f] /\ r = job[w].run /\ n = job[w].next /\ bad = job[w].failed
  BY <1>2 DEF Jobs
<1>5. job[w].pc \in ConfigPC
  BY <1>1 DEF ConfigPC, TailPC
<1>6. BuildAs(w, f, c, r, n, bad)
  BY <1>4, <1>5, BuildToAs
<1>7. c = p /\ bad = {} /\ r \in 0..runs
  BY <1>1, <1>3, <1>4, <1>6 DEF BuildAs
<1>8. WholeAs(f, c, r, r)
  <2>1. CASE job[w].pc = "stampPC"
    <3>1. /\ c \in ParentChild /\ parents[f] = {IndexRow(r, r, c, Parent)}
          /\ chunks[f] = Rows(r, c, Leaf \ bad)
      BY <2>1, <1>6 DEF BuildAs
    <3>2. Leaf \ bad = Leaf /\ Pieces(c) = Leaf
      BY <1>7, <3>1 DEF Pieces
    <3> QED
      BY <3>1, <3>2 DEF WholeAs, Rows
  <2>2. CASE job[w].pc = "stamp"
    <3>1. /\ c \notin ParentChild /\ parents[f] = {}
          /\ chunks[f] = Rows(r, c, Leaf \cup {Tree}) /\ Rows(r, c, Leaf) \subseteq hype[f]
      BY <1>1, <1>7, <2>2, <1>6 DEF BuildAs
    <3>2. Pieces(c) = Leaf \cup {Tree}
      BY <3>1 DEF Pieces
    <3> QED
      BY <3>1, <3>2 DEF WholeAs, Rows
  <2> QED
    BY <1>1, <2>1, <2>2
<1>9. WholeAs(f, c, r, r)'
  BY <1>1, <1>8 DEF WholeAs
<1> QED
  BY <1>3, <1>4, <1>7, <1>9

LEMMA StampWhole ==
  ASSUME TypeOK, TypeOK', NEW w \in Worker, BuildProgress(w), Stamp(w),
         NEW f \in File, f = job[w].file, row'[f] # row[f],
         NEW p \in Fp, row'[f].fp = p
  PROVE  IndexWhole(f, p)'
<1>1. PICK r \in 0..runs : WholeAs(f, p, r, r)'
  BY StampBuild
<1>2. runs' = runs
  BY DEF Stamp
<1> QED
  BY <1>1, <1>2 DEF IndexWhole

LEMMA WorkerDonors ==
  ASSUME Calm, IInv, TypeOK', NEW w \in Worker, WorkerStep(w)
  PROVE  DonorsAreWhole'
<1> SUFFICES ASSUME NEW g \in File, NEW p \in Fp, Advertises(g, p)'
             PROVE  IndexWhole(g, p)'
  BY DEF DonorsAreWhole
<1>0. RetireInv /\ TypeOK /\ RebuildRetiresDonor /\ BuildProgress(w) /\ CopyProgress(w)
  BY DEF IInv, RetireInv
<1>1. Next
  BY DEF Next
<1>2. DonorRely(g) /\ runs' >= runs /\ Local(w)
  BY <1>0, <1>1, CalmIsOrderly, DonorRelyStep, RunsGrow, WorkerLocal
<1>3. row'[g].status = "completed" /\ row'[g].fp = p /\ p # NoFp
  BY FpAssumption DEF Advertises
<1>4. ASSUME Advertises(g, p), SameIndex(g) PROVE IndexWhole(g, p)'
  BY <1>0, <1>2, <1>4, WholeKept DEF IInv, DonorsAreWhole
<1>5. CASE row'[g] = row[g]
  <2>1. Advertises(g, p) /\ CopyDonor(g)
    BY <1>3, <1>5 DEF Advertises, CopyDonor
  <2> QED
    BY <1>2, <1>4, <2>1 DEF DonorRely
<1>6. CASE row'[g] # row[g]
  <2>1. g = job[w].file
    BY <1>2, <1>6 DEF Local
  <2>2. row[g] \in FileRows /\ row \in [File -> FileRows] /\ job[w] \in Jobs
    BY <1>0 DEF TypeOK
  <2>3. ASSUME NEW r, Update(g, r) PROVE row'[g] = r
    BY <1>6, <2>2, <2>3 DEF Update
  <2>4. CASE CopyMark(w) \/ ReembedMark(w) \/ MarkProcessing(w)
    <3>1. row'[g] = Processing(row[g])
      BY <2>1, <2>3, <2>4 DEF CopyMark, ReembedMark, MarkProcessing
    <3> QED
      BY <1>3, <2>2, <3>1, ProcessingWrite
  <2>5. CASE LastAttemptFails(w)
    <3>1. row'[g] = [row[g] EXCEPT !.status = "error"]
      BY <1>6, <2>1, <2>3, <2>5 DEF LastAttemptFails
    <3> QED
      BY <1>3, <2>2, <3>1 DEF FileRows
  <2>6. CASE FinishFlat(w) \/ FinishParentChild(w)
    <3>1. \E s \in Status : row'[g] = [row[g] EXCEPT !.status = s]
      BY <1>6, <2>1, <2>3, <2>6 DEF FinishFlat, FinishParentChild, Status
    <3>2. row'[g].fp = row[g].fp
      BY <2>2, <3>1 DEF FileRows
    <3>3. job[w].pc \in TakenPC
      BY <2>6, TakenSets DEF FinishFlat, FinishParentChild, At, BuildPC
    <3>4. row[g].fp = NoFp
      BY <1>0, <2>1, <3>3 DEF RebuildRetiresDonor, TakenApart
    <3> QED
      BY <1>3, <3>2, <3>4
  <2>7. CASE Stamp(w)
    BY <1>0, <1>3, <1>6, <2>1, <2>7, StampWhole
  <2>8. CASE FinalProgress(w)
    <3>1. row'[g] = Touched(row[g])
      BY <2>1, <2>3, <2>8 DEF FinalProgress
    <3>2. row'[g].status = row[g].status /\ row'[g].fp = row[g].fp
      BY <2>2, <3>1 DEF Touched, FileRows
    <3>3. Advertises(g, p) /\ SameIndex(g)
      BY <1>3, <2>8, <3>2 DEF Advertises, FinalProgress, index, SameIndex
    <3> QED
      BY <1>4, <3>3
  <2>9. CASE MarkCopied(w)
    <3>1. row'[g] = [Touched(row[g]) EXCEPT !.status = "completed", !.fp = job[w].fp]
      BY <2>1, <2>3, <2>9 DEF MarkCopied
    <3>2. Touched(row[g]) \in FileRows
      BY <2>2, RowType
    <3>3. p = job[w].fp
      BY <1>3, <3>1, <3>2 DEF FileRows
    <3>4. IndexWhole(g, p)
      BY <1>0, <2>1, <2>9, <3>3 DEF CopyProgress, CopyIsWhole, MarkCopied, At
    <3>5. SameIndex(g)
      BY <2>9 DEF MarkCopied, index, SameIndex
    <3> QED
      BY <1>0, <1>2, <3>4, <3>5, WholeKept
  <2> QED
    BY <1>0, <1>6, <2>4, <2>5, <2>6, <2>7, <2>8, <2>9, RowWriters
<1> QED
  BY <1>5, <1>6

(* No request and no deletion makes a donor.                               *)
LEMMA DonorRowKept ==
  ASSUME TypeOK, NEW f \in File, FileStep(f), NEW g \in File,
         row'[g].status = "completed", row'[g].fp # NoFp
  PROVE  row'[g] = row[g]
<1>1. row[g] \in FileRows /\ row \in [File -> FileRows]
  BY DEF TypeOK
<1>2. CASE Upload(f) \/ Retry(f) \/ StuckSweep(f)
  BY <1>1, <1>2 DEF Upload, Retry, StuckSweep, FileRows
<1>3. CASE DeleteFile(f)
  <2>1. \/ row' = row
        \/ row' = [row EXCEPT ![f] = [Touched(row[f]) EXCEPT !.fp = NoFp]]
    BY <1>1, <1>3 DEF DeleteFile
  <2>2. g = f => Touched(row[f]) \in FileRows
    BY <1>1, RowType
  <2>. QED BY <1>1, <2>1, <2>2 DEF FileRows
<1>4. CASE DeleteRow(f)
  BY <1>1, <1>4 DEF DeleteRow, FileRows
<1>5. CASE \/ Reembed(f) \/ ChangeConfig(f) \/ DropTask(f)
           \/ CascadeChunks(f) \/ CascadeHype(f) \/ CascadeParents(f)
  BY <1>5 DEF Reembed, ChangeConfig, DropTask, CascadeChunks, CascadeHype, CascadeParents
<1>. QED BY <1>2, <1>3, <1>4, <1>5 DEF FileStep

LEMMA FileDonors ==
  ASSUME Calm, IInv, TypeOK', NEW f \in File, FileStep(f)
  PROVE  DonorsAreWhole'
<1> SUFFICES ASSUME NEW g \in File, NEW p \in Fp, Advertises(g, p)'
             PROVE  IndexWhole(g, p)'
  BY DEF DonorsAreWhole
<1>0. RetireInv /\ TypeOK
  BY DEF IInv, RetireInv
<1>1. Next
  BY DEF Next
<1>2. DonorRely(g) /\ runs' >= runs /\ FileLocal(f)
  BY <1>0, <1>1, CalmIsOrderly, DonorRelyStep, RunsGrow, FileStepLocal
<1>3. row'[g].status = "completed" /\ row'[g].fp = p /\ p # NoFp
  BY FpAssumption DEF Advertises
<1>5. row'[g] = row[g]
  BY <1>0, <1>3, DonorRowKept
<1>6. Advertises(g, p) /\ CopyDonor(g)
  BY <1>3, <1>5 DEF Advertises, CopyDonor
<1>7. SameIndex(g)
  BY <1>2, <1>6 DEF DonorRely
<1> QED
  BY <1>0, <1>2, <1>6, <1>7, WholeKept DEF IInv, DonorsAreWhole

LEMMA InitIInv == Init => IInv
<1> SUFFICES ASSUME Init PROVE IInv
  OBVIOUS
<1>1. RetireInv
  BY InitRetire
<1>2. DonorsAreWhole
  BY FpAssumption DEF Init, DonorsAreWhole, Advertises
<1>3. ASSUME NEW w \in Worker PROVE BuildProgress(w) /\ CopyProgress(w)
  <2>1. job[w].pc = "idle" /\ job[w].next = 1 /\ job[w].failed = {}
    BY DEF Init, NoJob
  <2> QED
    BY <2>1 DEF BuildProgress, CopyProgress, EmbedPC, BuildPC, TailPC, CopyPC, TxPC
<1> QED
  BY <1>1, <1>2, <1>3 DEF IInv

LEMMA IInvStep ==
  ASSUME Calm, IInv, [Next]_vars
  PROVE  IInv'
<1>1. RetireInv'
  BY CalmIsOrderly, RetireStep DEF IInv
<1>2. TypeOK'
  BY <1>1 DEF RetireInv
<1>3. ASSUME NEW f \in File, FileStep(f) PROVE IInv'
  BY <1>1, <1>2, <1>3, FileDonors, FileProgress DEF IInv
<1>4. ASSUME NEW w \in Worker, WorkerStep(w) PROVE IInv'
  <2>1. \A v \in Worker : BuildProgress(v)' /\ CopyProgress(v)'
    BY <1>2, <1>4, OwnProgress, OthersProgress
  <2> QED
    BY <1>1, <1>2, <1>4, <2>1, WorkerDonors DEF IInv
<1>5. CASE UNCHANGED vars
  <2>1. UNCHANGED <<row, cfg, chunks, parents, hype, del, queue, job, runs>>
    BY <1>5 DEF vars
  <2>2. RetireInv /\ TypeOK /\ runs' >= runs
    BY <2>1 DEF IInv, RetireInv, TypeOK
  <2>3. \A f \in File : SameIndex(f) /\ DonorRely(f)
    BY <2>1, <2>2 DEF SameIndex, DonorRely, TypeOK, FileRows
  <2>4. DonorsAreWhole'
    <3> SUFFICES ASSUME NEW g \in File, NEW p \in Fp, Advertises(g, p)'
                 PROVE  IndexWhole(g, p)'
      BY DEF DonorsAreWhole
    <3>1. Advertises(g, p)
      BY <2>1 DEF Advertises
    <3>2. IndexWhole(g, p)
      BY <3>1 DEF IInv, DonorsAreWhole
    <3> QED
      BY <1>2, <2>2, <2>3, <3>2, WholeKept
  <2>5. ASSUME NEW v \in Worker PROVE BuildProgress(v)' /\ CopyProgress(v)'
    <3>1. ~At(v, "idle") => SameIndex(job[v].file)
      BY <2>1 DEF SameIndex
    <3>2. BuildProgress(v) /\ CopyProgress(v) /\ job'[v] = job[v] /\ UNCHANGED cfg
      BY <2>1 DEF IInv
    <3>3. BuildProgress(v)'
      BY <1>2, <2>2, <3>1, <3>2, BuildRely
    <3>4. CopyProgress(v)'
      BY <1>2, <2>2, <2>3, <3>1, <3>2, CopyRely
    <3> QED
      BY <3>3, <3>4
  <2> QED
    BY <1>1, <2>4, <2>5 DEF IInv
<1> QED
  BY <1>3, <1>4, <1>5 DEF Next

(* However runs of different files, copies, requests, retries, failed       *)
(* batches, crashes and deletes interleave: a row that advertises itself as *)
(* a copy donor has one whole build under the settings of its fingerprint   *)
(* (tryCopy, CopyFileIndex, DonorStillValid, recordIndexFingerprint).       *)
THEOREM DonorsWhole ==
  ASSUME Calm
  PROVE  Spec => []DonorIndexWhole
<1>1. IInv /\ [Next]_vars => IInv'
  BY IInvStep
<1>2. IInv => DonorIndexWhole
  BY DEF IInv, RetireInv, TypeOK, FileRows, DonorsAreWhole, DonorIndexWhole, CopyDonor
<1> QED
  BY InitIInv, <1>1, <1>2, PTL DEF Spec

-----------------------------------------------------------------------------
(***************************************************************************)
(* What a file that says 'completed' has, whether or not it is a donor.    *)
(***************************************************************************)

(* Places at which the index of a file is in pieces and its row must not    *)
(* say 'completed': from the statement after the mark to the final status.  *)
NotReadyPC == TakenPC \ TailPC

Hidden(w) ==
  job[w].pc \in NotReadyPC => \A f \in File : f = job[w].file => row[f].status # "completed"

(* What a step of a run does to a file that says 'completed', or to have it *)
(* say so.                                                                 *)
OwnReady(w, f) ==
  /\ job'[w].file \in {f, NoFile}
  /\ job'[w].pc \in NotReadyPC => row'[f].status # "completed"
  /\ row[f].status = "completed" =>
       chunks'[f] = chunks[f] \/ (job[w].pc \in TailPC /\ chunks[f] \subseteq chunks'[f])
  /\ row'[f].status = "completed" =>
       \/ row[f].status = "completed" /\ row'[f].fp = row[f].fp
       \/ /\ UNCHANGED chunks
          /\ \/ MarkCopied(w) \/ FinishParentChild(w)
             \/ FinishFlat(w) /\ job[w].failed = {}
             \/ Stamp(w) /\ job[w].failed = {} /\ row[f].status = "completed"

(* A step that leaves the row alone.                                       *)
LEMMA RowUnread ==
  ASSUME NEW w \in Worker, NEW f \in File, f = job[w].file, Hidden(w), UNCHANGED row,
         job'[w].file \in {f, NoFile},
         job'[w].pc \in NotReadyPC => job[w].pc \in NotReadyPC \/ ~Exists(f),
         job[w].pc \notin NotReadyPC =>
           chunks'[f] = chunks[f] \/ (job[w].pc \in TailPC /\ chunks[f] \subseteq chunks'[f])
  PROVE  OwnReady(w, f)
BY DEF OwnReady, Hidden, Exists

(* A step that writes another status, if there is a row at all.            *)
LEMMA RowUnready ==
  ASSUME TypeOK, NEW w \in Worker, NEW f \in File, f = job[w].file, UNCHANGED chunks,
         NEW r, Update(f, r), r.status # "completed", job'[w].file \in {f, NoFile}
  PROVE  OwnReady(w, f)
<1>1. row'[f] = r \/ (row'[f] = row[f] /\ ~Exists(f))
  BY DEF Update, TypeOK
<1>. QED BY <1>1 DEF OwnReady, Exists

LEMMA NotReadySets ==
  /\ {"idle", "guard", "mark", "progress", "lookup", "copyMark", "preflight", "reMark"}
       \cap NotReadyPC = {}
  /\ TailPC \cap NotReadyPC = {}
  /\ {"clear", "recheck", "markCopied", "reChunks", "reParents"} \subseteq NotReadyPC
  /\ TxPC \subseteq NotReadyPC /\ CleanPC \subseteq NotReadyPC /\ BuildPC \subseteq NotReadyPC
BY DEF NotReadyPC, TakenPC, TxPC, CleanPC, BuildPC, TailPC

LEMMA EndReady ==
  ASSUME TypeOK, NEW w \in Worker, NEW f \in File, f = job[w].file, Hidden(w),
         WorkerCrash(w) \/ AttemptFails(w) \/ LastAttemptFails(w)
  PROVE  OwnReady(w, f)
<1>1. End(w) /\ UNCHANGED chunks
  BY DEF WorkerCrash, AttemptFails, LastAttemptFails, index
<1>2. job'[w].pc = "idle" /\ job'[w].file = NoFile
  BY <1>1, JobMoves
<1>3. CASE UNCHANGED row
  BY <1>1, <1>2, <1>3, RowUnread, NotReadySets
<1>4. CASE ~UNCHANGED row
  <2> DEFINE r == [row[f] EXCEPT !.status = "error"]
  <2>1. Update(f, r)
    BY <1>4 DEF WorkerCrash, AttemptFails, LastAttemptFails
  <2>2. r.status = "error"
    BY DEF TypeOK, FileRows
  <2> HIDE DEF r
  <2>. QED BY <1>1, <1>2, <2>1, <2>2, RowUnready
<1>. QED BY <1>3, <1>4

LEMMA CopyReady ==
  ASSUME TypeOK, NEW w \in Worker, NEW f \in File, f = job[w].file, Hidden(w), CopyStep(w)
  PROVE  OwnReady(w, f)
<1>0. /\ job[w] \in Jobs /\ job \in [Worker -> Jobs] /\ row[f] \in FileRows
      /\ chunks \in [File -> SUBSET IndexRows]
  BY DEF TypeOK
<1>1. CASE SkipCopy(w)
  <2>1. job'[w].pc = "guard" /\ job'[w].file = f /\ UNCHANGED <<row, chunks>>
    BY <1>1, JobMoves DEF SkipCopy, index, PC
  <2>. QED BY <2>1, RowUnread, NotReadySets
<1>2. ASSUME NEW d \in File, FindCopyDonor(w, d) PROVE OwnReady(w, f)
  <2>1. job'[w].pc = "copyMark" /\ job'[w].file = f /\ UNCHANGED <<row, chunks>>
    BY <1>0, <1>2 DEF FindCopyDonor, index, Jobs
  <2>. QED BY <2>1, RowUnread, NotReadySets
<1>3. CASE CopyMark(w)
  <2> DEFINE r == Processing(row[f])
  <2>1. job'[w].file = f /\ UNCHANGED chunks /\ Update(f, r)
    BY <1>3, JobMoves DEF CopyMark, index, PC, CopyPC
  <2>2. r.status = "processing"
    BY <1>0, ProcessingWrite
  <2> HIDE DEF r
  <2>. QED BY <2>1, <2>2, RowUnready
<1>4. CASE ClearTarget(w) \/ CopyParents(w) \/ MapChunks(w) \/ CopyHype(w)
  <2>1. job[w].pc \in {"clear"} \cup TxPC /\ UNCHANGED <<row, chunks>>
    BY <1>4 DEF ClearTarget, CopyParents, MapChunks, CopyHype, At, TxPC, index
  <2>2. job'[w].file = f
    <3>1. CASE ClearTarget(w)
      BY <1>0, <3>1 DEF ClearTarget, Jobs
    <3>2. CASE CopyParents(w)
      BY <1>0, <3>2 DEF CopyParents, Jobs
    <3>3. CASE MapChunks(w)
      BY <1>0, <3>3 DEF MapChunks, Jobs
    <3>4. CASE CopyHype(w)
      BY <1>0, <3>4 DEF CopyHype, Jobs
    <3>. QED BY <1>4, <3>1, <3>2, <3>3, <3>4
  <2>. QED BY <2>1, <2>2, RowUnread, NotReadySets
<1>5. CASE CopyChunks(w) \/ CopyFails(w) \/ Recheck(w)
  <2>1. job[w].pc \in {"clear", "recheck"} \cup TxPC /\ UNCHANGED <<row, chunks>>
    BY <1>5 DEF CopyChunks, CopyFails, Recheck, At, TxPC, index
  <2>2. job'[w].file = f
    BY <1>5, JobMoves DEF CopyChunks, CopyFails, Recheck, PC, CopyPC, TxPC, CleanPC
  <2>. QED BY <2>1, <2>2, RowUnread, NotReadySets
<1>6. CASE CommitCopy(w)
  <2>1. job[w].pc \in TxPC /\ UNCHANGED row
    BY <1>6 DEF CommitCopy, At, TxPC
  <2>2. job'[w].file = f
    <3>1. CASE job[w].rows = {}
      BY <1>6, <3>1, JobMoves DEF CommitCopy, PC, CleanPC
    <3>2. CASE job[w].rows # {}
      BY <1>0, <1>6, <3>2 DEF CommitCopy, Jobs
    <3>. QED BY <3>1, <3>2
  <2>. QED BY <2>1, <2>2, RowUnread, NotReadySets
<1>7. CASE MarkCopied(w)
  <2>1. job'[w].pc = "idle" /\ job'[w].file = NoFile /\ UNCHANGED chunks
    BY <1>7, JobMoves DEF MarkCopied, index
  <2>. QED BY <1>7, <2>1, NotReadySets DEF OwnReady
<1>8. CASE CleanChunks(w) \/ CleanParents(w) \/ CleanHype(w)
  <2>1. job[w].pc \in CleanPC /\ UNCHANGED row
    BY <1>8 DEF CleanChunks, CleanParents, CleanHype, At, CleanPC
  <2>2. job'[w].file = f
    BY <1>8, JobMoves DEF CleanChunks, CleanParents, CleanHype, PC, CleanPC
  <2>. QED BY <2>1, <2>2, RowUnread, NotReadySets
<1>. QED BY <1>1, <1>2, <1>3, <1>4, <1>5, <1>6, <1>7, <1>8 DEF CopyStep

LEMMA IngestReady ==
  ASSUME TypeOK, NEW w \in Worker, NEW f \in File, f = job[w].file, Hidden(w), IngestStep(w)
  PROVE  OwnReady(w, f)
<1>0. /\ job[w] \in Jobs /\ job \in [Worker -> Jobs]
      /\ row[f] \in FileRows /\ row \in [File -> FileRows]
      /\ chunks \in [File -> SUBSET IndexRows]
  BY DEF TypeOK
<1>1. CASE Preflight(w)
  <2>1. job'[w].pc = "reMark" /\ job'[w].file = f /\ UNCHANGED <<row, chunks>>
    BY <1>1, JobMoves DEF Preflight, index, PC, ReembedPC
  <2>. QED BY <2>1, RowUnread, NotReadySets
<1>2. CASE ReembedMark(w) \/ MarkProcessing(w)
  <2> DEFINE r == Processing(row[f])
  <2>1. UNCHANGED chunks /\ Update(f, r)
    BY <1>2 DEF ReembedMark, MarkProcessing, index
  <2>2. job'[w].file = f
    <3>1. CASE ReembedMark(w)
      BY <3>1, JobMoves DEF ReembedMark, PC, ReembedPC
    <3>2. CASE MarkProcessing(w)
      BY <1>0, <3>2 DEF MarkProcessing, Jobs
    <3>. QED BY <1>2, <3>1, <3>2
  <2>3. r.status = "processing"
    BY <1>0, ProcessingWrite
  <2> HIDE DEF r
  <2>. QED BY <2>1, <2>2, <2>3, RowUnready
<1>3. CASE \/ ReembedDeleteChunks(w) \/ ReembedDeleteParents(w)
           \/ DeleteOldChunks(w) \/ DeleteOldParents(w)
  <2>1. job[w].pc \in {"reChunks", "reParents"} \cup BuildPC /\ UNCHANGED row
    BY <1>3 DEF ReembedDeleteChunks, ReembedDeleteParents, DeleteOldChunks, DeleteOldParents, At, BuildPC
  <2>2. job'[w].file = f
    BY <1>3, JobMoves DEF ReembedDeleteChunks, ReembedDeleteParents, DeleteOldChunks,
         DeleteOldParents, PC, ReembedPC, BuildPC
  <2>. QED BY <2>1, <2>2, RowUnread, NotReadySets
<1>4. CASE Guard(w)
  <2>1. UNCHANGED <<row, chunks>>
    BY <1>4 DEF Guard, index
  <2>2. job'[w].pc \in {"idle", "mark"} /\ job'[w].file \in {f, NoFile}
    <3>1. CASE End(w)
      BY <3>1, JobMoves
    <3>2. CASE ~End(w)
      <4>1. PICK p \in {cfg[f], NoFp} :
              job' = [job EXCEPT ![w] = [job[w] EXCEPT !.pc = "mark", !.fp = p]]
        BY <1>0, <1>4, <3>2 DEF Guard
      <4>. QED BY <1>0, <4>1 DEF Jobs
    <3>. QED BY <3>1, <3>2
  <2>. QED BY <2>1, <2>2, RowUnread, NotReadySets
<1>5. CASE Parse(w) \/ InsertParents(w) \/ EmbedChildren(w) \/ EmbedBatch(w)
  <2>1. job[w].pc \in BuildPC /\ UNCHANGED row
    BY <1>5 DEF Parse, InsertParents, EmbedChildren, EmbedBatch, At, BuildPC
  <2>2. job'[w].file = f
    <3>1. CASE Parse(w)
      BY <1>0, <3>1 DEF Parse, Jobs
    <3>2. CASE InsertParents(w)
      BY <3>2, JobMoves DEF InsertParents, PC, BuildPC
    <3>3. CASE EmbedChildren(w) \/ EmbedBatch(w)
      BY <1>0, <3>3, BatchKeepsFile DEF EmbedChildren, EmbedBatch
    <3>. QED BY <1>5, <3>1, <3>2, <3>3
  <2>. QED BY <2>1, <2>2, RowUnread, NotReadySets
<1>6. CASE FinishFlat(w)
  <2> DEFINE s == IF job[w].failed = {} THEN "completed" ELSE "partial"
             r == [row[f] EXCEPT !.status = s]
  <2>1. /\ job'[w].pc \in {"hype", "stamp"} /\ job'[w].file = f /\ UNCHANGED chunks
        /\ Update(f, r)
    BY <1>6, JobMoves DEF FinishFlat, index, PC, TailPC
  <2>2. job[w].failed # {} => r.status # "completed"
    BY <1>0 DEF FileRows
  <2> HIDE DEF r
  <2>3. CASE job[w].failed # {}
    BY <2>1, <2>2, <2>3, RowUnready
  <2>4. CASE job[w].failed = {}
    BY <1>6, <2>1, <2>4, NotReadySets DEF OwnReady, TailPC
  <2>. QED BY <2>3, <2>4
<1>7. CASE FinishParentChild(w)
  <2>1. job'[w].pc = "stampPC" /\ job'[w].file = f /\ UNCHANGED chunks
    BY <1>7, JobMoves DEF FinishParentChild, index, PC, TailPC
  <2>. QED BY <1>7, <2>1, NotReadySets DEF OwnReady, TailPC
<1>8. CASE HypeStage(w) \/ HypeChunk(w) \/ Raptor(w)
  <2>1. UNCHANGED row /\ chunks[f] \subseteq chunks'[f]
    BY <1>0, <1>8 DEF HypeStage, HypeChunk, Raptor, Store, index
  <2>2. job'[w].pc \in TailPC /\ job'[w].file = f
    <3>1. CASE HypeStage(w)
      <4>1. \/ job' = [job EXCEPT ![w] = [job[w] EXCEPT !.pc = "hypeChunk", !.rows = chunks[f]]]
            \/ job' = [job EXCEPT ![w] = [job[w] EXCEPT !.pc = "hypeChunk", !.degraded = TRUE]]
        BY <1>0, <3>1 DEF HypeStage
      <4>2. CASE job' = [job EXCEPT ![w] = [job[w] EXCEPT !.pc = "hypeChunk", !.rows = chunks[f]]]
        BY <1>0, <4>2 DEF Jobs, TailPC
      <4>3. CASE job' = [job EXCEPT ![w] = [job[w] EXCEPT !.pc = "hypeChunk", !.degraded = TRUE]]
        BY <1>0, <4>3 DEF Jobs, TailPC
      <4>. QED BY <4>1, <4>2, <4>3
    <3>2. CASE HypeChunk(w)
      <4>1. PICK c \in job[w].rows :
              \/ job' = [job EXCEPT ![w] = [job[w] EXCEPT !.rows = job[w].rows \ {c}]]
              \/ job' = [job EXCEPT ![w] = [job[w] EXCEPT !.rows = job[w].rows \ {c},
                                                        !.degraded = TRUE]]
        BY <1>0, <3>2 DEF HypeChunk
      <4>2. job[w].pc = "hypeChunk"
        BY <3>2 DEF HypeChunk, At
      <4>3. CASE job' = [job EXCEPT ![w] = [job[w] EXCEPT !.rows = job[w].rows \ {c}]]
        BY <1>0, <4>2, <4>3 DEF Jobs, TailPC
      <4>4. CASE job' = [job EXCEPT ![w] = [job[w] EXCEPT !.rows = job[w].rows \ {c},
                                                        !.degraded = TRUE]]
        BY <1>0, <4>2, <4>4 DEF Jobs, TailPC
      <4>. QED BY <4>1, <4>3, <4>4
    <3>3. CASE Raptor(w)
      <4>1. CASE Goto(w, "stamp")
        BY <4>1, JobMoves DEF PC, TailPC
      <4>2. CASE ~Goto(w, "stamp")
        <5>1. job' = [job EXCEPT ![w] = [job[w] EXCEPT !.pc = "stamp", !.degraded = TRUE]]
          BY <1>0, <3>3, <4>2 DEF Raptor
        <5>2. job'[w].pc = "stamp" /\ job'[w].file = f
          BY <1>0, <5>1 DEF Jobs
        <5>. QED BY <5>2 DEF TailPC
      <4>. QED BY <4>1, <4>2
    <3>. QED BY <1>8, <3>1, <3>2, <3>3
  <2>3. job[w].pc \in TailPC
    BY <1>8 DEF HypeStage, HypeChunk, Raptor, At, TailPC
  <2>. QED BY <2>1, <2>2, <2>3, RowUnread, NotReadySets
<1>9. CASE Stamp(w)
  <2>1. job'[w].pc \in {"idle", "progress"} /\ job'[w].file \in {f, NoFile} /\ UNCHANGED chunks
    BY <1>9, JobMoves DEF Stamp, index, PC
  <2>2. CASE UNCHANGED row
    BY <2>1, <2>2, RowUnread, NotReadySets
  <2>3. CASE ~UNCHANGED row
    <3>1. /\ row' = [row EXCEPT ![f] = [row[f] EXCEPT !.fp = job[w].fp]]
          /\ job[w].failed = {}
      BY <1>9, <2>3 DEF Stamp, Update
    <3>2. row'[f].status = row[f].status
      BY <1>0, <3>1 DEF FileRows
    <3>. QED BY <1>9, <2>1, <3>1, <3>2, NotReadySets DEF OwnReady
  <2>. QED BY <2>2, <2>3
<1>10. CASE FinalProgress(w)
  <2>1. job'[w].pc = "idle" /\ job'[w].file = NoFile /\ UNCHANGED chunks
    BY <1>10, JobMoves DEF FinalProgress, index
  <2>2. row'[f] = Touched(row[f]) \/ row'[f] = row[f]
    BY <1>0, <1>10 DEF FinalProgress, Update
  <2>3. row'[f].status = row[f].status /\ row'[f].fp = row[f].fp
    BY <1>0, <2>2 DEF Touched, FileRows
  <2>. QED BY <2>1, <2>3, NotReadySets DEF OwnReady
<1>11. CASE RowGoneNoticed(w)
  <2>1. ~Exists(f) /\ UNCHANGED <<row, chunks>> /\ job'[w].file = f
    BY <1>11, JobMoves DEF RowGoneNoticed, index, PC, CleanPC
  <2>. QED BY <2>1, RowUnread
<1>. QED BY <1>1, <1>2, <1>3, <1>4, <1>5, <1>6, <1>7, <1>8, <1>9, <1>10, <1>11 DEF IngestStep

LEMMA WorkerReady ==
  ASSUME TypeOK, NEW w \in Worker, WorkerStep(w), Hidden(w),
         ~ \E f \in File, k \in Kind : StartTask(w, f, k)
  PROVE  /\ ~At(w, "idle") /\ job[w].file \in File
         /\ \A f \in File : f = job[w].file => OwnReady(w, f)
<1>1. ~At(w, "idle") /\ job[w].file \in File
  BY StepIsAtWork, FileOfJob
<1>2. ASSUME NEW f \in File, f = job[w].file PROVE OwnReady(w, f)
  BY <1>2, EndReady, CopyReady, IngestReady DEF WorkerStep
<1>. QED BY <1>1, <1>2

(* A request, a sweep or the cascade: no row becomes 'completed' by it, and *)
(* it deletes chunks of a file in deletion only, and then all of them.     *)
FileReady(f) ==
  /\ UNCHANGED <<job, runs>>
  /\ \A g \in File :
       /\ row'[g].status = "completed" =>
            row[g].status = "completed" /\ row'[g].fp \in {row[g].fp, NoFp}
       /\ chunks'[g] = chunks[g] \/ (del'[g] # "no" /\ chunks'[g] = {})
       /\ del'[g] = "no" => del[g] = "no"

LEMMA FileStepReady ==
  ASSUME TypeOK, NEW f \in File, FileStep(f)
  PROVE  FileReady(f)
<1>0. /\ row \in [File -> FileRows] /\ chunks \in [File -> SUBSET IndexRows]
      /\ \A g \in File : row[g] \in FileRows
      /\ DOMAIN del = File
  BY DEF TypeOK
<1>1. CASE Upload(f) \/ Retry(f) \/ StuckSweep(f)
  <2>1. /\ UNCHANGED <<job, runs, chunks, del>>
        /\ \E s \in {"pending", "error"} : row' = [row EXCEPT ![f].status = s]
    BY <1>1 DEF Upload, Retry, StuckSweep, index
  <2>2. PICK s \in {"pending", "error"} : row' = [row EXCEPT ![f] = [row[f] EXCEPT !.status = s]]
    BY <1>0, <2>1
  <2>3. [row[f] EXCEPT !.status = s].status = s
    BY <1>0 DEF FileRows
  <2>4. \A g \in File : row'[g] = row[g] \/ row'[g].status = s
    BY <1>0, <2>2, <2>3
  <2>. QED BY <2>1, <2>4 DEF FileReady
<1>2. CASE Reembed(f) \/ ChangeConfig(f) \/ DropTask(f)
  BY <1>2 DEF Reembed, ChangeConfig, DropTask, index, FileReady
<1>3. CASE DeleteFile(f)
  <2>1. /\ UNCHANGED <<job, runs, chunks>> /\ del' = [del EXCEPT ![f] = "chunks"]
        /\ \/ UNCHANGED row
           \/ row' = [row EXCEPT ![f] = [Touched(row[f]) EXCEPT !.fp = NoFp]]
    BY <1>0, <1>3 DEF DeleteFile, index
  <2>2. \A g \in File : row'[g] = row[g] \/ (row'[g].status = row[g].status /\ row'[g].fp = NoFp)
    <3>1. Touched(row[f]) \in FileRows /\ Touched(row[f]).status = row[f].status
      BY <1>0, RowType, RowWrites
    <3>2. /\ [Touched(row[f]) EXCEPT !.fp = NoFp].status = row[f].status
          /\ [Touched(row[f]) EXCEPT !.fp = NoFp].fp = NoFp
      BY <3>1 DEF FileRows
    <3>. QED BY <1>0, <2>1, <3>2
  <2>. QED BY <1>0, <2>1, <2>2 DEF FileReady
<1>4. CASE CascadeChunks(f) \/ CascadeHype(f) \/ CascadeParents(f)
  <2>1. /\ UNCHANGED <<job, runs, row>>
        /\ \E s \in {"hype", "parents", "row"} : del' = [del EXCEPT ![f] = s]
        /\ \A g \in File \ {f} : chunks'[g] = chunks[g]
        /\ chunks'[f] = chunks[f] \/ chunks'[f] = {}
    BY <1>0, <1>4 DEF CascadeChunks, CascadeHype, CascadeParents, Emptied
  <2>. QED BY <1>0, <2>1 DEF FileReady
<1>5. CASE DeleteRow(f)
  <2>1. /\ UNCHANGED <<job, runs, chunks>>
        /\ \E s \in {"done", "failed"} : del' = [del EXCEPT ![f] = s]
        /\ \/ UNCHANGED row
           \/ row' = [row EXCEPT ![f] = [row[f] EXCEPT !.status = "deleted", !.fp = NoFp]]
    BY <1>0, <1>5 DEF DeleteRow, index
  <2>2. [row[f] EXCEPT !.status = "deleted", !.fp = NoFp].status = "deleted"
    BY <1>0 DEF FileRows
  <2>3. \A g \in File : row'[g] = row[g] \/ row'[g].status = "deleted"
    BY <1>0, <2>1, <2>2
  <2>. QED BY <1>0, <2>1, <2>3 DEF FileReady
<1>. QED BY <1>1, <1>2, <1>3, <1>4, <1>5 DEF FileStep

(* From which steps a run comes to the places before a final status.       *)
FinalPC == {"recheck", "markCopied", "finish", "finishPC"}

LEMMA FinalArrivals ==
  ASSUME TypeOK, NEW w \in Worker, WorkerStep(w), job'[w].pc \in FinalPC
  PROVE  \/ CommitCopy(w) /\ job[w].rows # {} /\ job'[w].pc = "recheck"
         \/ Recheck(w) /\ Goto(w, "markCopied")
         \/ EmbedChildren(w) \/ EmbedBatch(w)
<1> USE DEF FinalPC
<1>0. job[w] \in Jobs /\ job \in [Worker -> Jobs]
  BY DEF TypeOK
<1>1. ~End(w)
  BY JobMoves
<1>2. \A p \in PC \ FinalPC : ~Goto(w, p) /\ ~Drop(w, p)
  BY JobMoves
<1>3. CASE CopyStep(w)
  <2>1. ~SkipCopy(w) /\ ~CopyMark(w) /\ ~CopyChunks(w) /\ ~CopyFails(w) /\ ~MarkCopied(w)
        /\ ~CleanChunks(w) /\ ~CleanParents(w) /\ ~CleanHype(w)
    BY <1>1, <1>2 DEF SkipCopy, CopyMark, CopyChunks, CopyFails, MarkCopied, CleanChunks,
         CleanParents, CleanHype, PC, CopyPC, TxPC, CleanPC
  <2>2. ASSUME NEW d \in File, FindCopyDonor(w, d) PROVE FALSE
    <3>1. job'[w].pc = "copyMark"
      BY <1>0, <2>2 DEF FindCopyDonor, Jobs
    <3>. QED BY <3>1
  <2>3. CASE ClearTarget(w)
    <3>1. job'[w].pc = "copyParents"
      BY <1>0, <2>3 DEF ClearTarget, Jobs
    <3>. QED BY <3>1
  <2>4. CASE CopyParents(w)
    <3>1. job'[w].pc = "mapChunks"
      BY <1>0, <2>4 DEF CopyParents, Jobs
    <3>. QED BY <3>1
  <2>5. CASE MapChunks(w)
    <3> DEFINE q == IF chunks[job[w].donor] = {} THEN "commit" ELSE "copyChunks"
    <3>1. job' = [job EXCEPT ![w] = [job[w] EXCEPT !.rows = chunks[job[w].donor], !.pc = q]]
      BY <1>0, <2>5 DEF MapChunks
    <3>2. q \in {"commit", "copyChunks"}
      OBVIOUS
    <3> HIDE DEF q
    <3>3. job'[w].pc = q
      BY <1>0, <3>1 DEF Jobs
    <3>. QED BY <3>2, <3>3
  <2>6. CASE CopyHype(w)
    <3>1. job'[w].pc = "commit"
      BY <1>0, <2>6 DEF CopyHype, Jobs
    <3>. QED BY <3>1
  <2>7. CASE CommitCopy(w)
    <3>1. job[w].rows # {}
      BY <1>2, <2>7 DEF CommitCopy, PC, CleanPC
    <3>2. job'[w].pc = "recheck"
      <4>1. job' = [job EXCEPT ![w] = [job[w] EXCEPT !.pc = "recheck", !.pmap = {}, !.rows = {},
                                          !.qs = {}, !.old = {}, !.oldQs = {}]]
        BY <1>0, <2>7, <3>1 DEF CommitCopy
      <4>. QED BY <1>0, <4>1 DEF Jobs
    <3>. QED BY <2>7, <3>1, <3>2
  <2>8. CASE Recheck(w)
    BY <1>2, <2>8 DEF Recheck, PC, CleanPC
  <2>. QED BY <1>3, <2>1, <2>2, <2>3, <2>4, <2>5, <2>6, <2>7, <2>8 DEF CopyStep
<1>4. CASE IngestStep(w)
  <2>1. ~Preflight(w) /\ ~ReembedMark(w) /\ ~ReembedDeleteChunks(w) /\ ~ReembedDeleteParents(w)
        /\ ~DeleteOldChunks(w) /\ ~DeleteOldParents(w) /\ ~InsertParents(w)
        /\ ~FinishFlat(w) /\ ~FinishParentChild(w) /\ ~Stamp(w) /\ ~FinalProgress(w)
        /\ ~RowGoneNoticed(w)
    BY <1>1, <1>2 DEF Preflight, ReembedMark, ReembedDeleteChunks, ReembedDeleteParents,
         DeleteOldChunks, DeleteOldParents, InsertParents, FinishFlat, FinishParentChild, Stamp,
         FinalProgress, RowGoneNoticed, PC, ReembedPC, CleanPC, BuildPC, TailPC
  <2>2. CASE Guard(w)
    <3>1. job'[w].pc = "mark"
      <4>1. PICK p \in {cfg[job[w].file], NoFp} :
              job' = [job EXCEPT ![w] = [job[w] EXCEPT !.pc = "mark", !.fp = p]]
        BY <1>0, <1>1, <2>2 DEF Guard
      <4>. QED BY <1>0, <4>1 DEF Jobs
    <3>. QED BY <3>1
  <2>3. CASE MarkProcessing(w)
    <3>1. job'[w].pc = "delChunks"
      BY <1>0, <2>3 DEF MarkProcessing, Jobs
    <3>. QED BY <3>1
  <2>4. CASE Parse(w)
    <3> DEFINE q == IF cfg[job[w].file] \in ParentChild THEN "parents" ELSE "leaves"
    <3>1. PICK b \in BOOLEAN : job' = [job EXCEPT ![w] = [job[w] EXCEPT !.degraded = b, !.pc = q]]
      BY <1>0, <2>4 DEF Parse
    <3>2. q \in {"parents", "leaves"}
      OBVIOUS
    <3> HIDE DEF q
    <3>3. job'[w].pc = q
      BY <1>0, <3>1 DEF Jobs
    <3>. QED BY <3>2, <3>3
  <2>5. CASE HypeStage(w)
    <3>1. job'[w].pc = "hypeChunk"
      <4>1. \/ job' = [job EXCEPT ![w] = [job[w] EXCEPT !.pc = "hypeChunk",
                                                      !.rows = chunks[job[w].file]]]
            \/ job' = [job EXCEPT ![w] = [job[w] EXCEPT !.pc = "hypeChunk", !.degraded = TRUE]]
        BY <1>0, <2>5 DEF HypeStage
      <4>2. CASE job' = [job EXCEPT ![w] = [job[w] EXCEPT !.pc = "hypeChunk",
                                                     !.rows = chunks[job[w].file]]]
        BY <1>0, <4>2 DEF Jobs
      <4>3. CASE job' = [job EXCEPT ![w] = [job[w] EXCEPT !.pc = "hypeChunk", !.degraded = TRUE]]
        BY <1>0, <4>3 DEF Jobs
      <4>. QED BY <4>1, <4>2, <4>3
    <3>. QED BY <3>1
  <2>6. CASE HypeChunk(w)
    <3>1. PICK c \in job[w].rows :
            \/ job' = [job EXCEPT ![w] = [job[w] EXCEPT !.rows = job[w].rows \ {c}]]
            \/ job' = [job EXCEPT ![w] = [job[w] EXCEPT !.rows = job[w].rows \ {c},
                                                      !.degraded = TRUE]]
      BY <1>0, <2>6 DEF HypeChunk
    <3>2. job[w].pc = "hypeChunk"
      BY <2>6 DEF HypeChunk, At
    <3>3. CASE job' = [job EXCEPT ![w] = [job[w] EXCEPT !.rows = job[w].rows \ {c}]]
      BY <1>0, <3>2, <3>3 DEF Jobs
    <3>4. CASE job' = [job EXCEPT ![w] = [job[w] EXCEPT !.rows = job[w].rows \ {c},
                                                      !.degraded = TRUE]]
      BY <1>0, <3>2, <3>4 DEF Jobs
    <3>. QED BY <3>1, <3>3, <3>4
  <2>7. CASE Raptor(w)
    <3>1. ~Goto(w, "stamp")
      BY <1>2 DEF PC, TailPC
    <3>2. job' = [job EXCEPT ![w] = [job[w] EXCEPT !.pc = "stamp", !.degraded = TRUE]]
      BY <1>0, <2>7, <3>1 DEF Raptor
    <3>3. job'[w].pc = "stamp"
      BY <1>0, <3>2 DEF Jobs
    <3>. QED BY <3>3
  <2>. QED BY <1>4, <2>1, <2>2, <2>3, <2>4, <2>5, <2>6, <2>7 DEF IngestStep
<1>5. ASSUME NEW f \in File, NEW k \in Kind, StartTask(w, f, k) PROVE FALSE
  BY <1>0, <1>5 DEF StartTask, NoJob
<1>6. ~WorkerCrash(w) /\ ~AttemptFails(w) /\ ~LastAttemptFails(w)
  BY <1>1 DEF WorkerCrash, AttemptFails, LastAttemptFails
<1>. QED BY <1>3, <1>4, <1>5, <1>6 DEF WorkerStep

-----------------------------------------------------------------------------
(* A file that says 'completed' has chunks, whatever donors vanish and       *)
(* whatever the cascade fails to do.                                        *)

OneEach == \A v, w \in Worker : v # w /\ ~At(v, "idle") => job[v].file # job[w].file

(* Before the write that makes the file ready there is something to show.   *)
Filled(w) ==
  job[w].pc \in {"recheck", "markCopied", "finishPC"} \/ (job[w].pc = "finish" /\ job[w].failed = {}) =>
    \A f \in File : f = job[w].file /\ del[f] = "no" => chunks[f] # {}

FilledInv ==
  /\ TypeOK
  /\ OneEach
  /\ \A w \in Worker : Hidden(w) /\ Filled(w)
  /\ ReadyIsNotEmpty

LEMMA FilledOwn ==
  ASSUME TypeOK, NEW w \in Worker, WorkerStep(w), Filled(w)
  PROVE  Filled(w)'
<1> SUFFICES ASSUME job'[w].pc \in FinalPC, job'[w].pc = "finish" => job'[w].failed = {},
                    NEW f \in File, f = job'[w].file, del'[f] = "no"
             PROVE  chunks'[f] # {}
  BY DEF Filled, FinalPC
<1>0. job[w] \in Jobs /\ job \in [Worker -> Jobs] /\ chunks \in [File -> SUBSET IndexRows]
  BY DEF TypeOK
<1>1. CASE CommitCopy(w) /\ job[w].rows # {}
  <2>1. job' = [job EXCEPT ![w] = [job[w] EXCEPT !.pc = "recheck", !.pmap = {}, !.rows = {},
                                      !.qs = {}, !.old = {}, !.oldQs = {}]]
    BY <1>0, <1>1 DEF CommitCopy
  <2>2. f = job[w].file
    BY <1>0, <2>1 DEF Jobs
  <2>3. Copied(job[w].rows, job[w].run) # {}
    BY <1>1 DEF Copied
  <2>4. Copied(job[w].rows, job[w].run) \subseteq chunks'[f]
    BY <1>0, <1>1, <2>2 DEF CommitCopy
  <2>. QED BY <2>3, <2>4
<1>2. CASE Recheck(w) /\ Goto(w, "markCopied")
  <2>1. job'[w].file = job[w].file /\ job[w].pc = "recheck" /\ UNCHANGED <<chunks, del>>
    BY <1>2, JobMoves DEF Recheck, At, index, PC, CopyPC
  <2>. QED BY <2>1 DEF Filled
<1>3. CASE Store(w, job[w].next) /\ job'[w].file = job[w].file
  BY <1>0, <1>3 DEF Store
<1>4. CASE EmbedChildren(w) \/ EmbedBatch(w)
  <2>1. job'[w].file = job[w].file
    BY <1>0, <1>4, BatchKeepsFile DEF EmbedChildren, EmbedBatch
  <2>2. CASE EmbedChildren(w)
    BY <1>3, <2>1, <2>2 DEF EmbedChildren
  <2>3. CASE EmbedBatch(w) /\ ~Store(w, job[w].next)
    <3> DEFINE q == IF job[w].next = NLeaf THEN "finish" ELSE "leaves"
               bad == job[w].failed \cup {job[w].next}
               n == job[w].next + 1
    <3>1. job' = [job EXCEPT ![w] = [job[w] EXCEPT !.next = n, !.failed = bad, !.pc = q]]
      BY <1>0, <2>3 DEF EmbedBatch, NextBatch
    <3>2. q \in {"finish", "leaves"} /\ bad # {}
      OBVIOUS
    <3> HIDE DEF q, bad, n
    <3>3. job'[w].pc = q /\ job'[w].failed = bad
      BY <1>0, <3>1 DEF Jobs
    <3>. QED BY <3>2, <3>3 DEF FinalPC
  <2>. QED BY <1>3, <1>4, <2>1, <2>2, <2>3
<1>. QED BY <1>1, <1>2, <1>4, FinalArrivals

LEMMA FilledWorker ==
  ASSUME "run" \notin Disturbances, FilledInv, NEW w \in Worker, WorkerStep(w)
  PROVE  OneEach' /\ (\A v \in Worker : Hidden(v)' /\ Filled(v)') /\ ReadyIsNotEmpty'
<1> USE DEF FilledInv
<1>0. Local(w) /\ Filled(w)'
  BY WorkerLocal, FilledOwn
<1>1. UNCHANGED del /\ \A v \in Worker \ {w} : job'[v] = job[v]
  BY <1>0 DEF Local
<1>2. ASSUME NEW g \in File, NEW k \in Kind, StartTask(w, g, k)
      PROVE  OneEach' /\ (\A v \in Worker : Hidden(v)' /\ Filled(v)') /\ ReadyIsNotEmpty'
  <2>1. ~Busy(g) /\ UNCHANGED <<row, chunks>>
    BY <1>2 DEF StartTask, index
  <2>2. job'[w].file = g /\ job'[w].pc \in {"preflight", "lookup"}
    BY <1>2 DEF StartTask, NoJob, TypeOK
  <2>3. OneEach'
    BY <1>1, <2>1, <2>2 DEF OneEach, At, Busy
  <2>4. ASSUME NEW v \in Worker PROVE Hidden(v)' /\ Filled(v)'
    BY <1>0, <1>1, <2>1, <2>2, NotReadySets DEF Hidden, Filled
  <2>5. ReadyIsNotEmpty'
    BY <1>1, <2>1 DEF ReadyIsNotEmpty
  <2>. QED BY <2>3, <2>4, <2>5
<1>3. CASE ~ \E g \in File, k \in Kind : StartTask(w, g, k)
  <2>1. PICK f \in File : f = job[w].file /\ OwnReady(w, f) /\ ~At(w, "idle")
    BY <1>3, WorkerReady
  <2>2. /\ job'[w].file \in {f, NoFile}
        /\ \A g \in File \ {f} : row'[g] = row[g] /\ chunks'[g] = chunks[g]
    BY <1>0, <2>1 DEF OwnReady, Local
  <2>3. \A v \in Worker \ {w} : job[v].file # f /\ (job[v].file = NoFile <=> At(v, "idle"))
    BY <2>1 DEF OneEach, TypeOK, At
  <2>4. \A v \in Worker \ {w} : ~At(v, "idle") => job[v].file \in File \ {f}
    BY <2>3, FileOfJob
  <2>5. OneEach'
    <3> SUFFICES ASSUME NEW v \in Worker, NEW u \in Worker, v # u, ~At(v, "idle")'
                 PROVE  job'[v].file # job'[u].file
      BY DEF OneEach
    <3>1. CASE v = w
      <4>1. job'[w].file # NoFile
        BY <3>1, TypeCorrectStep DEF TypeOK, At, Next
      <4>. QED BY <1>1, <2>2, <2>3, <3>1, <4>1
    <3>2. CASE u = w
      BY <1>1, <2>2, <2>3, <2>4, <3>2, FileAssumption DEF At
    <3>3. CASE v # w /\ u # w
      BY <1>1, <3>3 DEF OneEach, At
    <3>. QED BY <3>1, <3>2, <3>3
  <2>6. ASSUME NEW v \in Worker PROVE Hidden(v)' /\ Filled(v)'
    <3>1. CASE v = w
      BY <1>0, <2>1, <2>2, <3>1, FileAssumption DEF OwnReady, Hidden
    <3>2. CASE v # w
      <4>1. job'[v] = job[v] /\ Hidden(v) /\ Filled(v) /\ job[v].file # f
        BY <1>1, <2>3, <3>2
      <4>. QED BY <1>1, <2>2, <4>1 DEF Hidden, Filled
    <3>. QED BY <3>1, <3>2
  <2>7. ReadyIsNotEmpty'
    <3> SUFFICES ASSUME NEW g \in File, row'[g].status = "completed", del'[g] = "no"
                 PROVE  chunks'[g] # {}
      BY DEF ReadyIsNotEmpty
    <3>1. CASE row[g].status = "completed"
      BY <1>1, <2>1, <2>2, <3>1 DEF OwnReady, ReadyIsNotEmpty
    <3>2. CASE row[g].status # "completed"
      <4>1. /\ g = f /\ UNCHANGED chunks
            /\ MarkCopied(w) \/ FinishParentChild(w) \/ (FinishFlat(w) /\ job[w].failed = {})
        BY <2>1, <2>2, <3>2 DEF OwnReady
      <4>2. \/ job[w].pc \in {"markCopied", "finishPC"}
            \/ job[w].pc = "finish" /\ job[w].failed = {}
        BY <4>1 DEF MarkCopied, FinishParentChild, FinishFlat, At
      <4>. QED BY <1>1, <2>1, <4>1, <4>2 DEF Filled
    <3>. QED BY <3>1, <3>2
  <2>. QED BY <2>5, <2>6, <2>7
<1>. QED BY <1>2, <1>3

(* A copy that mapped no chunk is never kept, and neither is an ingest that  *)
(* stored none: whichever donor vanishes under a copier and whatever else   *)
(* fails, a file shown as ready has chunks, as long as no two tasks of one   *)
(* file overlap (tryCopy, ingestFile).                                     *)
THEOREM ReadyHasChunks ==
  ASSUME "run" \notin Disturbances
  PROVE  Spec => []ReadyIsNotEmpty
<1>1. Init => FilledInv
  <2> SUFFICES ASSUME Init PROVE FilledInv
    OBVIOUS
  <2>1. \A w \in Worker : job[w].pc = "idle"
    BY DEF Init, NoJob
  <2>2. \A f \in File : row[f].status = "absent"
    BY DEF Init
  <2>. QED BY <2>1, <2>2, InitType, NotReadySets DEF FilledInv, OneEach, At, Hidden, Filled, ReadyIsNotEmpty
<1>2. FilledInv /\ [Next]_vars => FilledInv'
  <2> SUFFICES ASSUME FilledInv, [Next]_vars PROVE FilledInv'
    OBVIOUS
  <2>0. TypeOK'
    BY TypeCorrectStep DEF FilledInv
  <2>1. ASSUME NEW f \in File, FileStep(f) PROVE FilledInv'
    <3>1. FileReady(f)
      BY <2>1, FileStepReady DEF FilledInv
    <3>2. OneEach' /\ ReadyIsNotEmpty'
      BY <3>1 DEF FilledInv, FileReady, OneEach, At, ReadyIsNotEmpty
    <3>3. ASSUME NEW w \in Worker PROVE Hidden(w)' /\ Filled(w)'
      BY <3>1 DEF FilledInv, FileReady, Hidden, Filled
    <3>. QED BY <2>0, <3>2, <3>3 DEF FilledInv
  <2>2. ASSUME NEW w \in Worker, WorkerStep(w) PROVE FilledInv'
    BY <2>0, <2>2, FilledWorker DEF FilledInv
  <2>3. CASE UNCHANGED vars
    BY <2>0, <2>3 DEF vars, index, FilledInv, OneEach, At, Hidden, Filled, ReadyIsNotEmpty
  <2>. QED BY <2>1, <2>2, <2>3 DEF Next
<1>3. FilledInv => ReadyIsNotEmpty
  BY DEF FilledInv
<1>. QED BY <1>1, <1>2, <1>3, PTL DEF Spec

-----------------------------------------------------------------------------
(* A file that says 'completed' has every leaf of one build.                *)

LeafIn(S, r, b, l) == \E c \in S : c.run = r /\ c.build = b /\ c.piece = l
HasLeaves(S, m) == \E r, b \in 0..m : \A l \in Leaf : LeafIn(S, r, b, l)

(* The batches before the n-th that did not fail are stored.                *)
Got(w, n) ==
  \A f \in File : f = job[w].file =>
    \A l \in (1..n) \ job[w].failed : LeafIn(chunks[f], job[w].run, job[w].run, l)

(* The index in the file of w, which a copy left there, has its leaves.     *)
CopyHasLeaves(w) == \A f \in File : f = job[w].file => HasLeaves(chunks[f], runs)

(* The donor of w has the token w found it with, and a row.                 *)
Stands(w) == Same(w) /\ row[job[w].donor].status # "deleted"

LeafProgress(w) ==
  LET d == job[w].donor
      j == job[w]
  IN
  /\ j.pc # "idle" => j.run \in 0..runs
  /\ j.pc \notin EmbedPC => j.next = 1 /\ j.failed = {}
  /\ j.pc \in {"children", "finishPC", "stampPC"} => j.failed = {}
  /\ j.pc \in {"children", "leaves"} => j.next \in Leaf /\ Got(w, j.next - 1)
  /\ j.pc \in {"finish", "finishPC"} \cup TailPC => Got(w, NLeaf)
  /\ j.pc \in TailPC /\ j.failed # {} =>
       \A f \in File : f = j.file => row[f].status # "completed"
  /\ j.pc \in CopyPC => j.fp \in Fp
  /\ j.pc \in CopyPC \ {"lookup"} =>
       d # j.file /\ j.gen <= row[d].gen /\ (Stands(w) => Advertises(d, j.fp))
  /\ j.pc \in {"copyChunks", "copyHype", "commit"} /\ Stands(w) =>
       j.rows = {} \/ HasLeaves(j.rows, runs)
  /\ j.pc = "recheck" /\ Stands(w) => CopyHasLeaves(w)
  /\ j.pc = "markCopied" => CopyHasLeaves(w)

(* Deleting a file takes its chunks at once, so that a donor which is half  *)
(* deleted, whether it was retired or not, has its leaves or nothing.       *)
ReadyRowsHaveLeaves ==
  \A f \in File : row[f].status = "completed" =>
    HasLeaves(chunks[f], runs) \/ (del[f] # "no" /\ chunks[f] = {})

LeafInv ==
  /\ RunInv
  /\ ReadyRowsHaveLeaves
  /\ \A w \in Worker : Hidden(w) /\ LeafProgress(w)

LEMMA MoreLeaves ==
  ASSUME NEW S, NEW T, S \subseteq T, NEW m \in Nat, NEW n \in Nat, n >= m, HasLeaves(S, m)
  PROVE  HasLeaves(T, n)
<1>1. PICK r \in 0..m, b \in 0..m : \A l \in Leaf : LeafIn(S, r, b, l)
  BY DEF HasLeaves
<1>2. r \in 0..n /\ b \in 0..n
  OBVIOUS
<1>3. \A l \in Leaf : LeafIn(T, r, b, l)
  BY <1>1 DEF LeafIn
<1>. QED BY <1>2, <1>3 DEF HasLeaves

LEMMA CopiedLeaves ==
  ASSUME NEW S, NEW m \in Nat, NEW k \in 0..m, S \subseteq IndexRows, HasLeaves(S, m)
  PROVE  HasLeaves(Copied(S, k), m)
<1>1. PICK r \in 0..m, b \in 0..m : \A l \in Leaf : LeafIn(S, r, b, l)
  BY DEF HasLeaves
<1>2. ASSUME NEW l \in Leaf PROVE LeafIn(Copied(S, k), k, b, l)
  <2>1. PICK c \in S : c.run = r /\ c.build = b /\ c.piece = l
    BY <1>1 DEF LeafIn
  <2> DEFINE e == [c EXCEPT !.run = k]
  <2>2. e \in Copied(S, k)
    BY DEF Copied
  <2>3. e.run = k /\ e.build = b /\ e.piece = l
    BY <2>1 DEF IndexRows
  <2> HIDE DEF e
  <2>. QED BY <2>2, <2>3 DEF LeafIn
<1>. QED BY <1>2 DEF HasLeaves

(* What a run has stored stays where the index only grows.                  *)
LEMMA GotStays ==
  ASSUME NEW w \in Worker, NEW f \in File, f = job[w].file, f = job'[w].file,
         job'[w].run = job[w].run, job'[w].failed = job[w].failed,
         chunks[f] \subseteq chunks'[f], NEW n, Got(w, n)
  PROVE  Got(w, n)'
<1>1. ASSUME NEW l \in (1..n) \ job[w].failed PROVE LeafIn(chunks'[f], job[w].run, job[w].run, l)
  BY DEF Got, LeafIn
<1>. QED BY <1>1 DEF Got

(* A run at a place where nothing is known of its index yet.                *)
LEMMA LeafPlain ==
  ASSUME NEW w \in Worker, job'[w].pc \notin CopyPC,
         job'[w].pc \notin EmbedPC \ {"progress"},
         job'[w].pc # "idle" => job'[w].run \in 0..runs',
         job'[w].pc # "progress" => job'[w].next = 1 /\ job'[w].failed = {}
  PROVE  LeafProgress(w)'
BY DEF LeafProgress, CopyPC, TxPC, EmbedPC, TailPC

LEMMA LeafEnd ==
  ASSUME TypeOK, NEW w \in Worker, End(w)
  PROVE  LeafProgress(w)'
<1>1. job'[w].pc = "idle" /\ job'[w].next = 1 /\ job'[w].failed = {}
  BY DEF TypeOK, End, NoJob
<1>. QED BY <1>1, LeafPlain DEF CopyPC, TxPC, EmbedPC

LEMMA LeafDrop ==
  ASSUME TypeOK, NEW w \in Worker, ~At(w, "idle"), LeafProgress(w), UNCHANGED runs,
         Drop(w, "clean") \/ Drop(w, "guard")
  PROVE  LeafProgress(w)'
<1>1. /\ job'[w].pc \in {"clean", "guard"} /\ job'[w].run = job[w].run
      /\ job'[w].next = 1 /\ job'[w].failed = {}
  BY DropKeeps DEF PC, CleanPC
<1>2. job'[w].run \in 0..runs'
  BY <1>1 DEF LeafProgress, At
<1>. QED BY <1>1, <1>2, LeafPlain DEF CopyPC, TxPC, EmbedPC

LEMMA LeafGoto ==
  ASSUME TypeOK, NEW w \in Worker, ~At(w, "idle"), LeafProgress(w), UNCHANGED runs,
         NEW p \in {"reMark", "reChunks", "reParents", "cleanParents", "cleanHype", "guard",
                    "delParents", "parse"},
         Goto(w, p), job[w].pc \notin EmbedPC
  PROVE  LeafProgress(w)'
<1>1. /\ job'[w].pc = p /\ job'[w].run = job[w].run
      /\ job'[w].next = job[w].next /\ job'[w].failed = job[w].failed
  BY GotoKeeps DEF PC, CleanPC, ReembedPC, BuildPC
<1>2. job'[w].run \in 0..runs' /\ job'[w].next = 1 /\ job'[w].failed = {}
  BY <1>1 DEF LeafProgress, At
<1>. QED BY <1>1, <1>2, LeafPlain DEF CopyPC, TxPC, EmbedPC

(* The ingest up to its first batch.                                        *)
LEMMA LeafPrepare ==
  ASSUME TypeOK, NEW w \in Worker, LeafProgress(w),
         Guard(w) \/ MarkProcessing(w) \/ Parse(w) \/ InsertParents(w)
  PROVE  LeafProgress(w)'
<1>0. job[w] \in Jobs /\ job \in [Worker -> Jobs] /\ UNCHANGED runs
  BY DEF TypeOK, Guard, MarkProcessing, Parse, InsertParents
<1>1. job[w].pc \in {"guard", "mark", "parse", "parents"}
  BY DEF Guard, MarkProcessing, Parse, InsertParents, At
<1>2. job[w].run \in 0..runs /\ job[w].next = 1 /\ job[w].failed = {}
  BY <1>1 DEF LeafProgress, EmbedPC
<1>3. ASSUME NEW p \in {"mark", "delChunks", "parents", "leaves", "children"},
             job'[w].pc = p, job'[w].file = job[w].file, job'[w].run = job[w].run,
             job'[w].next = job[w].next, job'[w].failed = job[w].failed
      PROVE  LeafProgress(w)'
  <2>1. CASE p \in {"mark", "delChunks", "parents"}
    BY <1>0, <1>2, <1>3, <2>1, LeafPlain DEF CopyPC, TxPC, EmbedPC
  <2>2. CASE p \in {"leaves", "children"}
    <3>1. job'[w].next = 1 /\ job'[w].failed = {} /\ 1 \in Leaf
      BY <1>2, <1>3, LeafAssumption DEF Leaf
    <3>2. 1..(job'[w].next - 1) = {}
      BY <3>1
    <3>3. Got(w, job[w].next - 1)'
      BY <3>2 DEF Got
    <3>. QED BY <1>0, <1>2, <1>3, <2>2, <3>1, <3>3 DEF LeafProgress, CopyPC, TxPC, EmbedPC, TailPC
  <2>. QED BY <2>1, <2>2
<1>4. CASE Guard(w)
  <2>1. CASE End(w)
    BY <2>1, LeafEnd
  <2>2. CASE ~End(w)
    <3>1. PICK p \in {cfg[job[w].file], NoFp} :
            job' = [job EXCEPT ![w] = [job[w] EXCEPT !.pc = "mark", !.fp = p]]
      BY <1>0, <1>4, <2>2 DEF Guard
    <3>. QED BY <1>0, <1>3, <3>1 DEF Jobs
  <2>. QED BY <2>1, <2>2
<1>5. CASE MarkProcessing(w)
  <2> DEFINE t == cfg[job[w].file] \notin ParentChild
  <2>1. job' = [job EXCEPT ![w] = [job[w] EXCEPT !.pc = "delChunks", !.tail = t]]
    BY <1>0, <1>5 DEF MarkProcessing
  <2> HIDE DEF t
  <2>. QED BY <1>0, <1>3, <2>1 DEF Jobs
<1>6. CASE Parse(w)
  <2> DEFINE q == IF cfg[job[w].file] \in ParentChild THEN "parents" ELSE "leaves"
  <2>1. PICK b \in BOOLEAN : job' = [job EXCEPT ![w] = [job[w] EXCEPT !.degraded = b, !.pc = q]]
    BY <1>0, <1>6 DEF Parse
  <2>2. q \in {"parents", "leaves"}
    OBVIOUS
  <2> HIDE DEF q
  <2>3. /\ job'[w].pc = q /\ job'[w].file = job[w].file /\ job'[w].run = job[w].run
        /\ job'[w].next = job[w].next /\ job'[w].failed = job[w].failed
    BY <1>0, <2>1 DEF Jobs
  <2>. QED BY <1>3, <2>2, <2>3
<1>7. CASE InsertParents(w)
  BY <1>3, <1>7, GotoKeeps DEF InsertParents, PC, BuildPC
<1>. QED BY <1>4, <1>5, <1>6, <1>7

(* A batch.                                                                 *)
LEMMA LeafBatch ==
  ASSUME TypeOK, NEW w \in Worker, LeafProgress(w), EmbedChildren(w) \/ EmbedBatch(w)
  PROVE  LeafProgress(w)'
<1>0. /\ job[w] \in Jobs /\ job \in [Worker -> Jobs] /\ UNCHANGED runs
      /\ chunks \in [File -> SUBSET IndexRows]
  BY DEF TypeOK, EmbedChildren, EmbedBatch
<1>1. job[w].pc \in {"children", "leaves"}
  BY DEF EmbedChildren, EmbedBatch, At
<1>2. PICK f \in File : f = job[w].file
  BY <1>1, FileOfJob DEF At
<1>3. /\ job[w].run \in 0..runs /\ job[w].next \in Leaf /\ Got(w, job[w].next - 1)
      /\ job[w].pc = "children" => job[w].failed = {}
  BY <1>1 DEF LeafProgress
<1>4. PICK here \in {"children", "leaves"}, n \in Leaf, old \in SUBSET Nat, r \in Nat :
        here = job[w].pc /\ n = job[w].next /\ old = job[w].failed /\ r = job[w].run
  BY <1>0, <1>1, <1>3 DEF Jobs
<1>5. n \in Nat /\ NLeaf \in Nat /\ n >= 1 /\ n <= NLeaf /\ n + 1 - 1 = n
  BY LeafAssumption DEF Leaf
<1> DEFINE done == IF here = "children" THEN "finishPC" ELSE "finish"
           q == IF n = NLeaf THEN done ELSE here
<1>6. PICK bad \in SUBSET {n} :
        /\ bad = {} => Store(w, n)
        /\ bad # {} => here = "leaves" /\ UNCHANGED chunks
        /\ NextBatch(w, here, done, bad)
  <2>1. CASE EmbedChildren(w)
    BY <1>4, <2>1 DEF EmbedChildren, At
  <2>2. CASE EmbedBatch(w)
    <3>1. here = "leaves" /\ done = "finish"
      BY <1>4, <2>2 DEF EmbedBatch, At
    <3>. QED BY <1>4, <2>2, <3>1 DEF EmbedBatch
  <2>. QED BY <2>1, <2>2
<1> DEFINE worse == old \cup bad
           m == n + 1
<1>7. job' = [job EXCEPT ![w] = [job[w] EXCEPT !.next = m, !.failed = worse, !.pc = q]]
  BY <1>0, <1>4, <1>6 DEF NextBatch
<1>8. /\ job'[w].pc = q /\ job'[w].next = m /\ job'[w].failed = worse
      /\ job'[w].file = f /\ job'[w].run = r
  <2> HIDE DEF q, m, worse
  <2>. QED BY <1>0, <1>2, <1>4, <1>7 DEF Jobs
<1>9. chunks[f] \subseteq chunks'[f] /\ (bad = {} => Built(w, n) \in chunks'[f])
  BY <1>0, <1>2, <1>6 DEF Store
<1>10. ASSUME NEW l \in (1..n) \ worse PROVE LeafIn(chunks'[f], r, r, l)
  <2>1. CASE l = n
    <3>1. bad = {}
      BY <1>6, <1>10, <2>1
    <3>2. Built(w, n).run = r /\ Built(w, n).build = r /\ Built(w, n).piece = n
      BY <1>4 DEF Built, IndexRow
    <3>. QED BY <1>9, <2>1, <3>1, <3>2 DEF LeafIn
  <2>2. CASE l # n
    <3>1. l \in (1..(n - 1)) \ old
      BY <1>5, <1>10, <2>2
    <3>2. LeafIn(chunks[f], r, r, l)
      BY <1>2, <1>3, <1>4, <3>1 DEF Got
    <3>. QED BY <1>9, <3>2 DEF LeafIn
  <2>. QED BY <2>1, <2>2
<1>11. Got(w, n)'
  <2> HIDE DEF worse
  <2>. QED BY <1>8, <1>10 DEF Got
<1>12. job'[w].run \in 0..runs' /\ (here = "children" => job'[w].failed = {})
  BY <1>0, <1>3, <1>4, <1>6, <1>8
<1>13. CASE n = NLeaf
  <2>1. job'[w].pc = done /\ done \in {"finish", "finishPC"} /\ (done = "finishPC" => here = "children")
    BY <1>8, <1>13
  <2> HIDE DEF done, q
  <2>2. Got(w, NLeaf)'
    BY <1>11, <1>13
  <2>. QED BY <1>12, <2>1, <2>2 DEF LeafProgress, CopyPC, TxPC, EmbedPC, TailPC
<1>14. CASE n # NLeaf
  <2>1. job'[w].pc = here /\ job'[w].next = n + 1 /\ n + 1 \in Leaf
    BY <1>5, <1>8, <1>14 DEF Leaf
  <2>2. job'[w].next - 1 = n
    BY <1>5, <2>1
  <2>3. Got(w, job[w].next - 1)'
    BY <1>11, <2>2 DEF Got
  <2> HIDE DEF done, q
  <2>. QED BY <1>12, <2>1, <2>3 DEF LeafProgress, CopyPC, TxPC, EmbedPC, TailPC
<1>. QED BY <1>13, <1>14

(* The final status and what comes after it.                               *)
LEMMA LeafTail ==
  ASSUME TypeOK, NEW w \in Worker, Hidden(w), LeafProgress(w),
         \/ FinishFlat(w) \/ FinishParentChild(w) \/ HypeStage(w) \/ HypeChunk(w)
         \/ Raptor(w) \/ Stamp(w)
  PROVE  LeafProgress(w)'
<1>0. /\ job[w] \in Jobs /\ job \in [Worker -> Jobs] /\ UNCHANGED runs
      /\ chunks \in [File -> SUBSET IndexRows]
  BY DEF TypeOK, FinishFlat, FinishParentChild, HypeStage, HypeChunk, Raptor, Stamp
<1>1. job[w].pc \in {"finish", "finishPC"} \cup TailPC
  BY DEF FinishFlat, FinishParentChild, HypeStage, HypeChunk, Raptor, Stamp, At, TailPC
<1>2. PICK f \in File : f = job[w].file
  BY <1>1, FileOfJob DEF At, TailPC
<1>3. /\ job[w].run \in 0..runs /\ Got(w, NLeaf)
      /\ job[w].pc \in {"finishPC", "stampPC"} => job[w].failed = {}
  BY <1>1 DEF LeafProgress, TailPC
<1>13. ASSUME job[w].failed # {} PROVE row'[f].status # "completed"
  <2>1. OwnReady(w, f)
    BY <1>2, IngestReady DEF IngestStep
  <2>2. row[f].status # "completed"
    <3>1. CASE job[w].pc \in TailPC
      BY <1>2, <1>13, <3>1 DEF LeafProgress
    <3>2. CASE job[w].pc \in {"finish", "finishPC"}
      BY <1>2, <3>2, NotReadySets DEF Hidden, BuildPC
    <3>. QED BY <1>1, <3>1, <3>2
  <2>3. job[w].pc # "markCopied" /\ job[w].pc # "finishPC"
    BY <1>1, <1>3, <1>13 DEF TailPC
  <2>. QED BY <1>13, <2>1, <2>2, <2>3 DEF OwnReady, MarkCopied, FinishParentChild, At
<1>4. chunks[f] \subseteq chunks'[f]
  BY <1>0, <1>2 DEF FinishFlat, FinishParentChild, HypeStage, HypeChunk, Raptor, Stamp, Store, index
<1>5. ASSUME NEW p \in TailPC, job'[w].pc = p, p = "stampPC" => job[w].pc = "finishPC",
             job'[w].file = f, job'[w].run = job[w].run, job'[w].failed = job[w].failed
      PROVE  LeafProgress(w)'
  <2>1. Got(w, NLeaf)'
    BY <1>2, <1>3, <1>4, <1>5, GotStays
  <2>. QED BY <1>0, <1>3, <1>5, <1>13, <2>1 DEF LeafProgress, CopyPC, TxPC, EmbedPC, TailPC
<1>6. CASE FinishFlat(w)
  BY <1>2, <1>5, <1>6, GotoKeeps DEF FinishFlat, PC, TailPC
<1>7. CASE FinishParentChild(w)
  BY <1>2, <1>5, <1>7, GotoKeeps DEF FinishParentChild, At, PC, TailPC
<1>8. ASSUME NEW j, job' = [job EXCEPT ![w] = j],
             \/ j = [job[w] EXCEPT !.pc = "hypeChunk", !.rows = chunks[f]]
             \/ j = [job[w] EXCEPT !.pc = "hypeChunk", !.degraded = TRUE]
             \/ j = [job[w] EXCEPT !.pc = "stamp", !.degraded = TRUE]
      PROVE  LeafProgress(w)'
  <2>1. /\ job'[w].pc \in {"hypeChunk", "stamp"} /\ job'[w].file = f
        /\ job'[w].run = job[w].run /\ job'[w].failed = job[w].failed
    <3>1. CASE j = [job[w] EXCEPT !.pc = "hypeChunk", !.rows = chunks[f]]
      BY <1>0, <1>2, <1>8, <3>1 DEF Jobs
    <3>2. CASE j = [job[w] EXCEPT !.pc = "hypeChunk", !.degraded = TRUE]
      BY <1>0, <1>2, <1>8, <3>2 DEF Jobs
    <3>3. CASE j = [job[w] EXCEPT !.pc = "stamp", !.degraded = TRUE]
      BY <1>0, <1>2, <1>8, <3>3 DEF Jobs
    <3>. QED BY <1>8, <3>1, <3>2, <3>3
  <2>. QED BY <1>5, <2>1 DEF TailPC
<1>9. CASE HypeStage(w)
  BY <1>0, <1>2, <1>8, <1>9 DEF HypeStage
<1>10. CASE HypeChunk(w)
  <2>1. PICK c \in job[w].rows :
          \/ job' = [job EXCEPT ![w] = [job[w] EXCEPT !.rows = job[w].rows \ {c}]]
          \/ job' = [job EXCEPT ![w] = [job[w] EXCEPT !.rows = job[w].rows \ {c},
                                                    !.degraded = TRUE]]
    BY <1>0, <1>10 DEF HypeChunk
  <2>2. job[w].pc = "hypeChunk"
    BY <1>10 DEF HypeChunk, At
  <2>3. /\ job'[w].pc = "hypeChunk" /\ job'[w].file = f
        /\ job'[w].run = job[w].run /\ job'[w].failed = job[w].failed
    <3>1. CASE job' = [job EXCEPT ![w] = [job[w] EXCEPT !.rows = job[w].rows \ {c}]]
      BY <1>0, <1>2, <2>2, <3>1 DEF Jobs
    <3>2. CASE job' = [job EXCEPT ![w] = [job[w] EXCEPT !.rows = job[w].rows \ {c},
                                                      !.degraded = TRUE]]
      BY <1>0, <1>2, <2>2, <3>2 DEF Jobs
    <3>. QED BY <2>1, <3>1, <3>2
  <2>. QED BY <1>5, <2>3 DEF TailPC
<1>11. CASE Raptor(w)
  <2>1. CASE Goto(w, "stamp")
    BY <1>2, <1>5, <2>1, GotoKeeps DEF PC, TailPC
  <2>2. CASE ~Goto(w, "stamp")
    BY <1>0, <1>8, <1>11, <2>2 DEF Raptor
  <2>. QED BY <2>1, <2>2
<1>12. CASE Stamp(w)
  <2>1. CASE End(w)
    BY <2>1, LeafEnd
  <2>2. CASE Goto(w, "progress")
    <3>1. job'[w].pc = "progress" /\ job'[w].run = job[w].run
      BY <2>2, GotoKeeps DEF PC
    <3>. QED BY <1>0, <1>3, <3>1, LeafPlain DEF CopyPC, TxPC
  <2>. QED BY <1>12, <2>1, <2>2 DEF Stamp
<1>. QED BY <1>6, <1>7, <1>9, <1>10, <1>11, <1>12

(* A copier's donor has leaves, which it copies while the token stays.       *)
LEMMA LeafCopier ==
  ASSUME TypeOK, NEW w \in Worker, LeafProgress(w), job[w].pc \in CopyPC \ {"lookup"},
         NEW f \in File, NEW d \in File, f = job[w].file, d = job[w].donor,
         job'[w].pc \in CopyPC \ {"lookup"}, job'[w].file = f, job'[w].donor = d,
         job'[w].fp = job[w].fp, job'[w].gen = job[w].gen, job'[w].run = job[w].run,
         job'[w].next = job[w].next, job'[w].failed = job[w].failed,
         UNCHANGED runs, row'[d] = row[d],
         job'[w].pc \in {"copyChunks", "copyHype", "commit"} /\ Stands(w) =>
           job'[w].rows = {} \/ HasLeaves(job'[w].rows, runs),
         job'[w].pc = "recheck" /\ Stands(w) => HasLeaves(chunks'[f], runs),
         job'[w].pc = "markCopied" => HasLeaves(chunks'[f], runs)
  PROVE  LeafProgress(w)'
<1>1. /\ job[w].pc \notin EmbedPC /\ job'[w].pc \notin EmbedPC \cup TailPC \cup {"idle"}
      /\ job[w].pc # "idle"
  BY DEF CopyPC, TxPC, EmbedPC, TailPC
<1>2. /\ job[w].run \in 0..runs /\ job[w].next = 1 /\ job[w].failed = {} /\ job[w].fp \in Fp
      /\ d # f /\ job[w].gen <= row[d].gen /\ (Stands(w) => Advertises(d, job[w].fp))
  BY <1>1 DEF LeafProgress
<1>3. Stands(w)' <=> Stands(w)
  BY DEF Stands, Same
<1>4. Stands(w)' => Advertises(job[w].donor, job[w].fp)'
  BY <1>2, <1>3 DEF Advertises
<1>5. HasLeaves(chunks'[f], runs) => CopyHasLeaves(w)'
  BY DEF CopyHasLeaves
<1>. QED BY <1>1, <1>2, <1>3, <1>4, <1>5 DEF LeafProgress, EmbedPC

LEMMA LeafFind ==
  ASSUME TypeOK, NEW w \in Worker, LeafProgress(w), NEW d \in File, FindCopyDonor(w, d)
  PROVE  LeafProgress(w)'
<1>0. job[w] \in Jobs /\ job \in [Worker -> Jobs] /\ row[d].gen \in Nat
  BY DEF TypeOK, FileRows
<1>1. /\ job[w].pc = "lookup" /\ d # job[w].file /\ Advertises(d, job[w].fp)
      /\ UNCHANGED <<row, runs>>
      /\ job' = [job EXCEPT ![w] = [job[w] EXCEPT !.pc = "copyMark", !.donor = d,
                                                 !.gen = row[d].gen]]
  BY <1>0 DEF FindCopyDonor, At
<1>2. /\ job'[w].pc = "copyMark" /\ job'[w].file = job[w].file /\ job'[w].run = job[w].run
      /\ job'[w].next = job[w].next /\ job'[w].failed = job[w].failed /\ job'[w].fp = job[w].fp
      /\ job'[w].donor = d /\ job'[w].gen = row[d].gen
  BY <1>0, <1>1 DEF Jobs
<1>3. job[w].run \in 0..runs /\ job[w].next = 1 /\ job[w].failed = {} /\ job[w].fp \in Fp
  BY <1>1 DEF LeafProgress, CopyPC, EmbedPC
<1>4. row'[d].gen = row[d].gen /\ row[d].gen <= row[d].gen
  BY <1>0, <1>1
<1>5. Advertises(job[w].donor, job[w].fp)'
  BY <1>1, <1>2 DEF Advertises
<1>. QED BY <1>1, <1>2, <1>3, <1>4, <1>5 DEF LeafProgress, CopyPC, TxPC, EmbedPC, TailPC

LEMMA LeafCopies ==
  ASSUME TypeOK, ReadyRowsHaveLeaves, NEW w \in Worker, LeafProgress(w),
         \/ CopyMark(w) \/ ClearTarget(w) \/ CopyParents(w) \/ MapChunks(w) \/ CopyHype(w)
         \/ CopyChunks(w) /\ Goto(w, "copyHype")
         \/ CommitCopy(w) /\ job[w].rows # {}
         \/ Recheck(w) /\ DonorStillValid(w) /\ Goto(w, "markCopied")
  PROVE  LeafProgress(w)'
<1>0. /\ job[w] \in Jobs /\ job \in [Worker -> Jobs] /\ UNCHANGED runs /\ row \in [File -> FileRows]
      /\ chunks \in [File -> SUBSET IndexRows] /\ runs \in Nat
  BY DEF TypeOK, CopyMark, ClearTarget, CopyParents, MapChunks, CopyHype, CopyChunks, CommitCopy, Recheck
<1>1. job[w].pc \in CopyPC \ {"lookup"}
  BY DEF CopyMark, ClearTarget, CopyParents, MapChunks, CopyHype, CopyChunks, CommitCopy, Recheck,
         At, CopyPC, TxPC
<1>2. PICK f \in File, d \in File : f = job[w].file /\ d = job[w].donor
  BY <1>1, FileOfJob DEF At, CopyPC, TxPC, TypeOK
<1>3. d # f /\ job[w].fp \in Fp /\ (Stands(w) => Advertises(d, job[w].fp)) /\ job[w].run \in 0..runs
  BY <1>1, <1>2 DEF LeafProgress, CopyPC, TxPC
<1>4. row'[d] = row[d]
  <2>1. CASE CopyMark(w)
    BY <1>0, <1>2, <1>3, <2>1 DEF CopyMark, Update
  <2>2. CASE ~CopyMark(w)
    BY <2>2 DEF ClearTarget, CopyParents, MapChunks, CopyHype, CopyChunks, CommitCopy, Recheck
  <2>. QED BY <2>1, <2>2
<1>5. ASSUME NEW j, job' = [job EXCEPT ![w] = j], j.pc \in CopyPC \ {"lookup"},
             j.file = f, j.donor = d, j.fp = job[w].fp, j.gen = job[w].gen,
             j.run = job[w].run, j.next = job[w].next, j.failed = job[w].failed,
             j.pc \in {"copyChunks", "copyHype", "commit"} /\ Stands(w) =>
               j.rows = {} \/ HasLeaves(j.rows, runs),
             j.pc = "recheck" /\ Stands(w) => HasLeaves(chunks'[f], runs),
             j.pc = "markCopied" => HasLeaves(chunks'[f], runs)
      PROVE  LeafProgress(w)'
  <2>1. job'[w] = j
    BY <1>0, <1>5
  <2>. QED BY <1>0, <1>1, <1>2, <1>4, <1>5, <2>1, LeafCopier
<1>6. CASE CopyMark(w)
  <2> DEFINE j == [job[w] EXCEPT !.pc = "clear"]
  <2>1. job' = [job EXCEPT ![w] = j]
    BY <1>0, <1>6 DEF CopyMark, Goto
  <2>2. /\ j.pc = "clear" /\ j.file = f /\ j.donor = d /\ j.fp = job[w].fp /\ j.gen = job[w].gen
        /\ j.run = job[w].run /\ j.next = job[w].next /\ j.failed = job[w].failed
    BY <1>0, <1>2 DEF Jobs
  <2> HIDE DEF j
  <2>. QED BY <1>5, <2>1, <2>2 DEF CopyPC
<1>7. CASE ClearTarget(w)
  <2> DEFINE old == chunks[f] \cup parents[f]
             oldQs == hype[f]
             pmap == parents[d]
             j == [job[w] EXCEPT !.pc = "copyParents", !.old = old, !.oldQs = oldQs, !.pmap = pmap]
  <2>1. job' = [job EXCEPT ![w] = j]
    BY <1>0, <1>2, <1>7 DEF ClearTarget
  <2> HIDE DEF old, oldQs, pmap
  <2>2. /\ j.pc = "copyParents" /\ j.file = f /\ j.donor = d /\ j.fp = job[w].fp /\ j.gen = job[w].gen
        /\ j.run = job[w].run /\ j.next = job[w].next /\ j.failed = job[w].failed
    BY <1>0, <1>2 DEF Jobs
  <2> HIDE DEF j
  <2>. QED BY <1>5, <2>1, <2>2 DEF CopyPC, TxPC
<1>8. CASE CopyParents(w)
  <2> DEFINE pmap == job[w].pmap \cap parents[d]
             j == [job[w] EXCEPT !.pc = "mapChunks", !.pmap = pmap]
  <2>1. job' = [job EXCEPT ![w] = j]
    BY <1>0, <1>2, <1>8 DEF CopyParents
  <2> HIDE DEF pmap
  <2>2. /\ j.pc = "mapChunks" /\ j.file = f /\ j.donor = d /\ j.fp = job[w].fp /\ j.gen = job[w].gen
        /\ j.run = job[w].run /\ j.next = job[w].next /\ j.failed = job[w].failed
    BY <1>0, <1>2 DEF Jobs
  <2> HIDE DEF j
  <2>. QED BY <1>5, <2>1, <2>2 DEF CopyPC, TxPC
<1>9. CASE MapChunks(w)
  <2> DEFINE q == IF chunks[d] = {} THEN "commit" ELSE "copyChunks"
             rows == chunks[d]
             j == [job[w] EXCEPT !.rows = rows, !.pc = q]
  <2>1. job' = [job EXCEPT ![w] = j]
    BY <1>0, <1>2, <1>9 DEF MapChunks
  <2>2. q \in {"commit", "copyChunks"}
    OBVIOUS
  <2>3. Stands(w) => rows = {} \/ HasLeaves(rows, runs)
    BY <1>3 DEF Advertises, ReadyRowsHaveLeaves
  <2> HIDE DEF q, rows
  <2>4. /\ j.pc = q /\ j.file = f /\ j.donor = d /\ j.fp = job[w].fp /\ j.gen = job[w].gen
        /\ j.run = job[w].run /\ j.next = job[w].next /\ j.failed = job[w].failed
        /\ j.rows = rows
    BY <1>0, <1>2 DEF Jobs
  <2> HIDE DEF j
  <2>. QED BY <1>5, <2>1, <2>2, <2>3, <2>4 DEF CopyPC, TxPC
<1>10. CASE CopyChunks(w) /\ Goto(w, "copyHype")
  <2> DEFINE j == [job[w] EXCEPT !.pc = "copyHype"]
  <2>1. job' = [job EXCEPT ![w] = j] /\ job[w].pc = "copyChunks"
    BY <1>0, <1>10 DEF CopyChunks, Goto, At
  <2>2. /\ j.pc = "copyHype" /\ j.file = f /\ j.donor = d /\ j.fp = job[w].fp /\ j.gen = job[w].gen
        /\ j.run = job[w].run /\ j.next = job[w].next /\ j.failed = job[w].failed
        /\ j.rows = job[w].rows
    BY <1>0, <1>2 DEF Jobs
  <2>3. Stands(w) => job[w].rows = {} \/ HasLeaves(job[w].rows, runs)
    BY <2>1 DEF LeafProgress
  <2> HIDE DEF j
  <2>. QED BY <1>5, <2>1, <2>2, <2>3 DEF CopyPC, TxPC
<1>11. CASE CopyHype(w)
  <2> DEFINE qs == job[w].rows \cap hype[d]
             j == [job[w] EXCEPT !.pc = "commit", !.qs = qs]
  <2>1. job' = [job EXCEPT ![w] = j] /\ job[w].pc = "copyHype"
    BY <1>0, <1>2, <1>11 DEF CopyHype, At
  <2> HIDE DEF qs
  <2>2. /\ j.pc = "commit" /\ j.file = f /\ j.donor = d /\ j.fp = job[w].fp /\ j.gen = job[w].gen
        /\ j.run = job[w].run /\ j.next = job[w].next /\ j.failed = job[w].failed
        /\ j.rows = job[w].rows
    BY <1>0, <1>2 DEF Jobs
  <2>3. Stands(w) => job[w].rows = {} \/ HasLeaves(job[w].rows, runs)
    BY <2>1 DEF LeafProgress
  <2> HIDE DEF j
  <2>. QED BY <1>5, <2>1, <2>2, <2>3 DEF CopyPC, TxPC
<1>12. CASE CommitCopy(w) /\ job[w].rows # {}
  <2> DEFINE j == [job[w] EXCEPT !.pc = "recheck", !.pmap = {}, !.rows = {},
                                 !.qs = {}, !.old = {}, !.oldQs = {}]
  <2>1. job' = [job EXCEPT ![w] = j] /\ job[w].pc = "commit"
    BY <1>0, <1>12 DEF CommitCopy, At
  <2>2. /\ j.pc = "recheck" /\ j.file = f /\ j.donor = d /\ j.fp = job[w].fp /\ j.gen = job[w].gen
        /\ j.run = job[w].run /\ j.next = job[w].next /\ j.failed = job[w].failed
    BY <1>0, <1>2 DEF Jobs
  <2>3. Copied(job[w].rows, job[w].run) \subseteq chunks'[f]
    BY <1>0, <1>2, <1>12 DEF CommitCopy
  <2>4. ASSUME Stands(w) PROVE HasLeaves(chunks'[f], runs)
    <3>1. HasLeaves(job[w].rows, runs) /\ job[w].rows \subseteq IndexRows
      BY <1>0, <1>12, <2>1, <2>4 DEF LeafProgress, Jobs
    <3>2. HasLeaves(Copied(job[w].rows, job[w].run), runs)
      BY <1>0, <1>3, <3>1, CopiedLeaves
    <3>3. runs >= runs
      BY <1>0
    <3>. QED BY <1>0, <2>3, <3>2, <3>3, MoreLeaves
  <2> HIDE DEF j
  <2>. QED BY <1>5, <2>1, <2>2, <2>4 DEF CopyPC, TxPC
<1>13. CASE Recheck(w) /\ DonorStillValid(w) /\ Goto(w, "markCopied")
  <2> DEFINE j == [job[w] EXCEPT !.pc = "markCopied"]
  <2>1. job' = [job EXCEPT ![w] = j] /\ job[w].pc = "recheck" /\ UNCHANGED chunks
    BY <1>0, <1>13 DEF Recheck, Goto, At, index
  <2>2. /\ j.pc = "markCopied" /\ j.file = f /\ j.donor = d /\ j.fp = job[w].fp /\ j.gen = job[w].gen
        /\ j.run = job[w].run /\ j.next = job[w].next /\ j.failed = job[w].failed
    BY <1>0, <1>2 DEF Jobs
  <2>3. Stands(w)
    BY <1>2, <1>13 DEF DonorStillValid, Advertises, Stands, Same
  <2>4. HasLeaves(chunks[f], runs)
    BY <1>2, <2>1, <2>3 DEF LeafProgress, CopyHasLeaves
  <2>5. HasLeaves(chunks'[f], runs)
    BY <2>1, <2>4
  <2> HIDE DEF j
  <2>. QED BY <1>5, <2>1, <2>2, <2>5 DEF CopyPC, TxPC
<1>. QED BY <1>6, <1>7, <1>8, <1>9, <1>10, <1>11, <1>12, <1>13

LEMMA LeafOwn ==
  ASSUME LeafInv, TypeOK', NEW w \in Worker, WorkerStep(w)
  PROVE  LeafProgress(w)'
<1> USE DEF LeafInv, RunInv
<1>1. ASSUME NEW f \in File, NEW k \in Kind, StartTask(w, f, k) PROVE LeafProgress(w)'
  <2>1. /\ job'[w].pc = (IF k = "reembed" THEN "preflight" ELSE "lookup")
        /\ job'[w].run = runs + 1 /\ job'[w].next = 1 /\ job'[w].failed = {}
        /\ job'[w].fp = (IF k = "reembed" THEN NoFp ELSE cfg[f])
        /\ runs' = runs + 1 /\ runs \in Nat /\ cfg[f] \in Fp
    BY <1>1 DEF StartTask, NoJob, TypeOK
  <2>2. job'[w].run \in 0..runs'
    BY <2>1
  <2>3. CASE k = "reembed"
    BY <2>1, <2>2, <2>3, LeafPlain DEF CopyPC, TxPC, EmbedPC
  <2>4. CASE k # "reembed"
    BY <2>1, <2>2, <2>4 DEF LeafProgress, CopyPC, TxPC, EmbedPC, TailPC
  <2>. QED BY <2>3, <2>4
<1>2. CASE WorkerCrash(w) \/ AttemptFails(w) \/ LastAttemptFails(w)
  BY <1>2, LeafEnd DEF WorkerCrash, AttemptFails, LastAttemptFails
<1>3. CASE ~ \E f \in File, k \in Kind : StartTask(w, f, k)
  <2>0. ~At(w, "idle")
    BY <1>3, StepIsAtWork
  <2>1. CASE SkipCopy(w) \/ CopyFails(w) \/ RowGoneNoticed(w)
    BY <2>0, <2>1, LeafDrop DEF SkipCopy, CopyFails, RowGoneNoticed
  <2>2. CASE \E d \in File : FindCopyDonor(w, d)
    BY <2>2, LeafFind
  <2>3. CASE CopyMark(w) \/ ClearTarget(w) \/ CopyParents(w) \/ MapChunks(w) \/ CopyHype(w)
    BY <2>3, LeafCopies
  <2>4. CASE CopyChunks(w) \/ CommitCopy(w) \/ Recheck(w)
    <3>1. CASE Drop(w, "clean")
      BY <2>0, <2>4, <3>1, LeafDrop DEF CopyChunks, CommitCopy, Recheck
    <3>2. CASE ~Drop(w, "clean")
      BY <2>4, <3>2, LeafCopies DEF CopyChunks, CommitCopy, Recheck
    <3>. QED BY <3>1, <3>2
  <2>5. CASE MarkCopied(w) \/ FinalProgress(w)
    BY <2>5, LeafEnd DEF MarkCopied, FinalProgress
  <2>6. CASE \/ CleanChunks(w) \/ CleanParents(w) \/ CleanHype(w) \/ Preflight(w)
             \/ ReembedMark(w) \/ ReembedDeleteChunks(w) \/ ReembedDeleteParents(w)
             \/ DeleteOldChunks(w) \/ DeleteOldParents(w)
    <3>1. job[w].pc \notin EmbedPC /\ UNCHANGED runs
      BY <2>6 DEF CleanChunks, CleanParents, CleanHype, Preflight, ReembedMark,
           ReembedDeleteChunks, ReembedDeleteParents, DeleteOldChunks, DeleteOldParents, At, EmbedPC
    <3>. QED BY <2>0, <2>6, <3>1, LeafGoto DEF CleanChunks, CleanParents, CleanHype, Preflight,
           ReembedMark, ReembedDeleteChunks, ReembedDeleteParents, DeleteOldChunks, DeleteOldParents
  <2>7. CASE Guard(w) \/ MarkProcessing(w) \/ Parse(w) \/ InsertParents(w)
    BY <2>7, LeafPrepare
  <2>8. CASE EmbedChildren(w) \/ EmbedBatch(w)
    BY <2>8, LeafBatch
  <2>9. CASE \/ FinishFlat(w) \/ FinishParentChild(w) \/ HypeStage(w) \/ HypeChunk(w)
             \/ Raptor(w) \/ Stamp(w)
    BY <2>9, LeafTail
  <2>. QED BY <1>2, <1>3, <2>1, <2>2, <2>3, <2>4, <2>5, <2>6, <2>7, <2>8, <2>9
         DEF WorkerStep, CopyStep, IngestStep
<1>. QED BY <1>1, <1>3

(* The donor of a copy: another step leaves its row alone, moves its token  *)
(* or removes it for good.                                                 *)
RowRely(d) ==
  /\ row'[d].gen >= row[d].gen
  /\ row[d].status = "deleted" => row'[d].status = "deleted"
  /\ CopyDonor(d) =>
       row'[d] = row[d] \/ row'[d].gen > row[d].gen \/ row'[d].status = "deleted"

LEMMA RowRelyStep ==
  ASSUME Alone, RunInv, Next, NEW d \in File
  PROVE  RowRely(d)
<1>0. row[d] \in FileRows /\ row[d].gen >= row[d].gen
  BY DEF RunInv, TypeOK, FileRows
<1>1. ASSUME NEW f \in File, FileStep(f) PROVE RowRely(d)
  BY <1>0, <1>1, FileStepAlone DEF FileAlone, RowRely
<1>2. ASSUME NEW w \in Worker, WorkerStep(w) PROVE RowRely(d)
  <2>1. Local(w)
    BY <1>2, WorkerLocal DEF RunInv
  <2>2. CASE d # job[w].file
    BY <1>0, <2>1, <2>2 DEF Local, RowRely
  <2>3. CASE \E f \in File, k \in Kind : StartTask(w, f, k)
    BY <1>0, <2>3 DEF StartTask, RowRely
  <2>4. CASE d = job[w].file /\ ~ \E f \in File, k \in Kind : StartTask(w, f, k)
    BY <1>2, <2>4, RunDisciplined DEF Disciplined, RowRely, Exists
  <2>. QED BY <2>2, <2>3, <2>4
<1>. QED BY <1>1, <1>2 DEF Next

(* What a run may rely on while others step.                               *)
LEMMA LeafRely ==
  ASSUME TypeOK, TypeOK', NEW v \in Worker, LeafProgress(v), job'[v] = job[v], runs' >= runs,
         ~At(v, "idle") => chunks'[job[v].file] = chunks[job[v].file],
         \A f \in File : f = job[v].file /\ row'[f].status = "completed" =>
           row[f].status = "completed",
         \A d \in File : RowRely(d)
  PROVE  LeafProgress(v)'
<1>0. runs \in Nat /\ runs' \in Nat
  BY DEF TypeOK
<1>1. job[v].run \in 0..runs => job[v].run \in 0..runs'
  BY <1>0
<1>2. ASSUME job[v].pc # "idle"
      PROVE  /\ \A n : Got(v, n) => \A f \in File : f = job[v].file =>
                  \A l \in (1..n) \ job[v].failed : LeafIn(chunks'[f], job[v].run, job[v].run, l)
             /\ CopyHasLeaves(v) => CopyHasLeaves(v)'
  <2>1. PICK f \in File : f = job[v].file /\ chunks'[f] = chunks[f]
    BY <1>2, FileOfJob DEF At
  <2>2. HasLeaves(chunks[f], runs) => HasLeaves(chunks'[f], runs')
    BY <1>0, <2>1, MoreLeaves
  <2>. QED BY <2>1, <2>2 DEF Got, CopyHasLeaves
<1>3. ASSUME job[v].pc \in {"children", "leaves"} PROVE Got(v, job[v].next - 1)'
  BY <1>2, <1>3 DEF LeafProgress, Got
<1>4. ASSUME job[v].pc \in {"finish", "finishPC"} \cup TailPC PROVE Got(v, NLeaf)'
  BY <1>2, <1>4 DEF LeafProgress, Got, TailPC
<1>5. ASSUME job[v].pc \in CopyPC \ {"lookup"}
      PROVE  /\ job[v].gen <= row'[job[v].donor].gen
             /\ Stands(v)' => Stands(v) /\ Advertises(job[v].donor, job[v].fp)'
  <2> DEFINE d == job[v].donor
  <2>1. d \in File /\ job[v] \in Jobs
    BY <1>5 DEF TypeOK
  <2>2. /\ row[d].gen \in Nat /\ row'[d].gen \in Nat /\ job[v].gen \in Nat
        /\ row'[d].gen >= row[d].gen
    BY <2>1 DEF TypeOK, FileRows, Jobs, RowRely
  <2>3. /\ job[v].fp \in Fp /\ job[v].gen <= row[d].gen
        /\ Stands(v) => Advertises(d, job[v].fp)
    BY <1>5 DEF LeafProgress
  <2>4. job[v].gen <= row'[d].gen
    BY <2>2, <2>3
  <2>5. ASSUME Stands(v)' PROVE Stands(v) /\ row'[d] = row[d]
    <3>1. row'[d].gen = job[v].gen /\ row'[d].status # "deleted"
      BY <2>5 DEF Stands, Same
    <3>2. /\ row[d].gen = job[v].gen /\ ~(row'[d].gen > row[d].gen)
          /\ row[d].status # "deleted"
      BY <2>1, <2>2, <2>3, <3>1 DEF RowRely
    <3>3. Stands(v) /\ CopyDonor(d)
      BY <2>3, <3>2, FpAssumption DEF Stands, Same, CopyDonor, Advertises
    <3>. QED BY <2>1, <3>1, <3>2, <3>3 DEF RowRely
  <2>6. Stands(v)' => Advertises(job[v].donor, job[v].fp)'
    BY <2>3, <2>5 DEF Advertises
  <2>. QED BY <2>4, <2>5, <2>6
<1>6. HasLeaves(job[v].rows, runs) => HasLeaves(job[v].rows, runs')
  BY <1>0, MoreLeaves
<1>7. ASSUME job[v].pc \in CopyPC \ {"lookup"}
      PROVE  /\ job[v].pc \in {"copyChunks", "copyHype", "commit"} /\ Stands(v)' =>
                  job[v].rows = {} \/ HasLeaves(job[v].rows, runs')
             /\ job[v].pc = "recheck" /\ Stands(v)' => CopyHasLeaves(v)'
             /\ job[v].pc = "markCopied" => CopyHasLeaves(v)'
             /\ job[v].fp \in Fp /\ job[v].donor # job[v].file
  <2>1. job[v].pc # "idle"
    BY <1>7 DEF CopyPC, TxPC
  <2>. QED BY <1>2, <1>5, <1>6, <1>7, <2>1 DEF LeafProgress
<1>8. CASE job[v].pc \in CopyPC \ {"lookup"}
  BY <1>1, <1>5, <1>7, <1>8 DEF LeafProgress, CopyPC, TxPC, EmbedPC, TailPC
<1>9. CASE job[v].pc \notin CopyPC \ {"lookup"}
  BY <1>1, <1>3, <1>4, <1>9 DEF LeafProgress, CopyPC, TxPC
<1>. QED BY <1>8, <1>9

(* The rows that say 'completed' keep their leaves, and only files with all  *)
(* leaves come to say so.                                                  *)
LEMMA LeafRows ==
  ASSUME LeafInv, TypeOK', Next
  PROVE  ReadyRowsHaveLeaves'
<1> SUFFICES ASSUME NEW g \in File, row'[g].status = "completed"
             PROVE  HasLeaves(chunks'[g], runs') \/ (del'[g] # "no" /\ chunks'[g] = {})
  BY DEF ReadyRowsHaveLeaves
<1>0. TypeOK /\ RunInv /\ runs \in Nat /\ runs' \in Nat /\ runs' >= runs
  BY RunsGrow DEF LeafInv, RunInv, TypeOK
<1>1. ASSUME row[g].status = "completed", del'[g] = "no" => del[g] = "no",
             chunks'[g] = chunks[g] \/ (del'[g] # "no" /\ chunks'[g] = {})
      PROVE  HasLeaves(chunks'[g], runs') \/ (del'[g] # "no" /\ chunks'[g] = {})
  <2>1. HasLeaves(chunks[g], runs) \/ (del[g] # "no" /\ chunks[g] = {})
    BY <1>1 DEF LeafInv, ReadyRowsHaveLeaves
  <2>2. HasLeaves(chunks[g], runs) /\ chunks'[g] = chunks[g] => HasLeaves(chunks'[g], runs')
    BY <1>0, MoreLeaves
  <2>. QED BY <1>1, <2>1, <2>2
<1>2. ASSUME NEW f \in File, FileStep(f)
      PROVE  HasLeaves(chunks'[g], runs') \/ (del'[g] # "no" /\ chunks'[g] = {})
  BY <1>0, <1>1, <1>2, FileStepReady DEF FileReady
<1>3. ASSUME NEW w \in Worker, WorkerStep(w)
      PROVE  HasLeaves(chunks'[g], runs') \/ (del'[g] # "no" /\ chunks'[g] = {})
  <2>0. Local(w) /\ Hidden(w) /\ LeafProgress(w)
    BY <1>0, <1>3, WorkerLocal DEF LeafInv
  <2>1. UNCHANGED del
    BY <2>0 DEF Local
  <2>2. CASE \E f \in File, k \in Kind : StartTask(w, f, k)
    <3>1. UNCHANGED <<row, chunks>>
      BY <2>2 DEF StartTask, index
    <3>. QED BY <1>1, <2>1, <3>1
  <2>3. CASE g # job[w].file
    BY <1>1, <2>0, <2>1, <2>3 DEF Local
  <2>4. CASE g = job[w].file /\ ~ \E f \in File, k \in Kind : StartTask(w, f, k)
    <3>1. OwnReady(w, g) /\ ~At(w, "idle")
      BY <1>0, <1>3, <2>0, <2>4, WorkerReady
    <3>2. CASE row[g].status = "completed" /\ chunks'[g] = chunks[g]
      BY <1>1, <2>1, <3>2
    <3>5. CASE row[g].status = "completed" /\ job[w].pc \in TailPC /\ chunks[g] \subseteq chunks'[g]
      <4>1. Got(w, NLeaf) /\ job[w].run \in 0..runs /\ job[w].failed = {}
        BY <2>0, <2>4, <3>5 DEF LeafProgress, TailPC
      <4>2. \A l \in Leaf : LeafIn(chunks[g], job[w].run, job[w].run, l)
        BY <2>4, <4>1 DEF Got, Leaf
      <4>3. HasLeaves(chunks[g], runs)
        BY <4>1, <4>2 DEF HasLeaves
      <4>. QED BY <1>0, <3>5, <4>3, MoreLeaves
    <3>3. CASE UNCHANGED chunks /\ MarkCopied(w)
      <4>1. HasLeaves(chunks[g], runs)
        BY <2>0, <2>4, <3>3 DEF MarkCopied, At, LeafProgress, CopyHasLeaves
      <4>. QED BY <1>0, <3>3, <4>1, MoreLeaves
    <3>4. CASE /\ UNCHANGED chunks
               /\ FinishParentChild(w) \/ ((FinishFlat(w) \/ Stamp(w)) /\ job[w].failed = {})
      <4>1. job[w].pc \in {"finish", "finishPC"} \cup TailPC
        BY <3>4 DEF FinishParentChild, FinishFlat, Stamp, At, TailPC
      <4>2. Got(w, NLeaf) /\ job[w].run \in 0..runs /\ job[w].failed = {}
        BY <2>0, <3>4, <4>1 DEF LeafProgress, FinishParentChild, At, TailPC
      <4>3. \A l \in Leaf : LeafIn(chunks[g], job[w].run, job[w].run, l)
        BY <2>4, <4>2 DEF Got, Leaf
      <4>4. HasLeaves(chunks[g], runs)
        BY <4>2, <4>3 DEF HasLeaves
      <4>. QED BY <1>0, <3>4, <4>4, MoreLeaves
    <3>. QED BY <3>1, <3>2, <3>3, <3>4, <3>5 DEF OwnReady
  <2>. QED BY <2>2, <2>3, <2>4
<1>. QED BY <1>2, <1>3 DEF Next

LEMMA LeafWorker ==
  ASSUME Alone, LeafInv, TypeOK', NEW w \in Worker, WorkerStep(w), NEW v \in Worker
  PROVE  Hidden(v)' /\ LeafProgress(v)'
<1>0. TypeOK /\ RunInv /\ Exclusive /\ Hidden(v) /\ LeafProgress(v) /\ Hidden(w) /\ Next /\ Local(w)
  BY WorkerLocal DEF LeafInv, RunInv, Next
<1>1. CASE v = w
  <2>1. LeafProgress(w)'
    BY LeafOwn
  <2>2. CASE \E f \in File, k \in Kind : StartTask(w, f, k)
    <3>1. job'[w].pc \in {"preflight", "lookup"}
      BY <1>0, <2>2 DEF StartTask, NoJob, TypeOK
    <3>. QED BY <1>1, <2>1, <3>1, NotReadySets DEF Hidden
  <2>3. CASE ~ \E f \in File, k \in Kind : StartTask(w, f, k)
    <3>1. PICK f \in File : f = job[w].file /\ OwnReady(w, f)
      BY <1>0, <2>3, WorkerReady
    <3>2. Hidden(w)'
      BY <3>1, FileAssumption DEF OwnReady, Hidden
    <3>. QED BY <1>1, <2>1, <3>2
  <2>. QED BY <2>2, <2>3
<1>2. CASE v # w
  <2>1. job'[v] = job[v]
    BY <1>0, <1>2 DEF Local
  <2>2. ASSUME ~At(v, "idle")
        PROVE  row'[job[v].file] = row[job[v].file] /\ chunks'[job[v].file] = chunks[job[v].file]
    <3>1. CASE \E f \in File, k \in Kind : StartTask(w, f, k)
      BY <3>1 DEF StartTask, index
    <3>2. CASE ~ \E f \in File, k \in Kind : StartTask(w, f, k)
      <4>1. job[v].file # job[w].file /\ job[v].file \in File
        BY <1>0, <1>2, <2>2, <3>2, FileOfJob, StepIsAtWork DEF Exclusive
      <4>. QED BY <1>0, <4>1 DEF Local
    <3>. QED BY <3>1, <3>2
  <2>3. runs' >= runs /\ \A d \in File : RowRely(d)
    BY <1>0, RunsGrow, RowRelyStep
  <2>4. LeafProgress(v)'
    <3>1. \A f \in File : f = job[v].file => row'[f] = row[f]
      BY <1>0, <2>2, FileAssumption DEF At, TypeOK
    <3>. QED BY <1>0, <2>1, <2>2, <2>3, <3>1, LeafRely
  <2>5. Hidden(v)'
    BY <1>0, <2>1, <2>2, NotReadySets DEF Hidden, At
  <2>. QED BY <2>4, <2>5
<1>. QED BY <1>1, <1>2

LEMMA LeafFile ==
  ASSUME Alone, LeafInv, TypeOK', NEW f \in File, FileStep(f), NEW v \in Worker
  PROVE  Hidden(v)' /\ LeafProgress(v)'
<1>0. TypeOK /\ RunInv /\ Hidden(v) /\ LeafProgress(v) /\ Next
  BY DEF LeafInv, RunInv, Next
<1>1. FileAlone(f) /\ FileReady(f) /\ job'[v] = job[v]
  BY <1>0, FileStepAlone, FileStepReady DEF FileAlone
<1>2. ASSUME ~At(v, "idle") PROVE chunks'[job[v].file] = chunks[job[v].file]
  BY <1>0, <1>1, <1>2, FileOfJob DEF FileAlone, Busy
<1>3. runs' >= runs /\ \A d \in File : RowRely(d)
  BY <1>0, RunsGrow, RowRelyStep
<1>4. LeafProgress(v)'
  BY <1>0, <1>1, <1>2, <1>3, LeafRely DEF FileReady
<1>5. Hidden(v)'
  BY <1>0, <1>1 DEF Hidden, FileReady
<1>. QED BY <1>4, <1>5

(* However runs of different files, copies, retries, crashes and deletes     *)
(* interleave, also with settings that change under a run, with deletes of   *)
(* old rows and of the row that fail, and with a donor that is deleted under *)
(* its copier and could not be retired: a file shown as ready has every leaf *)
(* of one build, inserted by one run.  'completed' is written after the last *)
(* batch and is gone before the first old chunk is deleted (ingestFile,      *)
(* reembedHandler, MarkCopied), as long as runs of one file do not overlap   *)
(* and no file is deleted under its run.                                    *)
THEOREM ReadyHasEveryLeaf ==
  ASSUME Alone
  PROVE  Spec => []ReadyHasItsLeaves
<1>1. Init => LeafInv
  <2> SUFFICES ASSUME Init PROVE LeafInv
    OBVIOUS
  <2>1. \A w \in Worker : job[w].pc = "idle" /\ job[w].next = 1 /\ job[w].failed = {}
    BY DEF Init, NoJob
  <2>2. \A f \in File : row[f].status = "absent"
    BY DEF Init
  <2>3. ReadyRowsHaveLeaves
    BY <2>2 DEF ReadyRowsHaveLeaves
  <2>4. ASSUME NEW w \in Worker PROVE Hidden(w) /\ LeafProgress(w)
    BY <2>1, NotReadySets DEF Hidden, LeafProgress, CopyPC, TxPC, EmbedPC, TailPC
  <2>. QED BY <2>3, <2>4, InitRetire, RetireRuns DEF LeafInv
<1>2. LeafInv /\ [Next]_vars => LeafInv'
  <2> SUFFICES ASSUME LeafInv, [Next]_vars PROVE LeafInv'
    OBVIOUS
  <2>0. RunInv' /\ TypeOK'
    BY RunStep DEF LeafInv, RunInv
  <2>1. CASE Next
    <3>1. ReadyRowsHaveLeaves'
      BY <2>0, <2>1, LeafRows
    <3>2. \A v \in Worker : Hidden(v)' /\ LeafProgress(v)'
      BY <2>0, <2>1, LeafWorker, LeafFile DEF Next
    <3>. QED BY <2>0, <3>1, <3>2 DEF LeafInv
  <2>2. CASE UNCHANGED vars
    <3>1. UNCHANGED <<row, chunks, del, job, runs>>
      BY <2>2 DEF vars, index
    <3>2. ReadyRowsHaveLeaves'
      BY <3>1 DEF LeafInv, ReadyRowsHaveLeaves
    <3>3. TypeOK /\ runs' >= runs /\ \A d \in File : RowRely(d)
      BY <2>2 DEF vars, index, LeafInv, RunInv, TypeOK, FileRows, RowRely
    <3>4. ASSUME NEW v \in Worker PROVE Hidden(v)' /\ LeafProgress(v)'
      <4>1. LeafProgress(v) /\ Hidden(v)
        BY DEF LeafInv
      <4>2. LeafProgress(v)'
        BY <2>0, <3>1, <3>3, <4>1, LeafRely
      <4>. QED BY <3>1, <4>1, <4>2 DEF Hidden
    <3>. QED BY <2>0, <3>2, <3>4 DEF LeafInv
  <2>. QED BY <2>1, <2>2
<1>3. LeafInv => ReadyHasItsLeaves
  BY DEF LeafInv, ReadyRowsHaveLeaves, ReadyHasItsLeaves, HasLeaves, LeafIn
<1>. QED BY <1>1, <1>2, <1>3, PTL DEF Spec

-----------------------------------------------------------------------------
(***************************************************************************)
(* A copy has the effect of one step of DonorRegistry.                      *)
(***************************************************************************)
NoOffer == [fp |-> NoFp, pieces |-> {}]

LEMMA ContentKept ==
  ASSUME NEW f \in File, SameIndex(f)
  PROVE  Content(f)' = Content(f)
BY DEF Content, SameIndex

LEMMA WholeContent ==
  ASSUME NEW f \in File, NEW p \in Fp, NEW r, NEW b, WholeAs(f, p, r, b)
  PROVE  Content(f) = {<<b, p, x>> : x \in PartsOf(p)}
<1>1. \A x : LET c == IndexRow(r, b, p, x) IN <<c.build, c.cfg, c.piece>> = <<b, p, x>>
  BY DEF IndexRow
<1>2. chunks[f] \cup parents[f] = {IndexRow(r, b, p, x) : x \in PartsOf(p)}
  BY DEF WholeAs, PartsOf
<1>. QED BY <1>1, <1>2 DEF Content

LEMMA CopiedContent ==
  ASSUME NEW S, NEW r, S \subseteq IndexRows
  PROVE  {<<c.build, c.cfg, c.piece>> : c \in Copied(S, r)} = {<<c.build, c.cfg, c.piece>> : c \in S}
<1> DEFINE key(c) == <<c.build, c.cfg, c.piece>>
           new(c) == [c EXCEPT !.run = r]
<1>1. \A c \in S : key(new(c)) = key(c)
  BY DEF IndexRows
<1>2. Copied(S, r) = {new(c) : c \in S}
  BY DEF Copied
<1> HIDE DEF key, new
<1>3. {key(c) : c \in Copied(S, r)} = {key(c) : c \in S}
  BY <1>1, <1>2
<1>. QED BY <1>3 DEF key

(* A copier that commits under an unchanged token has the donor's index.     *)
LEMMA CommitContent ==
  ASSUME TypeOK, NEW w \in Worker, NEW f \in File, f = job[w].file, CopyProgress(w), CommitCopy(w),
         Same(w)
  PROVE  Content(f)' = Content(job[w].donor)
<1>1. PICK d \in File : d = job[w].donor
  BY DEF TypeOK, CommitCopy, At, CopyPC, TxPC
<1>2. /\ chunks \in [File -> SUBSET IndexRows] /\ parents \in [File -> SUBSET IndexRows]
  BY DEF TypeOK
<1>3. /\ chunks'[f] = (chunks[f] \ job[w].old) \cup Copied(job[w].rows, job[w].run)
      /\ parents'[f] = (parents[f] \ job[w].old) \cup Copied(job[w].pmap, job[w].run)
  BY <1>2 DEF CommitCopy
<1>4. /\ job[w].old = chunks[f] \cup parents[f] /\ job[w].pmap = parents[d]
      /\ job[w].rows = chunks[d]
  BY <1>1 DEF CopyProgress, CommitCopy, At, TxPC
<1>5. chunks'[f] = Copied(chunks[d], job[w].run) /\ parents'[f] = Copied(parents[d], job[w].run)
  <2>1. chunks[f] \ job[w].old = {} /\ parents[f] \ job[w].old = {}
    BY <1>4
  <2>. QED BY <1>3, <1>4, <2>1
<1>6. chunks'[f] \cup parents'[f] = Copied(chunks[d] \cup parents[d], job[w].run)
  BY <1>5 DEF Copied
<1>7. chunks[d] \cup parents[d] \subseteq IndexRows
  BY <1>2
<1>. QED BY <1>1, <1>6, <1>7, CopiedContent DEF Content

(* What a run does to its number: it keeps it until it ends, and offers      *)
(* nothing after its last write.                                            *)
GoesOn(w) ==
  \/ job'[w].pc = "idle" /\ End(w)
  \/ /\ job'[w].pc # "idle" /\ job'[w].run = job[w].run /\ job'[w].file = job[w].file
     /\ At(w, "progress") => ~Exists(job[w].file)
     /\ job'[w].pc = "markCopied" => Recheck(w) /\ DonorStillValid(w) /\ Goto(w, "markCopied")

LEMMA Moves ==
  ASSUME TypeOK, NEW w \in Worker
  PROVE  /\ \A p \in PC : Goto(w, p) => job' = [job EXCEPT ![w] = [job[w] EXCEPT !.pc = p]]
         /\ \A p \in PC : Goto(w, p) \/ Drop(w, p) =>
              job'[w].pc = p /\ job'[w].run = job[w].run /\ job'[w].file = job[w].file
         /\ End(w) => job'[w].pc = "idle"
<1>1. job[w] \in Jobs /\ job \in [Worker -> Jobs]
  BY DEF TypeOK
<1>2. ASSUME NEW p \in PC, Goto(w, p)
      PROVE  /\ job' = [job EXCEPT ![w] = [job[w] EXCEPT !.pc = p]]
             /\ job'[w].pc = p /\ job'[w].run = job[w].run /\ job'[w].file = job[w].file
  <2>1. job' = [job EXCEPT ![w] = [job[w] EXCEPT !.pc = p]]
    BY <1>1, <1>2 DEF Goto
  <2>. QED BY <1>1, <2>1 DEF Jobs
<1>3. ASSUME NEW p \in PC, Drop(w, p)
      PROVE  job'[w].pc = p /\ job'[w].run = job[w].run /\ job'[w].file = job[w].file
  BY <1>1, <1>3 DEF Drop, NoJob, Jobs
<1>4. ASSUME End(w) PROVE job'[w].pc = "idle"
  BY <1>1, <1>4 DEF End, NoJob
<1>. QED BY <1>2, <1>3, <1>4

LEMMA CopyGoesOn ==
  ASSUME TypeOK, NEW w \in Worker, CopyStep(w)
  PROVE  GoesOn(w)
<1>0. job[w] \in Jobs /\ job \in [Worker -> Jobs]
  BY DEF TypeOK
<1>1. CASE SkipCopy(w) \/ CopyMark(w) \/ CopyChunks(w) \/ CopyFails(w)
            \/ CleanChunks(w) \/ CleanParents(w) \/ CleanHype(w)
  <2>1. ~At(w, "progress") /\ \E p \in PC \ {"idle", "markCopied"} : Goto(w, p) \/ Drop(w, p)
    BY <1>1 DEF SkipCopy, CopyMark, CopyChunks, CopyFails, CleanChunks, CleanParents, CleanHype, At,
         TxPC, PC, CopyPC, CleanPC
  <2>. QED BY <2>1, Moves DEF GoesOn
<1>2. CASE \E d \in File : FindCopyDonor(w, d)
  <2>1. PICK d \in File : job' = [job EXCEPT ![w] = [job[w] EXCEPT !.pc = "copyMark", !.donor = d,
                                                        !.gen = row[d].gen]]
    BY <1>0, <1>2 DEF FindCopyDonor
  <2>. QED BY <1>0, <1>2, <2>1 DEF GoesOn, FindCopyDonor, At, Jobs
<1>3. CASE ClearTarget(w)
  <2>1. \E A, B, C : job' = [job EXCEPT ![w] = [job[w] EXCEPT !.pc = "copyParents", !.old = A,
                                                     !.oldQs = B, !.pmap = C]]
    BY <1>0, <1>3 DEF ClearTarget
  <2>. QED BY <1>0, <1>3, <2>1 DEF GoesOn, ClearTarget, At, Jobs
<1>4. CASE CopyParents(w)
  <2>1. \E A : job' = [job EXCEPT ![w] = [job[w] EXCEPT !.pc = "mapChunks", !.pmap = A]]
    BY <1>0, <1>4 DEF CopyParents
  <2>. QED BY <1>0, <1>4, <2>1 DEF GoesOn, CopyParents, At, Jobs
<1>5. CASE MapChunks(w)
  BY <1>0, <1>5 DEF GoesOn, MapChunks, At, Jobs
<1>6. CASE CopyHype(w)
  BY <1>0, <1>6 DEF GoesOn, CopyHype, At, Jobs
<1>7. CASE CommitCopy(w)
  <2>1. CASE Drop(w, "clean")
    BY <1>7, <2>1, Moves DEF GoesOn, CommitCopy, At, PC, CleanPC
  <2>2. CASE ~Drop(w, "clean")
    <3>1. job' = [job EXCEPT ![w] = [job[w] EXCEPT !.pc = "recheck", !.pmap = {}, !.rows = {},
                                        !.qs = {}, !.old = {}, !.oldQs = {}]]
      BY <1>0, <1>7, <2>2 DEF CommitCopy
    <3>. QED BY <1>0, <1>7, <3>1 DEF GoesOn, CommitCopy, At, Jobs
  <2>. QED BY <2>1, <2>2
<1>8. CASE Recheck(w)
  <2>1. CASE Drop(w, "clean")
    BY <1>8, <2>1, Moves DEF GoesOn, Recheck, At, PC, CleanPC
  <2>2. CASE DonorStillValid(w) /\ Goto(w, "markCopied")
    BY <1>8, <2>2, Moves DEF GoesOn, Recheck, At, PC, CopyPC
  <2>. QED BY <1>8, <2>1, <2>2 DEF Recheck
<1>9. CASE MarkCopied(w)
  BY <1>9, Moves DEF GoesOn, MarkCopied
<1>. QED BY <1>1, <1>2, <1>3, <1>4, <1>5, <1>6, <1>7, <1>8, <1>9 DEF CopyStep

LEMMA IngestGoesOn ==
  ASSUME TypeOK, NEW w \in Worker, IngestStep(w)
  PROVE  GoesOn(w)
<1>0. job[w] \in Jobs /\ job \in [Worker -> Jobs]
  BY DEF TypeOK
<1>1. CASE Preflight(w) \/ ReembedMark(w) \/ ReembedDeleteChunks(w) \/ ReembedDeleteParents(w)
            \/ DeleteOldChunks(w) \/ DeleteOldParents(w) \/ InsertParents(w)
            \/ FinishFlat(w) \/ FinishParentChild(w)
  <2>1. ~At(w, "progress") /\ \E p \in PC \ {"idle", "markCopied"} : Goto(w, p)
    BY <1>1 DEF Preflight, ReembedMark, ReembedDeleteChunks, ReembedDeleteParents, DeleteOldChunks,
         DeleteOldParents, InsertParents, FinishFlat, FinishParentChild, At,
         PC, ReembedPC, BuildPC, TailPC
  <2>. QED BY <2>1, Moves DEF GoesOn
<1>2. CASE Guard(w)
  <2>1. CASE End(w)
    BY <2>1, Moves DEF GoesOn
  <2>2. CASE ~End(w)
    <3>1. \E p : job' = [job EXCEPT ![w] = [job[w] EXCEPT !.pc = "mark", !.fp = p]]
      BY <1>0, <1>2, <2>2 DEF Guard
    <3>. QED BY <1>0, <1>2, <3>1 DEF GoesOn, Guard, At, Jobs
  <2>. QED BY <2>1, <2>2
<1>3. CASE MarkProcessing(w)
  <2>1. \E t : job' = [job EXCEPT ![w] = [job[w] EXCEPT !.pc = "delChunks", !.tail = t]]
    BY <1>0, <1>3 DEF MarkProcessing
  <2>. QED BY <1>0, <1>3, <2>1 DEF GoesOn, MarkProcessing, At, Jobs
<1>4. CASE Parse(w)
  <2>1. \E bad \in BOOLEAN, p \in {"parents", "leaves"} :
          job' = [job EXCEPT ![w] = [job[w] EXCEPT !.degraded = bad, !.pc = p]]
    BY <1>0, <1>4 DEF Parse
  <2>. QED BY <1>0, <1>4, <2>1 DEF GoesOn, Parse, At, Jobs
<1>5. CASE EmbedChildren(w) \/ EmbedBatch(w)
  <2>1. \E here \in {"children", "leaves"}, done \in {"finishPC", "finish"}, bad \in SUBSET Nat :
          NextBatch(w, here, done, bad)
    BY <1>0, <1>5 DEF EmbedChildren, EmbedBatch, Jobs
  <2>2. PICK here \in {"children", "leaves"}, done \in {"finishPC", "finish"}, bad \in SUBSET Nat :
          NextBatch(w, here, done, bad)
    BY <2>1
  <2>3. job[w].next = NLeaf \/ job[w].next # NLeaf
    OBVIOUS
  <2>4. PICK p \in {here, done} :
          job' = [job EXCEPT ![w] = [job[w] EXCEPT !.next = job[w].next + 1,
                                        !.failed = job[w].failed \cup bad, !.pc = p]]
    BY <1>0, <2>2, <2>3 DEF NextBatch
  <2>. QED BY <1>0, <1>5, <2>4 DEF GoesOn, EmbedChildren, EmbedBatch, At, Jobs
<1>6. CASE HypeStage(w)
  <2>1. CASE job' = [job EXCEPT ![w] = [job[w] EXCEPT !.pc = "hypeChunk",
                                          !.rows = chunks[job[w].file]]]
    BY <1>0, <1>6, <2>1 DEF GoesOn, HypeStage, At, Jobs
  <2>2. CASE job' = [job EXCEPT ![w] = [job[w] EXCEPT !.pc = "hypeChunk", !.degraded = TRUE]]
    BY <1>0, <1>6, <2>2 DEF GoesOn, HypeStage, At, Jobs
  <2>. QED BY <1>0, <1>6, <2>1, <2>2 DEF HypeStage
<1>7. CASE HypeChunk(w)
  <2>1. PICK c : \/ job' = [job EXCEPT ![w] = [job[w] EXCEPT !.rows = job[w].rows \ {c}]]
                 \/ job' = [job EXCEPT ![w] = [job[w] EXCEPT !.rows = job[w].rows \ {c},
                                                             !.degraded = TRUE]]
    BY <1>0, <1>7 DEF HypeChunk
  <2>2. job'[w].pc = job[w].pc /\ job'[w].run = job[w].run /\ job'[w].file = job[w].file
    <3>1. CASE job' = [job EXCEPT ![w] = [job[w] EXCEPT !.rows = job[w].rows \ {c}]]
      BY <1>0, <3>1 DEF Jobs
    <3>2. CASE job' = [job EXCEPT ![w] = [job[w] EXCEPT !.rows = job[w].rows \ {c},
                                                        !.degraded = TRUE]]
      BY <1>0, <3>2 DEF Jobs
    <3>. QED BY <2>1, <3>1, <3>2
  <2>. QED BY <1>7, <2>2 DEF GoesOn, HypeChunk, At
<1>8. CASE Raptor(w)
  <2>1. CASE Goto(w, "stamp")
    BY <1>8, <2>1, Moves DEF GoesOn, Raptor, At, PC, TailPC
  <2>2. CASE job' = [job EXCEPT ![w] = [job[w] EXCEPT !.pc = "stamp", !.degraded = TRUE]]
    BY <1>0, <1>8, <2>2 DEF GoesOn, Raptor, At, Jobs
  <2>. QED BY <1>0, <1>8, <2>1, <2>2 DEF Raptor
<1>9. CASE Stamp(w)
  <2>1. CASE Goto(w, "progress")
    BY <1>9, <2>1, Moves DEF GoesOn, Stamp, At, PC
  <2>2. CASE End(w)
    BY <2>2, Moves DEF GoesOn
  <2>. QED BY <1>9, <2>1, <2>2 DEF Stamp
<1>10. CASE FinalProgress(w)
  BY <1>10, Moves DEF GoesOn, FinalProgress
<1>11. CASE RowGoneNoticed(w)
  BY <1>11, Moves DEF GoesOn, RowGoneNoticed, PC, CleanPC
<1>. QED BY <1>1, <1>2, <1>3, <1>4, <1>5, <1>6, <1>7, <1>8, <1>9, <1>10, <1>11 DEF IngestStep

LEMMA WorkerGoesOn ==
  ASSUME TypeOK, NEW w \in Worker, WorkerStep(w), ~ \E f \in File, k \in Kind : StartTask(w, f, k)
  PROVE  GoesOn(w)
<1>1. CASE WorkerCrash(w) \/ AttemptFails(w) \/ LastAttemptFails(w)
  BY <1>1, Moves DEF WorkerCrash, AttemptFails, LastAttemptFails, GoesOn
<1>. QED BY <1>1, CopyGoesOn, IngestGoesOn DEF WorkerStep

LEMMA StaysEnlisted ==
  ASSUME Orderly, RetireInv, Next, NEW g \in File, row[g].status # "absent"
  PROVE  row'[g].status # "absent"
<1>0. row[g] \in FileRows /\ row \in [File -> FileRows]
  BY DEF RetireInv, TypeOK
<1>1. ASSUME NEW f \in File, FileStep(f) PROVE row'[g].status # "absent"
  <2>1. CASE UNCHANGED row
    BY <2>1
  <2>2. CASE Upload(f) \/ Retry(f) \/ StuckSweep(f) \/ DeleteRow(f)
    BY <1>0, <2>2 DEF Upload, Retry, StuckSweep, DeleteRow, FileRows
  <2>3. CASE DeleteFile(f)
    <3>1. \/ row' = row
          \/ row' = [row EXCEPT ![f] = [Touched(row[f]) EXCEPT !.fp = NoFp]]
      BY <2>3 DEF DeleteFile
    <3>2. g = f => Touched(row[g]) \in FileRows /\ Touched(row[g]).status = row[g].status
      BY <1>0, RowType, RowWrites
    <3>. QED BY <1>0, <3>1, <3>2 DEF FileRows
  <2>4. CASE \/ Reembed(f) \/ ChangeConfig(f) \/ DropTask(f)
             \/ CascadeChunks(f) \/ CascadeHype(f) \/ CascadeParents(f)
    BY <2>4 DEF Reembed, ChangeConfig, DropTask, CascadeChunks, CascadeHype, CascadeParents
  <2>. QED BY <1>1, <2>2, <2>3, <2>4 DEF FileStep
<1>2. ASSUME NEW w \in Worker, WorkerStep(w) PROVE row'[g].status # "absent"
  <2>1. Local(w)
    BY <1>2, WorkerLocal DEF RetireInv
  <2>2. CASE g # job[w].file
    BY <2>1, <2>2 DEF Local
  <2>3. CASE \E f \in File, k \in Kind : StartTask(w, f, k)
    BY <2>3 DEF StartTask
  <2>4. CASE g = job[w].file /\ ~ \E f \in File, k \in Kind : StartTask(w, f, k)
    <3>1. Disciplined(w, g)
      BY <1>2, <2>4, WorkerDisciplined
    <3>. QED BY <3>1 DEF Disciplined, Exists
  <2>. QED BY <2>2, <2>3, <2>4
<1>. QED BY <1>1, <1>2 DEF Next

LEMMA OwnRequests ==
  ASSUME NEW w \in Worker, WorkerStep(w)
  PROVE  \/ queue' \subseteq queue
         \/ queue' \subseteq queue \cup {<<job[w].file, job[w].kind>>} /\ ~At(w, "idle")
<1>1. CASE CopyStep(w)
  BY <1>1 DEF CopyStep, SkipCopy, FindCopyDonor, CopyMark, ClearTarget, CopyParents,
       MapChunks, CopyChunks, CopyHype, CommitCopy, CopyFails, Recheck, MarkCopied,
       CleanChunks, CleanParents, CleanHype
<1>2. CASE IngestStep(w)
  BY <1>2 DEF IngestStep, Preflight, ReembedMark, ReembedDeleteChunks, ReembedDeleteParents,
       Guard, MarkProcessing, DeleteOldChunks, DeleteOldParents, Parse, InsertParents,
       EmbedChildren, EmbedBatch, FinishFlat, FinishParentChild, HypeStage, HypeChunk,
       Raptor, Stamp, FinalProgress, RowGoneNoticed
<1>3. CASE WorkerCrash(w) \/ AttemptFails(w) \/ LastAttemptFails(w)
  BY <1>3 DEF WorkerCrash, AttemptFails, LastAttemptFails, Requeue, At, FailPC
<1>4. CASE \E f \in File, k \in Kind : StartTask(w, f, k)
  BY <1>4 DEF StartTask
<1>. QED BY <1>1, <1>2, <1>3, <1>4 DEF WorkerStep

LEMMA FileRequests ==
  ASSUME TypeOK, Enlisted, NEW f \in File, FileStep(f),
         \A g \in File : row[g].status # "absent" => row'[g].status # "absent"
  PROVE  \A g \in File, k \in Kind : <<g, k>> \in queue' => row'[g].status # "absent"
<1> SUFFICES ASSUME NEW g \in File, NEW k \in Kind, <<g, k>> \in queue', <<g, k>> \notin queue
             PROVE  row'[g].status # "absent"
  BY DEF Enlisted
<1>0. row[f] \in FileRows /\ row \in [File -> FileRows]
  BY DEF TypeOK
<1>1. CASE Upload(f) \/ Retry(f)
  BY <1>0, <1>1 DEF Upload, Retry, Request, FileRows
<1>2. CASE Reembed(f)
  BY <1>0, <1>2 DEF Reembed, Request
<1>3. CASE \/ StuckSweep(f) \/ ChangeConfig(f) \/ DropTask(f) \/ DeleteFile(f)
           \/ CascadeChunks(f) \/ CascadeHype(f) \/ CascadeParents(f) \/ DeleteRow(f)
  BY <1>3 DEF StuckSweep, ChangeConfig, DropTask, DeleteFile, CascadeChunks, CascadeHype,
              CascadeParents, DeleteRow
<1>. QED BY <1>1, <1>2, <1>3 DEF FileStep

LEMMA StartedJob ==
  ASSUME TypeOK, NEW w \in Worker, NEW f \in File, NEW k \in Kind, StartTask(w, f, k)
  PROVE  /\ job'[w].pc \in {"lookup", "preflight"} /\ job'[w].file = f /\ job'[w].run = runs + 1
         /\ runs' = runs + 1 /\ runs' # 0 /\ At(w, "idle") /\ <<f, k>> \in queue
         /\ UNCHANGED <<row, chunks, parents, hype>>
BY DEF StartTask, TypeOK, NoJob, index

LEMMA EnlistedStep ==
  ASSUME Orderly, RetireInv, Enlisted, Next
  PROVE  Enlisted'
<1>0. TypeOK
  BY DEF RetireInv
<1>1. \A g \in File : row[g].status # "absent" => row'[g].status # "absent"
  BY StaysEnlisted
<1>2. ASSUME NEW f \in File, FileStep(f) PROVE Enlisted'
  <2>1. UNCHANGED job
    BY <1>2, FileStepLocal DEF FileLocal, FileAlone
  <2>2. \A g \in File, k \in Kind : <<g, k>> \in queue' => row'[g].status # "absent"
    BY <1>0, <1>1, <1>2, FileRequests
  <2>. QED BY <1>1, <2>1, <2>2 DEF Enlisted, At
<1>3. ASSUME NEW w \in Worker, WorkerStep(w) PROVE Enlisted'
  <2>1. \A g \in File, k \in Kind : <<g, k>> \in queue' => row'[g].status # "absent"
    BY <1>1, <1>3, OwnRequests DEF Enlisted
  <2>2. ASSUME NEW v \in Worker \ {w}, job'[v].pc # "idle"
        PROVE  job'[v].run # 0 /\ \A f \in File : f = job'[v].file => row'[f].status # "absent"
    <3>1. job'[v] = job[v]
      BY <1>0, <1>3, <2>2, WorkerLocal DEF Local
    <3>. QED BY <1>1, <2>2, <3>1 DEF Enlisted, At
  <2>3. ASSUME job'[w].pc # "idle"
        PROVE  job'[w].run # 0 /\ \A f \in File : f = job'[w].file => row'[f].status # "absent"
    <3>1. ASSUME NEW f \in File, NEW k \in Kind, StartTask(w, f, k)
          PROVE  job'[w].run # 0 /\ \A g \in File : g = job'[w].file => row'[g].status # "absent"
      BY <1>0, <1>1, <3>1, StartedJob DEF Enlisted
    <3>2. CASE ~ \E f \in File, k \in Kind : StartTask(w, f, k)
      <4>1. GoesOn(w) /\ ~At(w, "idle")
        BY <1>0, <1>3, <3>2, WorkerGoesOn, StepIsAtWork
      <4>. QED BY <1>1, <2>3, <4>1 DEF GoesOn, Enlisted
    <3>. QED BY <3>1, <3>2
  <2>. QED BY <2>1, <2>2, <2>3 DEF Enlisted, At
<1>. QED BY <1>2, <1>3 DEF Next

(* Nobody else touches the copy, and a donor that is touched says so.       *)
LEMMA SameContentKept ==
  ASSUME TypeOK, NEW v \in Worker, CopyProgress(v), SameContent(v), job'[v] = job[v],
         ~At(v, "idle") => SameIndex(job[v].file),
         \A d \in File : DonorRely(d)
  PROVE  SameContent(v)'
<1> SUFFICES ASSUME At(v, "recheck"), Same(v)', NEW f \in File, f = job[v].file
             PROVE  Content(f)' = Content(job[v].donor)'
  BY DEF SameContent, At
<1>1. PICK d \in File : d = job[v].donor
  BY DEF TypeOK, At, CopyPC
<1>2. /\ row[d].gen \in Nat /\ row'[d].gen >= row[d].gen
      /\ job[v].gen <= row[d].gen /\ job[v].gen \in Nat /\ job[v].fp \in Fp
      /\ Same(v) => Advertises(d, job[v].fp)
  BY <1>1 DEF TypeOK, FileRows, Jobs, DonorRely, CopyProgress, At, CopyPC
<1>3. Same(v) /\ row'[d].gen = row[d].gen
  BY <1>1, <1>2 DEF Same, DonorRely
<1>4. CopyDonor(d)
  BY <1>2, <1>3, FpAssumption DEF Advertises, CopyDonor
<1>5. SameIndex(d) /\ SameIndex(f)
  BY <1>3, <1>4 DEF DonorRely, At
<1>. QED BY <1>1, <1>3, <1>5, ContentKept DEF SameContent

(* A worker is at the recheck because it has committed its copy.            *)
LEMMA SameContentOwn ==
  ASSUME Calm, IInv, TypeOK', NEW w \in Worker, WorkerStep(w)
  PROVE  SameContent(w)'
<1>0. /\ TypeOK /\ RetireInv /\ CopyProgress(w) /\ job[w] \in Jobs /\ job \in [Worker -> Jobs]
  BY DEF IInv, RetireInv, TypeOK
<1> SUFFICES ASSUME job'[w].pc = "recheck", Same(w)', NEW f \in File, f = job'[w].file
             PROVE  Content(f)' = Content(job[w].donor)'
  BY DEF SameContent, At
<1>1. CommitCopy(w) /\ job[w].rows # {}
  <2>1. ~ (Recheck(w) /\ Goto(w, "markCopied"))
    BY <1>0, JobMoves DEF PC, CopyPC
  <2>2. ASSUME NEW here \in {"children", "leaves"}, NEW done \in {"finishPC", "finish"}, NEW bad,
               NextBatch(w, here, done, bad)
        PROVE  FALSE
    BY <1>0, <2>2 DEF NextBatch, Jobs
  <2>3. ~EmbedChildren(w) /\ ~EmbedBatch(w)
    BY <2>2 DEF EmbedChildren, EmbedBatch
  <2>. QED BY <1>0, <2>1, <2>3, FinalArrivals DEF FinalPC
<1>2. job' = [job EXCEPT ![w] = [job[w] EXCEPT !.pc = "recheck", !.pmap = {}, !.rows = {},
                                    !.qs = {}, !.old = {}, !.oldQs = {}]]
  BY <1>0, <1>1 DEF CommitCopy
<1>3. job'[w].file = job[w].file /\ job'[w].donor = job[w].donor /\ job'[w].gen = job[w].gen
  BY <1>0, <1>2 DEF Jobs
<1>4. PICK d \in File : d = job[w].donor
  BY <1>0, <1>1 DEF TypeOK, CommitCopy, At, CopyPC, TxPC
<1>5. Same(w) /\ f = job[w].file
  BY <1>1, <1>3 DEF Same, CommitCopy
<1>6. Content(f)' = Content(d)
  BY <1>0, <1>1, <1>4, <1>5, CommitContent
<1>7. d # f
  BY <1>0, <1>1, <1>4, <1>5 DEF CopyProgress, CommitCopy, At, CopyPC, TxPC
<1>8. SameIndex(d)
  BY <1>0, <1>5, <1>7, WorkerLocal DEF Local, SameIndex
<1>9. Content(d)' = Content(d)
  BY <1>8, ContentKept
<1>. QED BY <1>3, <1>4, <1>6, <1>9

LEMMA AtomicStep ==
  ASSUME Calm, AtomicInv, [Next]_vars
  PROVE  AtomicInv'
<1>0. IInv /\ RetireInv /\ TypeOK /\ Orderly /\ Enlisted
  BY CalmIsOrderly DEF AtomicInv, IInv, RetireInv
<1>1. IInv' /\ TypeOK'
  <2>1. IInv'
    BY <1>0, IInvStep
  <2>. QED BY <2>1 DEF IInv, RetireInv
<1>2. CASE Next
  <2>1. Enlisted'
    BY <1>0, <1>2, EnlistedStep
  <2>2. \A d \in File : DonorRely(d)
    BY <1>0, <1>2, DonorRelyStep
  <2>3. ASSUME NEW v \in Worker PROVE SameContent(v)'
    <3>1. SameContent(v) /\ CopyProgress(v)
      BY DEF AtomicInv, IInv
    <3>2. ASSUME NEW f \in File, FileStep(f) PROVE SameContent(v)'
      <4>1. FileLocal(f)
        BY <1>0, <3>2, FileStepLocal
      <4>2. ~At(v, "idle") => SameIndex(job[v].file)
        <5>1. ~At(v, "idle") => job[v].file \in File /\ Busy(job[v].file)
          BY <1>0, FileOfJob DEF Busy
        <5>. QED BY <4>1, <5>1 DEF FileLocal, FileAlone, SameIndex
      <4>. QED BY <1>0, <2>2, <3>1, <4>1, <4>2, SameContentKept DEF FileLocal, FileAlone
    <3>3. ASSUME NEW w \in Worker, WorkerStep(w), w # v PROVE SameContent(v)'
      <4>1. Local(w) /\ job'[v] = job[v]
        BY <1>0, <3>3, WorkerLocal DEF Local
      <4>2. ~At(v, "idle") => SameIndex(job[v].file)
        <5>1. CASE \E f \in File, k \in Kind : StartTask(w, f, k)
          BY <5>1 DEF StartTask, index, SameIndex
        <5>2. CASE ~ \E f \in File, k \in Kind : StartTask(w, f, k)
          BY <1>0, <3>3, <4>1, <5>2, FileOfJob, StepIsAtWork DEF RetireInv, Exclusive, Local, SameIndex
        <5>. QED BY <5>1, <5>2
      <4>. QED BY <1>0, <2>2, <3>1, <4>1, <4>2, SameContentKept
    <3>. QED BY <1>0, <1>1, <1>2, <3>2, <3>3, SameContentOwn DEF Next
  <2>. QED BY <1>1, <2>1, <2>3 DEF AtomicInv
<1>3. CASE UNCHANGED vars
  BY <1>1, <1>3 DEF vars, index, AtomicInv, Enlisted, SameContent, Same, Content, At
<1>. QED BY <1>2, <1>3

LEMMA InitAtomic == Init => AtomicInv
<1> SUFFICES ASSUME Init PROVE AtomicInv
  OBVIOUS
<1>1. queue = {} /\ \A w \in Worker : job[w].pc = "idle"
  BY DEF Init, NoJob
<1>. QED BY <1>1, InitIInv DEF AtomicInv, Enlisted, SameContent, At

(* What a step of a run does to the offer of its file.                      *)
OffersWell(w, f) ==
  \/ Offered(f)' = Offered(f)
  \/ /\ Offered(f) # NoOffer /\ Offered(f)' = NoOffer
     /\ CopyMark(w) \/ ReembedMark(w) \/ MarkProcessing(w)
  \/ /\ Exists(f) /\ Offered(f) = NoOffer /\ Stamp(w)
     /\ \E p \in Fp : Offered(f)' = [fp |-> p, pieces |-> {<<job[w].run, p, x>> : x \in PartsOf(p)}]
  \/ Exists(f) /\ Offered(f) = NoOffer /\ MarkCopied(w) /\ Offered(f)' = Holding(w)

LEMMA OfferForm ==
  ASSUME TypeOK, NEW f \in File
  PROVE  /\ CopyDonor(f) => Offered(f).fp = row[f].fp /\ Offered(f) # NoOffer
         /\ ~CopyDonor(f) => Offered(f) = NoOffer
         /\ CopyDonor(f) => row[f].fp \in Fp /\ Exists(f)
<1>1. CopyDonor(f) => row[f].fp \in Fp /\ Exists(f)
  BY DEF TypeOK, FileRows, CopyDonor, Advertises, Exists
<1>. QED BY <1>1 DEF Offered, NoOffer, CopyDonor

LEMMA WorkerOffer ==
  ASSUME Calm, AtomicInv, TypeOK', NEW w \in Worker, WorkerStep(w),
         ~ \E f \in File, k \in Kind : StartTask(w, f, k),
         NEW f \in File, f = job[w].file
  PROVE  OffersWell(w, f)
<1>0. /\ IInv /\ RetireInv /\ TypeOK /\ RebuildRetiresDonor /\ Orderly
      /\ BuildProgress(w) /\ CopyProgress(w)
  BY CalmIsOrderly DEF AtomicInv, IInv, RetireInv
<1>1. row[f] \in FileRows /\ row \in [File -> FileRows] /\ job[w] \in Jobs
  BY <1>0 DEF TypeOK
<1>2. Disciplined(w, f)
  BY <1>0, WorkerDisciplined
<1>3. ASSUME row'[f] = row[f] PROVE OffersWell(w, f)
  <2>1. CopyDonor(f)' <=> CopyDonor(f)
    BY <1>3 DEF CopyDonor, Advertises
  <2>2. CopyDonor(f) => Content(f)' = Content(f)
    BY <1>2, ContentKept DEF Disciplined, SameIndex
  <2>. QED BY <1>3, <2>1, <2>2 DEF Offered, OffersWell
<1>4. ASSUME ~CopyDonor(f), ~CopyDonor(f)' PROVE OffersWell(w, f)
  BY <1>4 DEF Offered, OffersWell
<1>5. ASSUME row'[f] # row[f] PROVE OffersWell(w, f)
  <2>2. Exists(f)
    BY <1>2, <1>5 DEF Disciplined
  <2>3. ASSUME NEW r, Update(f, r) PROVE row'[f] = r
    BY <1>1, <2>2, <2>3 DEF Update
  <2>4. CASE CopyMark(w) \/ ReembedMark(w) \/ MarkProcessing(w)
    <3>1. row'[f] = Processing(row[f])
      BY <2>3, <2>4 DEF CopyMark, ReembedMark, MarkProcessing
    <3>2. ~CopyDonor(f)'
      BY <1>1, <3>1, ProcessingWrite DEF CopyDonor
    <3>3. CASE CopyDonor(f)
      <4>1. Offered(f) # NoOffer
        BY <1>0, <3>3, OfferForm
      <4>2. Offered(f)' = NoOffer
        BY <3>2 DEF Offered, NoOffer
      <4>. QED BY <2>4, <4>1, <4>2 DEF OffersWell
    <3>. QED BY <1>4, <3>2, <3>3
  <2>5. CASE LastAttemptFails(w)
    <3>1. row'[f] = [row[f] EXCEPT !.status = "error"]
      BY <1>5, <2>3, <2>5 DEF LastAttemptFails
    <3>2. ~CopyDonor(f)'
      BY <1>1, <3>1 DEF FileRows, CopyDonor, Advertises
    <3>3. ~CopyDonor(f)
      <4>1. CASE job[w].pc \in MarkFailedPC
        BY <1>0, <4>1, TakenSets DEF RebuildRetiresDonor, TakenApart, MarkFailedPC, BuildPC, CopyDonor
      <4>2. CASE row[f].status \notin {"completed", "partial"}
        BY <4>2 DEF CopyDonor, Advertises
      <4>. QED BY <1>5, <2>5, <4>1, <4>2 DEF LastAttemptFails
    <3>. QED BY <1>4, <3>2, <3>3
  <2>6. CASE FinishFlat(w) \/ FinishParentChild(w)
    <3>1. \E s \in Status : row'[f] = [row[f] EXCEPT !.status = s]
      BY <1>5, <2>3, <2>6 DEF FinishFlat, FinishParentChild, Status
    <3>2. row'[f].fp = row[f].fp
      BY <1>1, <3>1 DEF FileRows
    <3>3. job[w].pc \in TakenPC
      BY <2>6, TakenSets DEF FinishFlat, FinishParentChild, At, BuildPC
    <3>4. row[f].fp = NoFp
      BY <1>0, <3>3 DEF RebuildRetiresDonor, TakenApart
    <3>. QED BY <1>4, <3>2, <3>4 DEF CopyDonor
  <2>7. CASE Stamp(w)
    <3>1. job[w].pc \in TakenPC
      BY <2>7, TakenSets DEF Stamp, TailPC
    <3>2. ~CopyDonor(f)
      BY <1>0, <3>1 DEF RebuildRetiresDonor, TakenApart, CopyDonor
    <3>3. CASE CopyDonor(f)'
      <4>1. PICK p \in Fp : p = row'[f].fp
        BY <3>3 DEF TypeOK, FileRows, CopyDonor
      <4>2. PICK r : r = job[w].run /\ WholeAs(f, p, r, r)'
        BY <1>0, <1>5, <2>7, <4>1, StampBuild
      <4>3. SameIndex(f)
        BY <2>7 DEF Stamp, index, SameIndex
      <4>4. WholeAs(f, p, r, r)
        BY <4>2, <4>3 DEF WholeAs, SameIndex
      <4>5. Content(f) = {<<r, p, x>> : x \in PartsOf(p)}
        BY <4>4, WholeContent
      <4>6. Content(f)' = {<<r, p, x>> : x \in PartsOf(p)}
        BY <4>3, <4>5, ContentKept
      <4>7. Offered(f)' = [fp |-> p, pieces |-> {<<r, p, x>> : x \in PartsOf(p)}]
        BY <3>3, <4>1, <4>6 DEF Offered
      <4>8. Offered(f) = NoOffer
        BY <1>0, <3>2, OfferForm
      <4>. QED BY <2>2, <2>7, <4>2, <4>7, <4>8 DEF OffersWell
    <3>. QED BY <1>4, <3>2, <3>3
  <2>8. CASE FinalProgress(w)
    <3>1. row'[f] = Touched(row[f])
      BY <2>3, <2>8 DEF FinalProgress
    <3>2. row'[f].status = row[f].status /\ row'[f].fp = row[f].fp
      BY <1>1, <3>1 DEF Touched, FileRows
    <3>3. CopyDonor(f)' <=> CopyDonor(f)
      BY <3>2 DEF CopyDonor, Advertises
    <3>4. Content(f)' = Content(f)
      BY <2>8, ContentKept DEF FinalProgress, index, SameIndex
    <3>. QED BY <3>2, <3>3, <3>4 DEF Offered, OffersWell
  <2>9. CASE MarkCopied(w)
    <3>1. row'[f] = [Touched(row[f]) EXCEPT !.status = "completed", !.fp = job[w].fp]
      BY <2>3, <2>9 DEF MarkCopied
    <3>2. Touched(row[f]) \in FileRows
      BY <1>1, RowType
    <3>3. job[w].fp \in Fp /\ At(w, "markCopied")
      BY <1>0, <2>9 DEF CopyProgress, MarkCopied, At, CopyPC
    <3>4. row'[f].fp = job[w].fp /\ row'[f].status = "completed"
      BY <3>1, <3>2, <3>3 DEF FileRows
    <3>5. CopyDonor(f)'
      BY <3>3, <3>4, FpAssumption DEF CopyDonor, Advertises
    <3>6. Content(f)' = Content(f)
      BY <2>9, ContentKept DEF MarkCopied, index, SameIndex
    <3>7. Offered(f)' = Holding(w)
      BY <2>2, <3>3, <3>4, <3>5, <3>6 DEF Offered, Holding
    <3>8. ~CopyDonor(f)
      BY <1>0, <3>3, TakenSets DEF RebuildRetiresDonor, TakenApart, CopyDonor, At
    <3>. QED BY <1>0, <2>2, <2>9, <3>7, <3>8, OfferForm DEF OffersWell
  <2>. QED BY <1>0, <1>5, <2>4, <2>5, <2>6, <2>7, <2>8, <2>9, RowWriters
<1>. QED BY <1>3, <1>5

(* What the rest of the system sees of a run.                               *)
SameRun(v) == Building(v)' = Building(v) /\ Holding(v)' = Holding(v)

LEMMA IdleRun ==
  ASSUME NEW v \in Worker, At(v, "idle"), job'[v] = job[v]
  PROVE  SameRun(v)
BY DEF At, SameRun, Building, Holding

LEMMA RunUnseen ==
  ASSUME NEW v \in Worker, NEW g \in File, g = job[v].file, job'[v] = job[v],
         Exists(g)' <=> Exists(g), SameIndex(g)
  PROVE  SameRun(v)
<1>1. Content(g)' = Content(g)
  BY ContentKept
<1>. QED BY <1>1 DEF At, SameRun, Building, Holding

LEMMA OtherRuns ==
  ASSUME Calm, AtomicInv, NEW w \in Worker, WorkerStep(w), NEW v \in Worker, v # w
  PROVE  SameRun(v)
<1>0. TypeOK /\ Exclusive /\ RetireInv
  BY DEF AtomicInv, IInv, RetireInv
<1>1. Local(w) /\ job'[v] = job[v]
  BY <1>0, WorkerLocal DEF Local
<1>2. CASE ~At(v, "idle")
  <2>1. PICK g \in File : g = job[v].file
    BY <1>0, <1>2, FileOfJob
  <2>2. CASE \E f \in File, k \in Kind : StartTask(w, f, k)
    BY <1>1, <2>1, <2>2, RunUnseen DEF StartTask, index, SameIndex, Exists
  <2>3. CASE ~ \E f \in File, k \in Kind : StartTask(w, f, k)
    <3>1. g # job[w].file
      BY <1>0, <1>2, <2>1, <2>3, StepIsAtWork DEF Exclusive
    <3>. QED BY <1>1, <2>1, <3>1, RunUnseen DEF Local, SameIndex, Exists
  <2>. QED BY <2>2, <2>3
<1>. QED BY <1>1, <1>2, IdleRun

LEMMA OtherOffers ==
  ASSUME TypeOK, NEW w \in Worker, WorkerStep(w), NEW g \in File, g # job[w].file
  PROVE  Offered(g)' = Offered(g)
<1>1. row'[g] = row[g] /\ SameIndex(g)
  BY WorkerLocal DEF Local, SameIndex
<1>2. Content(g)' = Content(g)
  BY <1>1, ContentKept
<1>. QED BY <1>1, <1>2 DEF Offered, CopyDonor, Advertises

(* A request, the sweep or the cascade: no run notices, and an offer may go. *)
LEMMA FileRuns ==
  ASSUME Calm, AtomicInv, NEW f \in File, FileStep(f), NEW v \in Worker
  PROVE  SameRun(v)
<1>0. TypeOK /\ Exclusive /\ RetireInv /\ Enlisted /\ Orderly
  BY CalmIsOrderly DEF AtomicInv, IInv, RetireInv
<1>1. FileLocal(f) /\ job'[v] = job[v]
  BY <1>0, FileStepLocal DEF FileLocal, FileAlone
<1>2. CASE ~At(v, "idle")
  <2>1. PICK g \in File : g = job[v].file
    BY <1>0, <1>2, FileOfJob
  <2>2. Busy(g) /\ row[g].status # "absent" /\ ~Deleting(g)
    BY <1>0, <1>2, <2>1 DEF Busy, Enlisted, Exclusive
  <2>3. Exists(g)' <=> Exists(g)
    <3>1. CASE g # f
      BY <1>1, <3>1 DEF FileLocal, FileAlone, Exists
    <3>2. CASE g = f
      <4>0. row[f] \in FileRows /\ row \in [File -> FileRows]
        BY <1>0 DEF TypeOK
      <4>1. ~Upload(f) /\ ~DeleteRow(f) /\ ~DeleteFile(f)
        BY <1>0, <2>2, <3>2 DEF Upload, DeleteRow, DeleteFile, Deleting, Calm
      <4>2. CASE Retry(f) \/ StuckSweep(f)
        BY <4>0, <3>2, <4>2 DEF Retry, StuckSweep, Exists, FileRows
      <4>3. CASE ~Retry(f) /\ ~StuckSweep(f)
        <5>1. row' = row
          BY <4>1, <4>3 DEF FileStep, Reembed, ChangeConfig, DropTask, CascadeChunks,
                            CascadeHype, CascadeParents
        <5>. QED BY <5>1 DEF Exists
      <4>. QED BY <4>2, <4>3
    <3>. QED BY <3>1, <3>2
  <2>4. SameIndex(g)
    BY <1>1, <2>2 DEF FileLocal, FileAlone, SameIndex
  <2>. QED BY <1>1, <2>1, <2>3, <2>4, RunUnseen
<1>. QED BY <1>1, <1>2, IdleRun

LEMMA FileOffers ==
  ASSUME Calm, AtomicInv, NEW f \in File, FileStep(f), NEW g \in File
  PROVE  Offered(g)' = Offered(g) \/ (g = f /\ Offered(g) # NoOffer /\ Offered(g)' = NoOffer)
<1>0. TypeOK /\ RetireInv /\ Orderly
  BY CalmIsOrderly DEF AtomicInv, IInv, RetireInv
<1>1. FileLocal(f)
  BY <1>0, FileStepLocal
<1>2. ASSUME row'[g] = row[g] PROVE Offered(g)' = Offered(g)
  <2>1. CopyDonor(g)' <=> CopyDonor(g)
    BY <1>2 DEF CopyDonor, Advertises
  <2>2. CopyDonor(g) => Content(g)' = Content(g)
    BY <1>1, ContentKept DEF FileLocal, FileAlone, SameIndex
  <2>. QED BY <1>2, <2>1, <2>2 DEF Offered
<1>3. CASE CopyDonor(g)'
  <2>1. row'[g] = row[g]
    BY <1>0, <1>3, DonorRowKept DEF CopyDonor, Advertises
  <2>. QED BY <1>2, <2>1
<1>4. CASE ~CopyDonor(g)' /\ g = f
  BY <1>4 DEF Offered, NoOffer
<1>5. CASE g # f
  BY <1>1, <1>2, <1>5 DEF FileLocal, FileAlone
<1>. QED BY <1>3, <1>4, <1>5

LEMMA RunForm ==
  ASSUME TypeOK, NEW w \in Worker, CopyProgress(w)
  PROVE  /\ Holding(w) # NoOffer <=> At(w, "markCopied") /\ Exists(job[w].file)
         /\ ~(At(w, "markCopied") /\ Exists(job[w].file)) => Holding(w) = NoOffer
<1>1. At(w, "markCopied") => job[w].fp # NoFp
  BY FpAssumption DEF CopyProgress, At, CopyPC
<1>. QED BY <1>1 DEF Holding, NoOffer

(* What a step of a run does to what it builds and holds.                   *)
TakesOver(w) ==
  /\ Building(w) # 0 /\ Building(w)' = Building(w) /\ Holding(w) = NoOffer
  /\ \E d \in File : Offered(d) # NoOffer /\ Holding(w)' = Offered(d)

LEMMA OwnRun ==
  ASSUME Calm, AtomicInv, TypeOK', NEW w \in Worker, WorkerStep(w),
         ~ \E f \in File, k \in Kind : StartTask(w, f, k)
  PROVE  \/ SameRun(w)
         \/ Building(w) # 0 /\ Building(w)' \in {Building(w), 0} /\ Holding(w)' = NoOffer
         \/ TakesOver(w)
<1>0. /\ IInv /\ RetireInv /\ TypeOK /\ Enlisted /\ CopyProgress(w) /\ SameContent(w)
      /\ ~At(w, "idle") /\ job[w] \in Jobs
  BY StepIsAtWork DEF AtomicInv, IInv, RetireInv, TypeOK
<1>1. PICK f \in File : f = job[w].file
  BY <1>0, FileOfJob
<1>2. GoesOn(w) /\ Disciplined(w, f)
  BY <1>0, <1>1, WorkerGoesOn, WorkerDisciplined
<1>3. Exists(f)' <=> Exists(f)
  BY <1>2 DEF Disciplined, Exists
<1>4. CASE job'[w].pc = "idle"
  <2>1. Building(w)' = 0 /\ Holding(w)' = NoOffer
    BY <1>4 DEF Building, Holding, NoOffer, At
  <2>2. Building(w) = 0 => Holding(w) = NoOffer
    BY <1>0 DEF Building, Holding, NoOffer, At, Enlisted
  <2>. QED BY <2>1, <2>2 DEF SameRun
<1>5. CASE job'[w].pc # "idle" /\ job'[w].pc # "markCopied"
  <2>1. job'[w].run = job[w].run /\ job'[w].file = f /\ (At(w, "progress") => ~Exists(f))
    BY <1>1, <1>2, <1>5 DEF GoesOn
  <2>2. Holding(w)' = NoOffer
    BY <1>5 DEF Holding, NoOffer, At
  <2>3. Building(w)' \in {Building(w), 0}
    BY <1>0, <1>1, <1>3, <1>5, <2>1 DEF Building, At
  <2>4. Building(w) = 0 => Holding(w) = NoOffer
    BY <1>0 DEF Building, Holding, NoOffer, At, Enlisted
  <2>. QED BY <2>2, <2>3, <2>4 DEF SameRun
<1>6. CASE job'[w].pc = "markCopied"
  <2>1. /\ job'[w].run = job[w].run /\ job'[w].file = f
        /\ Recheck(w) /\ DonorStillValid(w) /\ Goto(w, "markCopied")
    BY <1>1, <1>2, <1>6 DEF GoesOn
  <2>2. PICK d \in File : d = job[w].donor
    BY <1>0, <2>1 DEF TypeOK, Recheck, At, CopyPC
  <2>3. At(w, "recheck") /\ Same(w) /\ Advertises(d, job[w].fp) /\ UNCHANGED <<row, chunks, parents, hype>>
    BY <2>1, <2>2 DEF Recheck, DonorStillValid, Same, index
  <2>4. job[w].fp \in Fp /\ job[w].fp # NoFp
    BY <1>0, <2>3, FpAssumption DEF CopyProgress, At, CopyPC
  <2>5. job'[w].fp = job[w].fp
    <3>1. job' = [job EXCEPT ![w] = [job[w] EXCEPT !.pc = "markCopied"]]
      BY <1>0, <2>1, Moves DEF PC, CopyPC
    <3>. QED BY <1>0, <3>1 DEF TypeOK, Jobs
  <2>6. Holding(w) = NoOffer
    BY <2>3 DEF Holding, NoOffer, At
  <2>7. CASE ~Exists(f)
    <3>1. Building(w) = 0 /\ Building(w)' = 0 /\ Holding(w)' = NoOffer
      BY <1>1, <1>3, <2>1, <2>7 DEF Building, Holding, NoOffer
    <3>. QED BY <2>6, <3>1 DEF SameRun
  <2>8. CASE Exists(f)
    <3>1. Building(w) = job[w].run /\ Building(w)' = job[w].run /\ job[w].run # 0
      BY <1>0, <1>1, <1>3, <1>6, <2>1, <2>3, <2>8 DEF Building, At, Enlisted
    <3>2. Content(f)' = Content(f) /\ Content(f) = Content(d)
      BY <1>0, <1>1, <2>2, <2>3, ContentKept DEF SameContent, SameIndex
    <3>3. Holding(w)' = [fp |-> job[w].fp, pieces |-> Content(d)]
      BY <1>3, <1>6, <2>1, <2>5, <2>8, <3>2 DEF Holding, At
    <3>4. Offered(d) = [fp |-> job[w].fp, pieces |-> Content(d)] /\ Offered(d) # NoOffer
      BY <2>3, <2>4 DEF Offered, CopyDonor, Advertises, NoOffer
    <3>. QED BY <2>6, <3>1, <3>3, <3>4 DEF TakesOver
  <2>. QED BY <2>7, <2>8
<1>. QED BY <1>4, <1>5, <1>6

(* The steps that change an offer.                                          *)
LEMMA MarkRun ==
  ASSUME TypeOK, NEW w \in Worker, NEW f \in File, f = job[w].file, Exists(f)' <=> Exists(f),
         CopyMark(w) \/ ReembedMark(w) \/ MarkProcessing(w)
  PROVE  SameRun(w)
<1>0. job[w] \in Jobs /\ job \in [Worker -> Jobs]
  BY DEF TypeOK
<1>1. job'[w].run = job[w].run /\ job'[w].file = f /\ job[w].pc \in {"copyMark", "reMark", "mark"}
      /\ job'[w].pc \in {"clear", "reChunks", "delChunks"}
  <2>1. CASE CopyMark(w) \/ ReembedMark(w)
    BY <2>1, Moves DEF CopyMark, ReembedMark, At, PC, CopyPC, ReembedPC
  <2>2. CASE MarkProcessing(w)
    <3>1. PICK t : job' = [job EXCEPT ![w] = [job[w] EXCEPT !.pc = "delChunks", !.tail = t]]
      BY <1>0, <2>2 DEF MarkProcessing
    <3>. QED BY <1>0, <2>2, <3>1 DEF MarkProcessing, At, Jobs
  <2>. QED BY <2>1, <2>2
<1>. QED BY <1>1 DEF SameRun, Building, Holding, At

LEMMA OfferRun ==
  ASSUME TypeOK, NEW w \in Worker, Enlisted, Stamp(w) \/ MarkCopied(w), Exists(job[w].file)
  PROVE  /\ Building(w) = job[w].run /\ job[w].run # 0
         /\ Building(w)' = 0 /\ Holding(w)' = NoOffer
         /\ Stamp(w) => Holding(w) = NoOffer
<1>1. job[w].pc \in {"stamp", "stampPC", "markCopied"}
  BY DEF Stamp, MarkCopied, At
<1>2. job'[w].pc \in {"idle", "progress"}
  BY JobMoves DEF Stamp, MarkCopied, PC
<1>3. Stamp(w) => job[w].pc # "markCopied"
  BY DEF Stamp
<1>. QED BY <1>1, <1>2, <1>3 DEF Building, Holding, NoOffer, At, Enlisted

(* A step that changes one of the mapped functions at one place.            *)
LEMMA OfferChange ==
  ASSUME NEW f \in File, \A g \in File \ {f} : Offered(g)' = Offered(g)
  PROVE  [g \in File |-> Offered(g)]' = [[g \in File |-> Offered(g)] EXCEPT ![f] = Offered(f)']
OBVIOUS

LEMMA RunChange ==
  ASSUME NEW w \in Worker, \A v \in Worker \ {w} : SameRun(v)
  PROVE  /\ [v \in Worker |-> Building(v)]' =
              [[v \in Worker |-> Building(v)] EXCEPT ![w] = Building(w)']
         /\ [v \in Worker |-> Holding(v)]' =
              [[v \in Worker |-> Holding(v)] EXCEPT ![w] = Holding(w)']
<1>1. [v \in Worker |-> Building(v)]' = [[v \in Worker |-> Building(v)] EXCEPT ![w] = Building(w)']
  BY DEF SameRun
<1>2. [v \in Worker |-> Holding(v)]' = [[v \in Worker |-> Holding(v)] EXCEPT ![w] = Holding(w)']
  BY DEF SameRun
<1>. QED BY <1>1, <1>2

LEMMA Unnoticed ==
  ASSUME \A f \in File : Offered(f)' = Offered(f), \A v \in Worker : SameRun(v), runs' = runs
  PROVE  UNCHANGED Registry!vars
<1>1. [g \in File |-> Offered(g)]' = [g \in File |-> Offered(g)]
  OBVIOUS
<1>2. [v \in Worker |-> Building(v)]' = [v \in Worker |-> Building(v)]
  BY DEF SameRun
<1>3. [v \in Worker |-> Holding(v)]' = [v \in Worker |-> Holding(v)]
  BY DEF SameRun
<1>. QED BY <1>1, <1>2, <1>3 DEF Registry!vars

LEMMA FileImplements ==
  ASSUME Calm, AtomicInv, NEW f \in File, FileStep(f)
  PROVE  Registry!Next \/ UNCHANGED Registry!vars
<1>1. runs' = runs /\ \A v \in Worker : SameRun(v)
  BY FileRunsKept, FileRuns
<1>2. CASE \A g \in File : Offered(g)' = Offered(g)
  BY <1>1, <1>2, Unnoticed
<1>3. CASE ~ \A g \in File : Offered(g)' = Offered(g)
  <2>1. /\ \A g \in File \ {f} : Offered(g)' = Offered(g)
        /\ Offered(f) # NoOffer /\ Offered(f)' = NoOffer
    BY <1>3, FileOffers
  <2>2. [g \in File |-> Offered(g)]' = [[g \in File |-> Offered(g)] EXCEPT ![f] = NoOffer]
    BY <2>1, OfferChange
  <2>3. [v \in Worker |-> Building(v)]' = [v \in Worker |-> Building(v)]
    BY <1>1 DEF SameRun
  <2>4. [v \in Worker |-> Holding(v)]' = [v \in Worker |-> Holding(v)]
    BY <1>1 DEF SameRun
  <2>5. Registry!Retire(f)
    BY <1>1, <2>1, <2>2, <2>3, <2>4 DEF Registry!Retire, Registry!Nothing, NoOffer
  <2>. QED BY <2>5 DEF Registry!Next
<1>. QED BY <1>2, <1>3

LEMMA StartImplements ==
  ASSUME Calm, AtomicInv, NEW w \in Worker, NEW f \in File, NEW k \in Kind, StartTask(w, f, k)
  PROVE  Registry!Next
<1>0. TypeOK
  BY DEF AtomicInv, IInv, RetireInv
<1>1. WorkerStep(w)
  BY DEF WorkerStep
<1>2. /\ job'[w].pc \in {"lookup", "preflight"} /\ job'[w].file = f /\ job'[w].run = runs + 1
      /\ runs' = runs + 1 /\ At(w, "idle") /\ UNCHANGED <<row, chunks, parents, hype>>
  BY <1>0, StartedJob
<1>3. \A v \in Worker \ {w} : SameRun(v)
  BY <1>1, OtherRuns
<1>4. Building(w) = 0 /\ Building(w)' \in {0, runs'} /\ Holding(w)' = Holding(w)
  BY <1>2 DEF Building, Holding, At
<1>5. \A g \in File : Offered(g)' = Offered(g)
  BY <1>2 DEF Offered, CopyDonor, Advertises, Content
<1>6. [g \in File |-> Offered(g)]' = [g \in File |-> Offered(g)]
  BY <1>5
<1>7. [v \in Worker |-> Holding(v)]' = [v \in Worker |-> Holding(v)]
  BY <1>3, <1>4 DEF SameRun
<1>8. [v \in Worker |-> Building(v)]' = [[v \in Worker |-> Building(v)] EXCEPT ![w] = Building(w)']
  BY <1>3, RunChange
<1>9. CASE Building(w)' = 0
  <2>1. [v \in Worker |-> Building(v)]' = [v \in Worker |-> Building(v)]
    BY <1>3, <1>4, <1>9 DEF SameRun
  <2>2. Registry!Start(w)
    BY <1>2, <1>4, <1>6, <1>7, <2>1 DEF Registry!Start
  <2>. QED BY <2>2 DEF Registry!Next
<1>10. CASE Building(w)' = runs'
  <2>1. Registry!Start(w)
    BY <1>2, <1>4, <1>6, <1>7, <1>8, <1>10 DEF Registry!Start
  <2>. QED BY <2>1 DEF Registry!Next
<1>. QED BY <1>4, <1>9, <1>10

LEMMA WorkerImplements ==
  ASSUME Calm, AtomicInv, TypeOK', NEW w \in Worker, WorkerStep(w),
         ~ \E f \in File, k \in Kind : StartTask(w, f, k)
  PROVE  Registry!Next \/ UNCHANGED Registry!vars
<1> DEFINE offers == [g \in File |-> Offered(g)]
           builds == [v \in Worker |-> Building(v)]
           copies == [v \in Worker |-> Holding(v)]
<1>0. /\ TypeOK /\ GoneIsNoDonor /\ RetireInv /\ IInv /\ Enlisted /\ CopyProgress(w)
      /\ ~At(w, "idle")
  BY StepIsAtWork DEF AtomicInv, IInv, RetireInv
<1>1. PICK f \in File : f = job[w].file
  BY <1>0, FileOfJob
<1>2. /\ \A v \in Worker \ {w} : SameRun(v)
      /\ \A g \in File \ {f} : Offered(g)' = Offered(g)
      /\ runs' = runs
  BY <1>0, <1>1, OtherRuns, OtherOffers, SameRuns
<1>3. /\ offers' = [offers EXCEPT ![f] = Offered(f)']
      /\ builds' = [builds EXCEPT ![w] = Building(w)']
      /\ copies' = [copies EXCEPT ![w] = Holding(w)']
  BY <1>2, OfferChange, RunChange
<1>4. /\ Offered(f)' = Offered(f) => offers' = offers
      /\ Building(w)' = Building(w) => builds' = builds
      /\ Holding(w)' = Holding(w) => copies' = copies
  <2>1. Offered(f)' = Offered(f) => offers' = offers
    BY <1>2
  <2>2. Building(w)' = Building(w) => builds' = builds
    BY <1>2 DEF SameRun
  <2>3. Holding(w)' = Holding(w) => copies' = copies
    BY <1>2 DEF SameRun
  <2>. QED BY <2>1, <2>2, <2>3
<1>5. OffersWell(w, f)
  BY <1>1, WorkerOffer
<1>6. /\ offers[f] = Offered(f) /\ builds[w] = Building(w) /\ copies[w] = Holding(w)
      /\ \A d \in File : offers[d] = Offered(d)
  OBVIOUS
<1> HIDE DEF offers, builds, copies
<1>7. CASE Offered(f)' = Offered(f)
  <2>1. offers' = offers
    BY <1>4, <1>7
  <2>2. CASE SameRun(w)
    BY <1>2, <1>7, <2>2, Unnoticed
  <2>3. CASE Building(w) # 0 /\ Building(w)' \in {Building(w), 0} /\ Holding(w)' = NoOffer
    <3>1. builds[w] # 0 /\ (builds' = builds \/ builds' = [builds EXCEPT ![w] = 0])
      BY <1>3, <1>4, <1>6, <2>3
    <3>2. copies' = [copies EXCEPT ![w] = NoOffer]
      BY <1>3, <2>3
    <3>3. Registry!Stop(w)
      BY <1>2, <2>1, <3>1, <3>2 DEF Registry!Stop, Registry!Nothing, NoOffer, offers, builds, copies
    <3>. QED BY <3>3 DEF Registry!Next
  <2>4. CASE TakesOver(w)
    <3>1. PICK d \in File : Offered(d) # NoOffer /\ Holding(w)' = Offered(d)
      BY <2>4 DEF TakesOver
    <3>2. /\ builds[w] # 0 /\ builds' = builds /\ copies[w] = NoOffer
          /\ offers[d] # NoOffer /\ copies' = [copies EXCEPT ![w] = offers[d]]
      BY <1>3, <1>4, <1>6, <2>4, <3>1 DEF TakesOver
    <3>3. Registry!Take(w, d)
      BY <1>2, <2>1, <3>2 DEF Registry!Take, Registry!Nothing, NoOffer, offers, builds, copies
    <3>. QED BY <3>3 DEF Registry!Next
  <2>. QED BY <2>2, <2>3, <2>4, OwnRun
<1>8. CASE /\ Offered(f) # NoOffer /\ Offered(f)' = NoOffer
           /\ CopyMark(w) \/ ReembedMark(w) \/ MarkProcessing(w)
  <2>1. Exists(f)' <=> Exists(f)
    BY <1>0, <1>1, WorkerDisciplined DEF Disciplined, Exists
  <2>2. SameRun(w)
    BY <1>0, <1>1, <1>8, <2>1, MarkRun
  <2>3. builds' = builds /\ copies' = copies
    BY <1>4, <2>2 DEF SameRun
  <2>4. offers[f] # NoOffer /\ offers' = [offers EXCEPT ![f] = NoOffer]
    BY <1>3, <1>6, <1>8
  <2>5. Registry!Retire(f)
    BY <1>2, <2>3, <2>4 DEF Registry!Retire, Registry!Nothing, NoOffer, offers, builds, copies
  <2>. QED BY <2>5 DEF Registry!Next
<1>9. CASE /\ Exists(f) /\ Offered(f) = NoOffer /\ Stamp(w)
           /\ \E p \in Fp : Offered(f)' = [fp |-> p, pieces |-> {<<job[w].run, p, x>> : x \in PartsOf(p)}]
  <2>1. /\ Building(w) = job[w].run /\ job[w].run # 0
        /\ Building(w)' = 0 /\ Holding(w)' = NoOffer /\ Holding(w) = NoOffer
    BY <1>0, <1>1, <1>9, OfferRun
  <2>2. PICK p \in Fp :
          Offered(f)' = [fp |-> p, pieces |-> {<<Building(w), p, x>> : x \in PartsOf(p)}]
    BY <1>9, <2>1
  <2>3. Registry!Whole(p, builds[w]) =
          [fp |-> p, pieces |-> {<<Building(w), p, x>> : x \in PartsOf(p)}]
    BY <1>6 DEF Registry!Whole
  <2>4. /\ builds[w] # 0 /\ builds' = [builds EXCEPT ![w] = 0]
        /\ copies[w] = NoOffer /\ copies' = [copies EXCEPT ![w] = NoOffer]
        /\ offers[f] = NoOffer /\ offers' = [offers EXCEPT ![f] = Registry!Whole(p, builds[w])]
    BY <1>3, <1>6, <1>9, <2>1, <2>2, <2>3
  <2>5. Registry!Offer(w, f)
    BY <1>2, <2>4 DEF Registry!Offer, Registry!Nothing, NoOffer, offers, builds, copies
  <2>. QED BY <2>5 DEF Registry!Next
<1>10. CASE Exists(f) /\ Offered(f) = NoOffer /\ MarkCopied(w) /\ Offered(f)' = Holding(w)
  <2>1. Building(w) = job[w].run /\ job[w].run # 0 /\ Building(w)' = 0 /\ Holding(w)' = NoOffer
    BY <1>0, <1>1, <1>10, OfferRun
  <2>2. Holding(w) # NoOffer
    BY <1>0, <1>1, <1>10, RunForm DEF MarkCopied
  <2>3. /\ builds[w] # 0 /\ builds' = [builds EXCEPT ![w] = 0]
        /\ copies[w] # NoOffer /\ copies' = [copies EXCEPT ![w] = NoOffer]
        /\ offers[f] = NoOffer /\ offers' = [offers EXCEPT ![f] = copies[w]]
    BY <1>3, <1>6, <1>10, <2>1, <2>2
  <2>4. Registry!Offer(w, f)
    BY <1>2, <2>3 DEF Registry!Offer, Registry!Nothing, NoOffer, offers, builds, copies
  <2>. QED BY <2>4 DEF Registry!Next
<1>. QED BY <1>5, <1>7, <1>8, <1>9, <1>10 DEF OffersWell

LEMMA InitImplements == Init => Registry!Init
<1> SUFFICES ASSUME Init PROVE Registry!Init
  OBVIOUS
<1>1. \A f \in File : Offered(f) = NoOffer
  BY DEF Init, Offered, CopyDonor, NoOffer
<1>2. \A w \in Worker : Building(w) = 0 /\ Holding(w) = NoOffer
  BY DEF Init, NoJob, Building, Holding, NoOffer, At
<1>. QED BY <1>1, <1>2 DEF Init, Registry!Init, Registry!Nothing, NoOffer

(* However requests, runs of different files, failures, crashes, retries,   *)
(* the sweep and deletions interleave, a copy has the effect of one step at *)
(* the recheck, which takes what the donor offers then; whatever else a row *)
(* offers is a whole build of its own run, made once and never changed      *)
(* while it is offered (tryCopy, CopyFileIndex, DonorStillValid,            *)
(* MarkCopied, recordIndexFingerprint).                                     *)
THEOREM CopyIsOneStep ==
  ASSUME Calm
  PROVE  Spec => CopiesAreAtomic
<1>1. Init => Registry!Init
  BY InitImplements
<1>2. AtomicInv /\ [Next]_vars => AtomicInv'
  BY AtomicStep
<1>3. AtomicInv /\ AtomicInv' /\ [Next]_vars => [Registry!Next]_(Registry!vars)
  <2> SUFFICES ASSUME AtomicInv, AtomicInv', [Next]_vars PROVE Registry!Next \/ UNCHANGED Registry!vars
    OBVIOUS
  <2>0. TypeOK'
    BY DEF AtomicInv, IInv, RetireInv
  <2>1. ASSUME NEW f \in File, FileStep(f) PROVE Registry!Next \/ UNCHANGED Registry!vars
    BY <2>1, FileImplements
  <2>2. ASSUME NEW w \in Worker, WorkerStep(w) PROVE Registry!Next \/ UNCHANGED Registry!vars
    BY <2>0, <2>2, StartImplements, WorkerImplements
  <2>3. CASE UNCHANGED vars
    <3>1. \A f \in File : Offered(f)' = Offered(f)
      BY <2>3 DEF vars, index, Offered, CopyDonor, Advertises, Content
    <3>2. \A v \in Worker : SameRun(v)
      BY <2>3 DEF vars, index, SameRun, Building, Holding, Exists, Content, At
    <3>. QED BY <2>3, <3>1, <3>2, Unnoticed DEF vars
  <2>. QED BY <2>1, <2>2, <2>3 DEF Next
<1>. QED BY InitAtomic, <1>1, <1>2, <1>3, PTL DEF Spec, CopiesAreAtomic, Registry!Spec
=============================================================================
