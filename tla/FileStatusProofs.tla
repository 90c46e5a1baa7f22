-------------------------- MODULE FileStatusProofs --------------------------
(***************************************************************************)
(* For any requests, re-embeds, retries and faults: a file has a reason    *)
(* exactly while it is in 'error'.  Where no statement fails and nothing   *)
(* dies a pending file is on its way; where tasks do not meet, an error is *)
(* the last word of its task.                                              *)
(***************************************************************************)
EXTENDS FileStatus, TLAPS

(* A row that is not there has no reason either, and before the upload      *)
(* there is none.                                                          *)
ReasonInv ==
    /\ FailureIsExplained
    /\ status = None => reason = None
    /\ upload = "idle" => status = None

(* The statements on the row keep it typed and explained.                  *)
LEMMA Statements ==
    ASSUME TypeOK, ReasonInv, UNCHANGED upload
    PROVE  /\ \A s \in {"processing", "completed", "partial"} :
                 UpdateFileStatus(s) => /\ status' \in Statuses \cup {None}
                                        /\ reason' \in Reasons \cup {None}
                                        /\ stale' \in BOOLEAN /\ ReasonInv'
           /\ \A why \in Reasons :
                 MarkFileError(why) \/ MarkFileErrorIfUnset(why) \/ StatementFails =>
                    /\ status' \in Statuses \cup {None}
                    /\ reason' \in Reasons \cup {None}
                    /\ stale' \in BOOLEAN /\ ReasonInv'
BY StatusAssumption
DEF TypeOK, ReasonInv, FailureIsExplained, UpdateFileStatus, MarkFileError, MarkFileErrorIfUnset,
    StatementFails, Statuses, Reasons, row, StatusAssumption

LEMMA QueueTypes ==
    ASSUME TypeOK, NEW t \in Tasks
    PROVE  /\ Enqueue(t) => /\ task' \in [Tasks -> Live \cup {"unused", "done"}]
                            /\ retried' \in [Tasks -> 0..MaxRetry]
           /\ \A from \in Live, to \in Live \cup {"done"} :
                 Goto(t, from, to) => /\ task' \in [Tasks -> Live \cup {"unused", "done"}]
                                      /\ retried' \in [Tasks -> 0..MaxRetry]
           /\ \A from \in Live :
                 Error(t, from) => /\ task' \in [Tasks -> Live \cup {"unused", "done"}]
                                   /\ retried' \in [Tasks -> 0..MaxRetry]
<1>1. task \in [Tasks -> Live \cup {"unused", "done"}] /\ retried \in [Tasks -> 0..MaxRetry]
  BY DEF TypeOK
<1>2. "queued" \in Live /\ "exhausted" \in Live
  BY DEF Live, Running
<1>3. ~Final(t) => [retried EXCEPT ![t] = @ + 1] \in [Tasks -> 0..MaxRetry]
  BY <1>1, StatusAssumption DEF Final, StatusAssumption
<1>. QED BY <1>1, <1>2, <1>3 DEF Enqueue, Goto, Error

LEMMA AttemptTypes ==
    ASSUME TypeOK, ReasonInv, NEW t \in Tasks, Attempt(t)
    PROVE  TypeOK' /\ ReasonInv'
<1>0. /\ {"queued", "check", "preflight", "flip", "fetch", "mark", "work", "failing", "exhausted"} \subseteq Live
      /\ {"attempt", "unsupported", "processing"} \subseteq Reasons
  BY DEF Live, Running, Reasons
<1>1. /\ task' \in [Tasks -> Live \cup {"unused", "done"}] /\ retried' \in [Tasks -> 0..MaxRetry]
      /\ UNCHANGED web
  BY QueueTypes, <1>0
  DEF Attempt, Start, PreflightReembed, FlipToProcessing, CheckRow, MaterializeBlob, BeginIngest,
      Complete, AttemptFails, RecordFailure, Unsupported, MarkErrorOnExhaustion
<1>2. \/ UNCHANGED row
      \/ \E s \in {"processing", "completed", "partial"} : UpdateFileStatus(s)
      \/ \E why \in Reasons : MarkFileError(why) \/ MarkFileErrorIfUnset(why) \/ StatementFails
  BY <1>0 DEF Attempt, Start, PreflightReembed, FlipToProcessing, CheckRow, MaterializeBlob, BeginIngest,
      Complete, AttemptFails, RecordFailure, Unsupported, MarkErrorOnExhaustion
<1>3. /\ status' \in Statuses \cup {None} /\ reason' \in Reasons \cup {None}
      /\ stale' \in BOOLEAN /\ ReasonInv'
  BY <1>1, <1>2, Statements DEF TypeOK, ReasonInv, FailureIsExplained, row, web
<1>. QED BY <1>1, <1>3 DEF TypeOK, web

LEMMA RequestTypes ==
    ASSUME TypeOK, ReasonInv, Requests
    PROVE  TypeOK' /\ ReasonInv'
<1>. USE StatusAssumption DEF StatusAssumption, Statuses, Reasons
<1>1. CASE CreateFile
  <2>1. reason = None \/ status # None
    BY DEF ReasonInv
  <2>. QED BY <1>1, <2>1 DEF CreateFile, TypeOK, ReasonInv, FailureIsExplained, queue
<1>2. CASE EnqueueUpload
  BY <1>2, QueueTypes DEF EnqueueUpload, TypeOK, ReasonInv, FailureIsExplained, row, Tasks
<1>3. CASE DropUpload \/ FileDeleted
  BY <1>3 DEF DropUpload, FileDeleted, TypeOK, ReasonInv, FailureIsExplained, web, queue
<1>4. CASE ServerDies
  BY <1>4 DEF ServerDies, TypeOK, ReasonInv, FailureIsExplained, row, queue
<1>5. ASSUME NEW c \in Clicks, Retry(c) PROVE TypeOK' /\ ReasonInv'
  <2>1. CASE ResetFileForRetry(c)
    BY <1>5, <2>1 DEF ResetFileForRetry, Step, TypeOK, ReasonInv, FailureIsExplained, queue
  <2>2. CASE EnqueueRetry(c)
    BY <1>5, <2>2, QueueTypes DEF EnqueueRetry, Step, TypeOK, ReasonInv, FailureIsExplained, row, Tasks
  <2>3. CASE EnqueueRefused(c)
    BY <2>3 DEF EnqueueRefused, Step, TypeOK, ReasonInv, FailureIsExplained, row, queue
  <2>4. CASE Revert(c)
    BY <2>4, Statements DEF Revert, Step, TypeOK, queue
  <2>. QED BY <1>5, <2>1, <2>2, <2>3, <2>4 DEF Retry
<1>6. ASSUME NEW b \in Reembeds, ReembedKB(b) PROVE TypeOK' /\ ReasonInv'
  BY <1>6, QueueTypes DEF ReembedKB, TypeOK, ReasonInv, FailureIsExplained, row, web, Tasks
<1>. QED BY <1>1, <1>2, <1>3, <1>4, <1>5, <1>6 DEF Requests

LEMMA NextTypes == TypeOK /\ ReasonInv /\ [Next]_vars => TypeOK' /\ ReasonInv'
<1>. SUFFICES ASSUME TypeOK, ReasonInv, [Next]_vars PROVE TypeOK' /\ ReasonInv'
  OBVIOUS
<1>1. CASE UNCHANGED vars
  BY <1>1 DEF vars, row, web, queue, TypeOK, ReasonInv, FailureIsExplained
<1>2. ASSUME NEW t \in Tasks, Heartbeat(t) PROVE TypeOK' /\ ReasonInv'
  BY <1>2 DEF Heartbeat, TypeOK, ReasonInv, FailureIsExplained, web, queue
<1>3. ASSUME NEW t \in Tasks, WorkerDies(t) PROVE TypeOK' /\ ReasonInv'
  <2>1. retried' \in [Tasks -> 0..MaxRetry]
    BY <1>3, StatusAssumption DEF WorkerDies, TypeOK, Final, StatusAssumption
  <2>2. task' \in [Tasks -> Live \cup {"unused", "done"}]
    BY <1>3 DEF WorkerDies, TypeOK, Live
  <2>. QED BY <1>3, <2>1, <2>2 DEF WorkerDies, TypeOK, ReasonInv, FailureIsExplained, row, web
<1>4. CASE Age
  BY <1>4 DEF Age, TypeOK, ReasonInv, FailureIsExplained, web, queue
<1>5. CASE CheckStuckFiles
  BY <1>5, StatusAssumption
  DEF CheckStuckFiles, TypeOK, ReasonInv, FailureIsExplained, web, queue, Statuses, Reasons,
      StatusAssumption
<1>. QED BY <1>1, <1>2, <1>3, <1>4, <1>5, AttemptTypes, RequestTypes DEF Next

LEMMA InitTypes == Init => TypeOK /\ ReasonInv
<1>. SUFFICES ASSUME Init PROVE TypeOK /\ ReasonInv
  OBVIOUS
<1>1. 0 \in 0..MaxRetry
  BY StatusAssumption DEF StatusAssumption
<1>2. task \in [Tasks -> Live \cup {"unused", "done"}] /\ retried \in [Tasks -> 0..MaxRetry]
  BY <1>1 DEF Init
<1>. QED BY <1>2 DEF Init, TypeOK, ReasonInv, FailureIsExplained

LEMMA Invariant == Spec => [](TypeOK /\ ReasonInv)
BY InitTypes, NextTypes, PTL DEF Spec

\* A file has a reason exactly while it is in 'error', whoever wrote last.
THEOREM FailuresAreExplained == Spec => []FailureIsExplained
<1>1. ReasonInv => FailureIsExplained
  BY DEF ReasonInv
<1>. QED BY <1>1, Invariant, PTL
-----------------------------------------------------------------------------
(* No task is lost.                                                        *)

Healthy == Faults \cap {"db", "server", "worker"} = {}

(* A task that ends has written the row.                                   *)
LEMMA AttemptLeaves ==
    ASSUME TypeOK, Healthy, NEW t \in Tasks, Attempt(t)
    PROVE  /\ status' = "pending" => status = "pending" /\ t \in LiveTasks'
           /\ UNCHANGED web
<1>. USE StatusAssumption DEF StatusAssumption, Statuses
<1>1. /\ status' = "pending" => UNCHANGED status
      /\ UNCHANGED web
  BY DEF Healthy, Attempt, Start, PreflightReembed, FlipToProcessing, CheckRow, MaterializeBlob, BeginIngest,
         Complete, AttemptFails, RecordFailure, Unsupported, MarkErrorOnExhaustion, StatementFails,
         UpdateFileStatus, MarkFileError, MarkFileErrorIfUnset, row
<1>2. status' = "pending" => task'[t] \in Live
  BY DEF Healthy, Attempt, Start, PreflightReembed, FlipToProcessing, CheckRow, MaterializeBlob, BeginIngest,
         Complete, AttemptFails, RecordFailure, Unsupported, MarkErrorOnExhaustion, StatementFails,
         UpdateFileStatus, MarkFileError, MarkFileErrorIfUnset, row, Goto, Error, TypeOK, Live, Running
<1>. QED BY <1>1, <1>2 DEF LiveTasks

\* A pending file is on its way, where no statement fails and nothing dies.
THEOREM PendingFilesAreQueued == ASSUME Healthy PROVE Spec => []PendingIsQueued
<1>1. Init => PendingIsQueued
  BY StatusAssumption DEF Init, PendingIsQueued, StatusAssumption, Statuses
<1>2. TypeOK /\ PendingIsQueued /\ [Next]_vars => PendingIsQueued'
  <2>. SUFFICES ASSUME TypeOK, PendingIsQueued, [Next]_vars, status' = "pending"
                PROVE  \/ LiveTasks' # {} \/ upload' = "created"
                       \/ \E c \in Clicks : click'[c] \in {"reset", "revert"}
    BY DEF PendingIsQueued
  <2>. USE StatusAssumption DEF StatusAssumption, Statuses
  <2>1. CASE UNCHANGED vars
    BY <2>1 DEF vars, row, web, queue, PendingIsQueued, LiveTasks
  <2>2. ASSUME NEW t \in Tasks, Attempt(t) PROVE LiveTasks' # {}
    BY <2>2, AttemptLeaves
  <2>3. CASE CreateFile
    BY <2>3 DEF CreateFile
  <2>4. ASSUME NEW t \in Tasks, Enqueue(t) PROVE LiveTasks' # {}
    BY <2>4 DEF Enqueue, TypeOK, Live, LiveTasks
  <2>5. CASE EnqueueUpload \/ \E b \in Reembeds : ReembedKB(b)
    BY <2>4, <2>5 DEF EnqueueUpload, ReembedKB, Tasks
  <2>6. CASE DropUpload \/ FileDeleted
    BY <2>6 DEF DropUpload, FileDeleted
  <2>7. ASSUME NEW c \in Clicks, Retry(c)
        PROVE  \/ LiveTasks' # {} \/ upload' = "created" \/ \E d \in Clicks : click'[d] \in {"reset", "revert"}
    <3>1. CASE EnqueueRetry(c)
      BY <2>4, <3>1 DEF EnqueueRetry, Tasks
    <3>2. CASE EnqueueRefused(c)
      BY <3>2 DEF EnqueueRefused, Step, TypeOK
    <3>3. CASE Revert(c)
      BY <3>3 DEF Revert, MarkFileError, StatementFails, Healthy, row
    <3>4. CASE ResetFileForRetry(c) /\ status = "error"
      BY <3>4 DEF ResetFileForRetry, Step, TypeOK
    <3>5. CASE ResetFileForRetry(c) /\ status # "error"
      <4>1. UNCHANGED <<status, upload, task>> /\ \A d \in Clicks \ {c} : click'[d] = click[d]
        BY <3>5 DEF ResetFileForRetry, Step, queue, TypeOK
      <4>2. click[c] = "idle"
        BY <3>5 DEF ResetFileForRetry, Step
      <4>. QED BY <4>1, <4>2 DEF PendingIsQueued, LiveTasks
    <3>. QED BY <2>7, <3>1, <3>2, <3>3, <3>4, <3>5 DEF Retry
  <2>8. CASE ServerDies \/ \E t \in Tasks : WorkerDies(t)
    BY <2>8 DEF ServerDies, WorkerDies, Healthy
  <2>9. CASE Age \/ CheckStuckFiles \/ \E t \in Tasks : Heartbeat(t)
    BY <2>9 DEF Age, CheckStuckFiles, Heartbeat, web, queue, PendingIsQueued, LiveTasks
  <2>. QED BY <2>1, <2>2, <2>3, <2>5, <2>6, <2>7, <2>8, <2>9 DEF Next, Requests
<1>. QED BY <1>1, <1>2, Invariant, PTL DEF Spec
-----------------------------------------------------------------------------
(* Tasks that do not meet each other, nor the sweep.                       *)

OneByOne == Clicks = {} /\ ~Overlap /\ "slow" \notin Faults

SerialInv ==
    /\ \A s, t \in LiveTasks : s = t
    /\ upload = "idle" => status = None
    /\ upload = "created" => status = "pending"
    /\ upload # "done" => LiveTasks = {}
    /\ \A t \in Tasks : /\ task[t] \in {"failing", "exhausted"} => Final(t)
                        /\ task[t] = "unused" => retried[t] = 0
    /\ status = "processing" /\ stale => LiveTasks = {}

(* An attempt has its task to itself, and reports an error when it is the  *)
(* last one only.                                                          *)
LEMMA AttemptSerial ==
    ASSUME TypeOK, NEW t \in Tasks, Attempt(t),
           task[t] \in {"failing", "exhausted"} => Final(t)
    PROVE  /\ task[t] \in Live /\ task'[t] \in Live \cup {"done"}
           /\ \A s \in Tasks \ {t} : task'[s] = task[s] /\ retried'[s] = retried[s]
           /\ task'[t] \in {"failing", "exhausted"} => Final(t)'
           /\ status # "error" /\ status' = "error" => task'[t] \in {"exhausted", "done"}
           /\ status' = "processing" /\ stale' => status = "processing" /\ stale
           /\ UNCHANGED web
<1>. USE StatusAssumption DEF StatusAssumption, Statuses, TypeOK, Live, Running
<1>1. ASSUME Start(t) \/ PreflightReembed(t) \/ CheckRow(t) \/ MaterializeBlob(t)
      PROVE  /\ task[t] \in Live /\ task'[t] \in Live \cup {"done"}
             /\ \A s \in Tasks \ {t} : task'[s] = task[s] /\ retried'[s] = retried[s]
             /\ task'[t] \in {"failing", "exhausted"} => Final(t)'
             /\ UNCHANGED <<row, web>>
  BY <1>1 DEF Start, PreflightReembed, CheckRow, MaterializeBlob, Goto, Error, Final
<1>2. ASSUME FlipToProcessing(t) \/ BeginIngest(t)
      PROVE  /\ task[t] \in Live /\ task'[t] \in Live \cup {"done"}
             /\ \A s \in Tasks \ {t} : task'[s] = task[s] /\ retried'[s] = retried[s]
             /\ task'[t] \in {"failing", "exhausted"} => Final(t)'
             /\ UNCHANGED row \/ (status' = "processing" /\ ~stale')
             /\ UNCHANGED web
  BY <1>2 DEF FlipToProcessing, BeginIngest, Goto, Error, Final, UpdateFileStatus, StatementFails, row
<1>3. ASSUME Complete(t) \/ AttemptFails(t)
      PROVE  /\ task[t] \in Live /\ task'[t] \in Live \cup {"done"}
             /\ \A s \in Tasks \ {t} : task'[s] = task[s] /\ retried'[s] = retried[s]
             /\ task'[t] \in {"failing", "exhausted"} => Final(t)'
             /\ UNCHANGED row \/ status' \in {"completed", "partial"}
             /\ UNCHANGED web
  BY <1>3 DEF Complete, AttemptFails, Goto, Error, Final, UpdateFileStatus, StatementFails, row
<1>4. ASSUME RecordFailure(t) \/ Unsupported(t) \/ MarkErrorOnExhaustion(t)
      PROVE  /\ task[t] \in Live /\ task'[t] \in {"exhausted", "done"}
             /\ \A s \in Tasks \ {t} : task'[s] = task[s] /\ retried'[s] = retried[s]
             /\ task'[t] \in {"failing", "exhausted"} => Final(t)'
             /\ UNCHANGED row \/ status' = "error"
             /\ UNCHANGED web
  BY <1>4 DEF RecordFailure, Unsupported, MarkErrorOnExhaustion, Goto, Error, Final, MarkFileError,
              MarkFileErrorIfUnset, StatementFails, row
<1>5. CASE Start(t) \/ PreflightReembed(t) \/ CheckRow(t) \/ MaterializeBlob(t)
  BY <1>1, <1>5 DEF row
<1>6. CASE FlipToProcessing(t) \/ BeginIngest(t)
  BY <1>2, <1>6 DEF row
<1>7. CASE Complete(t) \/ AttemptFails(t)
  BY <1>3, <1>7 DEF row
<1>8. CASE RecordFailure(t) \/ Unsupported(t) \/ MarkErrorOnExhaustion(t)
  BY <1>4, <1>8 DEF row
<1>. QED BY <1>5, <1>6, <1>7, <1>8 DEF Attempt

(* A task is queued when no other is live, and not over a stale run.       *)
LEMMA EnqueueSerial ==
    ASSUME TypeOK, SerialInv, NEW t \in Tasks, Enqueue(t), LiveTasks = {}, UNCHANGED row,
           status # "processing", upload' = "done"
    PROVE  SerialInv'
<1>1. /\ \A s \in Tasks \ {t} : task'[s] = task[s]
      /\ task'[t] = "queued" /\ UNCHANGED retried
  BY DEF Enqueue, TypeOK
<1>. QED BY <1>1 DEF SerialInv, LiveTasks, Final, Live, Running, row

\* 'error' comes with the last attempt, where tasks neither meet nor are overtaken.
THEOREM ErrorsComeLast == ASSUME OneByOne PROVE Spec => ErrorIsFinal
<1>. USE StatusAssumption DEF StatusAssumption, Statuses
<1>1. Init => SerialInv
  BY DEF Init, SerialInv, LiveTasks, Live, Running
<1>2. ASSUME TypeOK, SerialInv, [Next]_vars
      PROVE  SerialInv' /\ (UNCHANGED vars \/ ErrorComesLast)
  <2>1. CASE UNCHANGED vars
    BY <1>2, <2>1 DEF vars, row, web, queue, SerialInv, LiveTasks, Final
  <2>2. ASSUME NEW t \in Tasks, Attempt(t) PROVE SerialInv' /\ ErrorComesLast
    <3>1. /\ task[t] \in Live /\ task'[t] \in Live \cup {"done"}
          /\ \A s \in Tasks \ {t} : task'[s] = task[s] /\ retried'[s] = retried[s]
          /\ task'[t] \in {"failing", "exhausted"} => Final(t)'
          /\ status # "error" /\ status' = "error" => task'[t] \in {"exhausted", "done"}
          /\ status' = "processing" /\ stale' => status = "processing" /\ stale
          /\ UNCHANGED web
      BY <1>2, <2>2, AttemptSerial DEF SerialInv
    <3>2. /\ t \in LiveTasks /\ LiveTasks' \subseteq {t}
          /\ \A s \in Tasks \ {t} : task[s] \in {"unused", "done"}
      BY <1>2, <3>1 DEF SerialInv, LiveTasks, TypeOK
    <3>3. upload = "done" /\ upload' = "done" /\ ~(status' = "processing" /\ stale')
      BY <1>2, <3>1, <3>2 DEF SerialInv, TypeOK, web
    <3>4. ErrorComesLast
      BY <1>2, <3>1, <3>2 DEF ErrorComesLast, SerialInv
    <3>5. SerialInv'
      BY <1>2, <3>1, <3>2, <3>3 DEF SerialInv, Final, Live, Running
    <3>. QED BY <3>4, <3>5
  <2>3. CASE CreateFile \/ DropUpload \/ FileDeleted
    BY <1>2, <2>3 DEF CreateFile, DropUpload, FileDeleted, web, queue, SerialInv, LiveTasks, Final,
                      ErrorComesLast
  <2>4. CASE EnqueueUpload
    <3>1. Enqueue(Upload) /\ LiveTasks = {} /\ UNCHANGED row /\ status = "pending" /\ upload' = "done"
      BY <1>2, <2>4 DEF EnqueueUpload, SerialInv
    <3>. QED BY <1>2, <3>1, EnqueueSerial DEF Tasks, ErrorComesLast, row
  <2>5. ASSUME NEW b \in Reembeds, ReembedKB(b) PROVE SerialInv' /\ ErrorComesLast
    <3>1. /\ Enqueue(b) /\ LiveTasks = {} /\ UNCHANGED row /\ UNCHANGED web
          /\ status \in {"completed", "partial", "error"}
      BY <2>5 DEF ReembedKB, OneByOne
    <3>2. upload' = "done"
      BY <1>2, <3>1 DEF SerialInv, TypeOK, web
    <3>. QED BY <1>2, <3>1, <3>2, EnqueueSerial DEF Tasks, ErrorComesLast, row
  <2>6. CASE ServerDies
    <3>1. upload = "created" /\ upload' = "done" /\ UNCHANGED <<row, queue>>
      BY <2>6 DEF ServerDies, OneByOne
    <3>. QED BY <1>2, <3>1 DEF row, queue, SerialInv, LiveTasks, Final, ErrorComesLast
  <2>7. ASSUME NEW t \in Tasks, WorkerDies(t) PROVE SerialInv' /\ ErrorComesLast
    <3>1. /\ task[t] \in Running /\ task'[t] \in {"done", "queued"} /\ UNCHANGED <<row, web>>
          /\ \A s \in Tasks \ {t} : task'[s] = task[s] /\ retried'[s] = retried[s]
      BY <1>2, <2>7 DEF WorkerDies, TypeOK
    <3>2. t \in LiveTasks /\ LiveTasks' \subseteq {t}
      BY <1>2, <3>1 DEF SerialInv, LiveTasks, Live
    <3>. QED BY <1>2, <3>1, <3>2 DEF SerialInv, Final, row, web, ErrorComesLast
  <2>8. CASE Age
    BY <1>2, <2>8 DEF Age, OneByOne, web, queue, SerialInv, LiveTasks, Final, ErrorComesLast
  <2>9. CASE CheckStuckFiles
    <3>1. LiveTasks = {} /\ UNCHANGED <<web, queue, stale>> /\ status' = "error" /\ status = "processing"
      BY <1>2, <2>9 DEF CheckStuckFiles, SerialInv
    <3>2. \A t \in Tasks : retried[t] > 0 => task[t] = "done"
      BY <1>2, <3>1 DEF SerialInv, LiveTasks, TypeOK
    <3>. QED BY <1>2, <3>1, <3>2 DEF web, queue, SerialInv, LiveTasks, Final, ErrorComesLast
  <2>10. ASSUME NEW t \in Tasks, Heartbeat(t) PROVE SerialInv' /\ ErrorComesLast
    BY <1>2, <2>10 DEF Heartbeat, web, queue, SerialInv, LiveTasks, Final, ErrorComesLast
  <2>. QED BY <1>2, <2>1, <2>2, <2>3, <2>4, <2>5, <2>6, <2>7, <2>8, <2>9, <2>10 DEF Next, Requests, OneByOne
<1>3. TypeOK /\ SerialInv /\ [Next]_vars => SerialInv' /\ [ErrorComesLast]_vars
  BY <1>2
<1>. QED BY <1>1, <1>3, Invariant, PTL DEF Spec, ErrorIsFinal
-----------------------------------------------------------------------------
(* The late report of an attempt that a retry has made up for.              *)

OneRetry ==
    /\ Reembeds = {} /\ "slow" \notin Faults
    /\ Upload \notin Clicks /\ \A c, d \in Clicks : c = d

Ready == {"completed", "partial"}
Open == {"reset", "revert"}

(* A task that may still write the row, but for the report of its end.     *)
Busy == Live \ {"exhausted"}

(* The retry comes when the upload's task has nothing left to do but to    *)
(* report its end, so whoever rebuilds the index has the row to itself.    *)
LateInv ==
    /\ upload = "idle" => status = None
    /\ upload = "created" => status = "pending"
    /\ upload # "done" => /\ \A t \in Tasks : task[t] = "unused"
                          /\ \A c \in Clicks : click[c] \notin Open
    /\ status = "error" => task[Upload] \notin Busy
    /\ \A t \in Tasks : /\ task[t] \in {"failing", "exhausted"} => Final(t)
                        /\ task[t] \in {"work", "failing"} => status \notin Ready
    /\ \A c \in Clicks :
         /\ click[c] \in Open \/ task[c] # "unused" => task[Upload] \notin Busy
         /\ task[c] # "unused" => click[c] = "done"
         /\ click[c] \in Open => status \in {"pending", "error", None}
    /\ status = "processing" /\ stale => LiveTasks = {}

(* What an attempt does to its task and the row.  Only the statements of    *)
(* an attempt at work, or of one that failed, end in 'error' or make the    *)
(* file ready.                                                             *)
LEMMA AttemptWrites ==
    ASSUME TypeOK, NEW t \in Tasks, Attempt(t),
           task[t] \in {"failing", "exhausted"} => Final(t)
    PROVE  /\ task[t] \in Live /\ task'[t] \in Live \cup {"done"}
           /\ \A s \in Tasks \ {t} : task'[s] = task[s] /\ retried'[s] = retried[s]
           /\ task'[t] \in {"failing", "exhausted"} => Final(t)'
           /\ status' # status /\ status' = "error" =>
                /\ task'[t] \in {"exhausted", "done"}
                /\ task[t] \in {"work", "failing"} \/ status \notin Ready
           /\ status' # status /\ status' \in Ready => task[t] = "work" /\ task'[t] = "done"
           /\ status' # status => status' \in {"processing", "error"} \cup Ready
           /\ task'[t] \in {"work", "failing"} => status' \in {"processing", None} \/
                (task[t] = "work" /\ status' = status)
           /\ task[t] = "exhausted" => task'[t] = "done" /\ status' \in {status, "error"}
           /\ status' = "processing" /\ stale' => status = "processing" /\ stale
           /\ UNCHANGED web
<1>. USE StatusAssumption DEF StatusAssumption, Statuses, TypeOK, Live, Running, Ready
<1>1. CASE Start(t) \/ PreflightReembed(t) \/ CheckRow(t) \/ MaterializeBlob(t)
  BY <1>1 DEF Start, PreflightReembed, CheckRow, MaterializeBlob, Goto, Error, Final, row
<1>2. CASE FlipToProcessing(t) \/ BeginIngest(t)
  <2>1. /\ task[t] \in {"flip", "mark"} /\ task'[t] \in Live \cup {"done"}
        /\ \A s \in Tasks \ {t} : task'[s] = task[s] /\ retried'[s] = retried[s]
        /\ task'[t] \in {"failing", "exhausted"} => Final(t)'
    BY <1>2 DEF FlipToProcessing, BeginIngest, Goto, Error, Final
  <2>2. UNCHANGED row \/ (status' = "processing" /\ ~stale')
    BY <1>2 DEF FlipToProcessing, BeginIngest, UpdateFileStatus, StatementFails, row
  <2>3. task'[t] \in {"work", "failing"} => status' \in {"processing", None}
    BY <1>2 DEF FlipToProcessing, BeginIngest, Goto, Error, UpdateFileStatus, row
  <2>4. UNCHANGED web
    BY <1>2 DEF FlipToProcessing, BeginIngest
  <2>. QED BY <2>1, <2>2, <2>3, <2>4 DEF row
<1>3. CASE Complete(t) \/ AttemptFails(t)
  BY <1>3 DEF Complete, AttemptFails, Goto, Error, Final, UpdateFileStatus, StatementFails, row
<1>4. CASE RecordFailure(t) \/ Unsupported(t) \/ MarkErrorOnExhaustion(t)
  BY <1>4 DEF RecordFailure, Unsupported, MarkErrorOnExhaustion, Goto, Error, Final, MarkFileError,
              MarkFileErrorIfUnset, StatementFails, row
<1>. QED BY <1>1, <1>2, <1>3, <1>4 DEF Attempt

\* Where a file is retried once and the sweep overtakes no task, a ready file does
\* not turn to 'error' or 'pending': the late report of the upload's last attempt
\* (MarkErrorOnExhaustion) leaves what the retry has made of the file alone.
THEOREM ReadyFilesStay == ASSUME OneRetry PROVE Spec => ReadyIsRebuilt
<1>. USE StatusAssumption DEF StatusAssumption, Statuses
<1>1. Init => LateInv
  BY DEF Init, LateInv, LiveTasks, Live, Running, Busy, Open, Ready, Tasks
<1>2. ASSUME TypeOK, LateInv, [Next]_vars
      PROVE  LateInv' /\ ReadyStays
  <2>0. Upload \in Tasks /\ Clicks \subseteq Tasks /\ Tasks = {Upload} \cup Clicks
    BY DEF Tasks, OneRetry
  <2>1. CASE UNCHANGED vars
    BY <1>2, <2>1 DEF vars, row, web, queue, LateInv, LiveTasks, Final, ReadyStays
  <2>2. ASSUME NEW t \in Tasks, Attempt(t) PROVE LateInv' /\ ReadyStays
    <3>1. /\ task[t] \in Live /\ task'[t] \in Live \cup {"done"}
          /\ \A s \in Tasks \ {t} : task'[s] = task[s] /\ retried'[s] = retried[s]
          /\ task'[t] \in {"failing", "exhausted"} => Final(t)'
          /\ status' # status /\ status' = "error" =>
               /\ task'[t] \in {"exhausted", "done"}
               /\ task[t] \in {"work", "failing"} \/ status \notin Ready
          /\ status' # status /\ status' \in Ready => task[t] = "work" /\ task'[t] = "done"
          /\ status' # status => status' \in {"processing", "error"} \cup Ready
          /\ task'[t] \in {"work", "failing"} => status' \in {"processing", None} \/
               (task[t] = "work" /\ status' = status)
          /\ task[t] = "exhausted" => task'[t] = "done" /\ status' \in {status, "error"}
          /\ status' = "processing" /\ stale' => status = "processing" /\ stale
          /\ UNCHANGED web
      BY <1>2, <2>2, AttemptWrites DEF LateInv
    <3>2. upload = "done" /\ upload' = "done" /\ click' = click /\ ~(status' = "processing" /\ stale')
      BY <1>2, <3>1 DEF LateInv, TypeOK, web, Live, Running, LiveTasks
    <3>3. ReadyStays
      BY <1>2, <3>1 DEF ReadyStays, LateInv, Ready
    <3>4. task[Upload] \notin Busy => task'[Upload] \notin Busy
      BY <1>2, <2>0, <3>1 DEF Busy, Live, Running
    <3>5. \A s \in Tasks : /\ task'[s] \in {"failing", "exhausted"} => Final(s)'
                           /\ task'[s] \in {"work", "failing"} => status' \notin Ready
      <4>1. ASSUME NEW s \in Tasks, s # t
            PROVE  /\ task'[s] \in {"failing", "exhausted"} => Final(s)'
                   /\ task'[s] \in {"work", "failing"} => status' \notin Ready
        <5>1. task'[s] \in {"failing", "exhausted"} => Final(s)'
          BY <1>2, <3>1, <4>1 DEF LateInv, Final
        <5>2. ASSUME status' # status, status' \in Ready PROVE task[s] \notin {"work", "failing"}
          BY <1>2, <2>0, <3>1, <4>1, <5>2 DEF LateInv, OneRetry, Busy, Live, Running
        <5>. QED BY <1>2, <3>1, <4>1, <5>1, <5>2 DEF LateInv
      <4>2. task'[t] \in {"work", "failing"} => status' \notin Ready
        BY <1>2, <3>1 DEF LateInv, Ready
      <4>. QED BY <3>1, <4>1, <4>2
    <3>6. ASSUME NEW c \in Clicks
          PROVE  /\ click[c] \in Open \/ task'[c] # "unused" => task'[Upload] \notin Busy
                 /\ task'[c] # "unused" => click[c] = "done"
                 /\ click[c] \in Open => status' \in {"pending", "error", None}
      <4>1. task'[c] # "unused" => task[c] # "unused"
        BY <2>0, <3>1 DEF Live, Running
      <4>2. click[c] \in Open => t = Upload /\ task[t] = "exhausted"
        BY <1>2, <2>0, <3>1 DEF LateInv, OneRetry, Busy, Open, Live, Running
      <4>. QED BY <1>2, <3>1, <3>4, <4>1, <4>2 DEF LateInv
    <3>7. status' = "error" => task'[Upload] \notin Busy
      <4>1. CASE t = Upload
        BY <1>2, <3>1, <3>4, <4>1 DEF LateInv, Busy, Live, Running
      <4>2. CASE t # Upload
        <5>1. t \in Clicks /\ task[t] # "unused"
          BY <2>0, <3>1, <4>2 DEF Live, Running
        <5>. QED BY <1>2, <3>4, <5>1 DEF LateInv
      <4>. QED BY <4>1, <4>2
    <3>. QED BY <3>2, <3>3, <3>5, <3>6, <3>7 DEF LateInv
  <2>3. CASE CreateFile \/ DropUpload \/ FileDeleted
    <3>1. UNCHANGED <<click, task, retried, stale>> /\ status' \in {"pending", None}
      BY <2>3 DEF CreateFile, DropUpload, FileDeleted, web, queue
    <3>2. /\ upload' = "created" => status' = "pending"
          /\ status' = "pending" => upload = "idle"
          /\ upload' # "idle" /\ (upload' # "done" => upload # "done")
      BY <1>2, <2>3 DEF CreateFile, DropUpload, FileDeleted, LateInv, web
    <3>3. ReadyStays
      BY <1>2, <3>1, <3>2, <2>3 DEF CreateFile, DropUpload, FileDeleted, LateInv, ReadyStays
    <3>4. status' \notin Ready \cup {"error", "processing"}
      BY <3>1 DEF Ready
    <3>. QED BY <1>2, <2>0, <3>1, <3>2, <3>3, <3>4 DEF LateInv, Final
  <2>4. CASE EnqueueUpload
    <3>1. /\ upload = "created" /\ upload' = "done" /\ UNCHANGED <<status, stale, click, retried>>
          /\ task' = [task EXCEPT ![Upload] = "queued"]
      BY <2>4 DEF EnqueueUpload, Enqueue, row
    <3>2. /\ \A c \in Clicks : task'[c] = "unused" /\ click'[c] \notin Open
          /\ \A t \in Tasks : task'[t] \in {"unused", "queued"}
          /\ status' = "pending"
      BY <1>2, <2>0, <3>1 DEF LateInv, TypeOK, OneRetry
    <3>. QED BY <3>1, <3>2 DEF LateInv, ReadyStays, Ready
  <2>5. ASSUME NEW c \in Clicks, ResetFileForRetry(c) PROVE LateInv' /\ ReadyStays
    <3>1. CASE status # "error"
      <4>1. UNCHANGED <<status, stale, upload, task, retried>> /\ click' = [click EXCEPT ![c] = "done"] /\ click[c] = "idle"
        BY <2>5, <3>1 DEF ResetFileForRetry, Step, queue
      <4>2. \A d \in Clicks : click'[d] \in {click[d], "done"} /\ (click[d] = "done" => click'[d] = "done")
        BY <1>2, <4>1 DEF TypeOK
      <4>. QED BY <1>2, <4>1, <4>2 DEF LateInv, LiveTasks, Final, ReadyStays, Open
    <3>2. CASE status = "error"
      <4>1. /\ UNCHANGED <<stale, upload, task, retried>> /\ click' = [click EXCEPT ![c] = "reset"]
            /\ click[c] = "idle" /\ status' = "pending"
        BY <2>5, <3>2 DEF ResetFileForRetry, Step, queue
      <4>2. /\ \A d \in Clicks : d = c /\ click'[d] = "reset" /\ task'[d] = "unused"
            /\ upload' = "done" /\ task'[Upload] \notin Busy
        BY <1>2, <3>2, <4>1 DEF LateInv, TypeOK, OneRetry
      <4>. QED BY <1>2, <3>2, <4>1, <4>2 DEF LateInv, Final, ReadyStays, Ready, Open
    <3>. QED BY <3>1, <3>2
  <2>6. ASSUME NEW c \in Clicks, EnqueueRetry(c) PROVE LateInv' /\ ReadyStays
    <3>1. /\ UNCHANGED <<status, stale, upload, retried>> /\ click[c] = "reset"
          /\ click' = [click EXCEPT ![c] = "done"] /\ task' = [task EXCEPT ![c] = "queued"]
      BY <2>6 DEF EnqueueRetry, Enqueue, Step, row
    <3>2. /\ \A d \in Clicks : d = c /\ click'[d] = "done" /\ task'[d] = "queued"
          /\ task'[Upload] = task[Upload] /\ task[Upload] \notin Busy
          /\ upload = "done" /\ status \in {"pending", "error", None}
      BY <1>2, <2>0, <3>1 DEF LateInv, TypeOK, OneRetry, Open
    <3>. QED BY <1>2, <2>0, <3>1, <3>2 DEF LateInv, Final, ReadyStays, Ready, Open
  <2>7. ASSUME NEW c \in Clicks, EnqueueRefused(c) \/ Revert(c) PROVE LateInv' /\ ReadyStays
    <3>1. /\ UNCHANGED <<stale, upload, task, retried>> /\ click[c] \in Open
          /\ status' \in {status, "error"}
          /\ \/ click' = [click EXCEPT ![c] = "revert"]
             \/ click' = [click EXCEPT ![c] = "done"]
      BY <2>7 DEF EnqueueRefused, Revert, Step, MarkFileError, StatementFails, row, queue, Open
    <3>2. /\ \A d \in Clicks : d = c /\ click'[d] \in {"revert", "done"} /\ task'[d] = "unused"
          /\ task[Upload] \notin Busy /\ upload = "done" /\ status \in {"pending", "error", None}
      BY <1>2, <2>0, <3>1 DEF LateInv, TypeOK, OneRetry, Open
    <3>. QED BY <1>2, <2>0, <3>1, <3>2 DEF LateInv, Final, ReadyStays, Ready, Open
  <2>8. CASE ServerDies
    <3>1. /\ UNCHANGED <<status, stale, task, retried>>
          /\ upload' = IF upload = "created" THEN "done" ELSE upload
          /\ \A d \in Clicks : click'[d] = IF click[d] \in Open THEN "done" ELSE click[d]
      BY <2>8 DEF ServerDies, row, queue, Open
    <3>2. \A d \in Clicks : click'[d] \notin Open /\ (click[d] = "done" => click'[d] = "done")
      BY <3>1 DEF Open
    <3>. QED BY <1>2, <3>1, <3>2 DEF LateInv, LiveTasks, Final, ReadyStays
  <2>9. ASSUME NEW t \in Tasks, WorkerDies(t) PROVE LateInv' /\ ReadyStays
    <3>1. /\ task[t] \in Running /\ UNCHANGED <<status, stale, upload, click>>
          /\ task'[t] = IF Final(t) THEN "done" ELSE "queued"
          /\ \A s \in Tasks \ {t} : task'[s] = task[s] /\ retried'[s] = retried[s]
      BY <1>2, <2>9 DEF WorkerDies, TypeOK, row, web
    <3>2. task[t] = "exhausted" => task'[t] = "done"
      BY <1>2, <3>1 DEF LateInv
    <3>3. task[Upload] \notin Busy => task'[Upload] \notin Busy
      BY <2>0, <3>1, <3>2 DEF Busy, Live, Running
    <3>4. upload = "done" /\ task[t] # "unused" /\ task'[t] \notin {"failing", "exhausted", "work"}
      BY <1>2, <3>1 DEF LateInv, TypeOK, Running
    <3>5. LiveTasks # {} /\ ReadyStays
      BY <3>1 DEF LiveTasks, Live, ReadyStays
    <3>6. \A s \in Tasks : task'[s] # "unused" => task[s] # "unused"
      BY <3>1, <3>4
    <3>. QED BY <1>2, <2>0, <3>1, <3>3, <3>4, <3>5, <3>6 DEF LateInv, Final
  <2>10. CASE Age
    <3>1. UNCHANGED <<status, upload, click, task, retried>> /\ LiveTasks = {} /\ status = "processing"
      BY <2>10 DEF Age, OneRetry, web, queue
    <3>. QED BY <1>2, <3>1 DEF LateInv, LiveTasks, Final, ReadyStays
  <2>11. CASE CheckStuckFiles
    <3>1. /\ UNCHANGED <<upload, click, task, retried>> /\ LiveTasks = {} /\ status = "processing"
          /\ status' = "error"
      BY <1>2, <2>11 DEF CheckStuckFiles, LateInv, web, queue
    <3>2. /\ task[Upload] \notin Busy /\ upload' = "done"
      BY <1>2, <2>0, <3>1 DEF LateInv, LiveTasks, Busy, TypeOK
    <3>. QED BY <1>2, <3>1, <3>2 DEF LateInv, Final, ReadyStays, Ready
  <2>12. ASSUME NEW t \in Tasks, Heartbeat(t) PROVE LateInv' /\ ReadyStays
    <3>1. UNCHANGED <<status, upload, click, task, retried>> /\ stale' = FALSE
      BY <2>12 DEF Heartbeat, web, queue
    <3>. QED BY <1>2, <3>1 DEF LateInv, Final, ReadyStays
  <2>. QED BY <1>2, <2>1, <2>2, <2>3, <2>4, <2>5, <2>6, <2>7, <2>8, <2>9, <2>10, <2>11, <2>12
           DEF Next, Requests, Retry, OneRetry
<1>3. TypeOK /\ LateInv /\ [Next]_vars => LateInv' /\ [ReadyStays]_vars
  BY <1>2
<1>. QED BY <1>1, <1>3, Invariant, PTL DEF Spec, ReadyIsRebuilt
=============================================================================
