----------------------------- MODULE FileStatus -----------------------------
(***************************************************************************)
(* The status of one row of files, from the upload to the last attempt.    *)
(* It is written by the upload and retry endpoints (files), by every       *)
(* attempt of every task of the file (worker, processor) and by the        *)
(* stuck-file sweep (worker/maintenance.go).  Each write is a statement of *)
(* its own: neither the queue nor another writer shares a transaction with *)
(* it.  What an attempt does to the index is the subject of CopyMode.      *)
(***************************************************************************)
EXTENDS Naturals

CONSTANTS
    Upload,     \* the request that creates the file
    Clicks,     \* the requests that retry it
    Reembeds,   \* the re-embeds of its whole KB
    MaxRetry,   \* asynq.MaxRetry of a task, 3 in the code
    Overlap,    \* TRUE: a re-embed of the whole KB may meet a live task
    Faults,     \* what may go wrong besides the attempts: see AllFaults
    None

AllFaults == {"enqueue",  \* Redis refuses a task
              "db",       \* a statement on the row fails
              "slow",     \* a live attempt, or its backoff, is silent for
                          \* longer than StuckFileTimeout
              "server",   \* the server dies inside a request
              "worker"}   \* a worker dies inside an attempt

Statuses == {"pending", "processing", "completed", "partial", "error"}
Reasons == {"queue", "timeout", "attempt", "unsupported", "processing"}

ASSUME StatusAssumption ==
    /\ MaxRetry \in Nat
    /\ Overlap \in BOOLEAN
    /\ Faults \subseteq AllFaults
    /\ None \notin Statuses \cup Reasons

VARIABLES
    status,   \* files.status, None before and after the row's life
    reason,   \* files.error_stage
    stale,    \* progress_updated_at is older than StuckFileTimeout
    upload,   \* where the upload handler is
    click,    \* where each retry request is
    task,     \* where the task of each request is
    retried   \* the failed attempts of each task

row == <<status, reason, stale>>
web == <<upload, click>>
queue == <<task, retried>>
vars == <<row, web, queue>>

\* A task is named for the request that queues it.
Tasks == {Upload} \cup Clicks \cup Reembeds

Running == {"preflight", "flip", "check", "fetch", "mark", "work", "failing", "exhausted"}
Live == Running \cup {"queued"}

TypeOK ==
    /\ status \in Statuses \cup {None}
    /\ reason \in Reasons \cup {None}
    /\ stale \in BOOLEAN
    /\ upload \in {"idle", "created", "done"}
    /\ click \in [Clicks -> {"idle", "reset", "revert", "done"}]
    /\ task \in [Tasks -> Live \cup {"unused", "done"}]
    /\ retried \in [Tasks -> 0..MaxRetry]

Init ==
    /\ status = None /\ reason = None /\ stale = FALSE
    /\ upload = "idle" /\ click = [c \in Clicks |-> "idle"]
    /\ task = [t \in Tasks |-> "unused"]
    /\ retried = [t \in Tasks |-> 0]

LiveTasks == {t \in Tasks : task[t] \in Live}
Final(t) == retried[t] = MaxRetry

-----------------------------------------------------------------------------
(* The statements on the row.  Each is a no-op once the row is deleted.    *)

UpdateFileStatus(s) ==
    IF status = None THEN UNCHANGED row
    ELSE /\ status' = s /\ reason' = None
         /\ stale' = (stale /\ s # "processing")

MarkFileError(why) ==
    IF status = None THEN UNCHANGED row
    ELSE status' = "error" /\ reason' = why /\ UNCHANGED stale

\* Mutant of MarkFileErrorIfUnset: a ready file is not left alone.
MarkFileErrorAlways(why) ==
    IF status = None THEN UNCHANGED row
    ELSE /\ status' = "error" /\ UNCHANGED stale
         /\ reason' = IF reason = None THEN why ELSE reason

MarkFileErrorIfUnset(why) ==
    IF status \in {None, "completed", "partial"} THEN UNCHANGED row
    ELSE /\ status' = "error" /\ UNCHANGED stale
         /\ reason' = IF reason = None THEN why ELSE reason

StatementFails == "db" \in Faults /\ UNCHANGED row

-----------------------------------------------------------------------------
(* The requests.                                                           *)

Enqueue(t) ==
    /\ task[t] = "unused"
    /\ task' = [task EXCEPT ![t] = "queued"]
    /\ UNCHANGED retried

CreateFile ==
    /\ upload = "idle"
    /\ upload' = "created"
    /\ status' = "pending"
    /\ UNCHANGED <<reason, stale, click, queue>>

EnqueueUpload ==
    /\ upload = "created"
    /\ upload' = "done"
    /\ Enqueue(Upload)
    /\ UNCHANGED <<row, click>>

\* The row and the blob are deleted; the user sees the upload fail.
DropUpload ==
    /\ "enqueue" \in Faults /\ upload = "created"
    /\ upload' = "done"
    /\ status' = None /\ reason' = None
    /\ UNCHANGED <<stale, click, queue>>

Step(c, from, to) == click[c] = from /\ click' = [click EXCEPT ![c] = to]

\* Mutant of ResetFileForRetry: the error detail stays.
ResetKeepsError(c) ==
    /\ IF status = "error"
       THEN Step(c, "idle", "reset") /\ status' = "pending"
       ELSE Step(c, "idle", "done") /\ UNCHANGED status
    /\ UNCHANGED <<reason, stale, upload, queue>>

ResetFileForRetry(c) ==
    /\ IF status = "error"
       THEN Step(c, "idle", "reset") /\ status' = "pending" /\ reason' = None
       ELSE Step(c, "idle", "done") /\ UNCHANGED <<status, reason>>
    /\ UNCHANGED <<stale, upload, queue>>

EnqueueRetry(c) ==
    /\ Step(c, "reset", "done")
    /\ Enqueue(c)
    /\ UNCHANGED <<row, upload>>

EnqueueRefused(c) ==
    /\ "enqueue" \in Faults
    /\ Step(c, "reset", "revert")
    /\ UNCHANGED <<row, upload, queue>>

\* The error of MarkFileError is dropped.
Revert(c) ==
    /\ Step(c, "revert", "done")
    /\ MarkFileError("queue") \/ StatementFails
    /\ UNCHANGED <<upload, queue>>

Retry(c) == ResetFileForRetry(c) \/ EnqueueRetry(c) \/ EnqueueRefused(c) \/ Revert(c)

ReembedKB(b) ==
    /\ status \in {"completed", "partial", "error"}
    /\ Overlap \/ (LiveTasks = {} /\ \A c \in Clicks : click[c] \in {"idle", "done"})
    /\ Enqueue(b)
    /\ UNCHANGED <<row, web>>

FileDeleted ==
    /\ status # None /\ upload = "done"
    /\ status' = None /\ reason' = None
    /\ UNCHANGED <<stale, web, queue>>

ServerDies ==
    /\ "server" \in Faults
    /\ \/ upload = "created"
       \/ \E c \in Clicks : click[c] \in {"reset", "revert"}
    /\ upload' = IF upload = "created" THEN "done" ELSE upload
    /\ click' = [c \in Clicks |-> IF click[c] \in {"reset", "revert"} THEN "done" ELSE click[c]]
    /\ UNCHANGED <<row, queue>>

-----------------------------------------------------------------------------
(* An attempt.                                                             *)

Goto(t, from, to) ==
    /\ task[t] = from
    /\ task' = [task EXCEPT ![t] = to]
    /\ UNCHANGED retried

\* The handler has returned an error: asynq runs the task again, or the
\* wrapper MarkErrorOnExhaustion sees that this was the last attempt.
Error(t, from) ==
    /\ task[t] = from
    /\ IF Final(t)
       THEN task' = [task EXCEPT ![t] = "exhausted"] /\ UNCHANGED retried
       ELSE /\ task' = [task EXCEPT ![t] = "queued"]
            /\ retried' = [retried EXCEPT ![t] = @ + 1]

Start(t) ==
    /\ Goto(t, "queued", IF t = Upload THEN "check" ELSE "preflight")
    /\ UNCHANGED <<row, web>>

\* The blob is missing, or its store does not answer.
PreflightReembed(t) ==
    /\ Goto(t, "preflight", "flip") \/ Error(t, "preflight")
    /\ UNCHANGED <<row, web>>

FlipToProcessing(t) ==
    /\ \/ Goto(t, "flip", "check") /\ UpdateFileStatus("processing")
       \/ Error(t, "flip") /\ StatementFails
    /\ UNCHANGED web

\* RevokeTask: a deleted file's task ends without a retry.
CheckRow(t) ==
    /\ Goto(t, "check", IF status = None THEN "done" ELSE "fetch")
    /\ UNCHANGED <<row, web>>

MaterializeBlob(t) ==
    /\ Goto(t, "fetch", "mark") \/ Error(t, "fetch")
    /\ UNCHANGED <<row, web>>

BeginIngest(t) ==
    /\ \/ Goto(t, "mark", IF status = None THEN "done" ELSE "work") /\ UpdateFileStatus("processing")
       \/ Error(t, "mark") /\ StatementFails
    /\ UNCHANGED web

Heartbeat(t) ==
    /\ task[t] = "work" /\ stale
    /\ stale' = FALSE
    /\ UNCHANGED <<status, reason, web, queue>>

\* The flat path returns the error of the last statement, the others drop it.
Complete(t) ==
    /\ \/ /\ Goto(t, "work", "done")
          /\ UpdateFileStatus("completed") \/ UpdateFileStatus("partial") \/ StatementFails
       \/ Error(t, "work") /\ StatementFails
    /\ UNCHANGED web

\* markFailed: an attempt that is not the last leaves the row alone.
AttemptFails(t) ==
    /\ IF Final(t) THEN Goto(t, "work", "failing") ELSE Error(t, "work")
    /\ UNCHANGED <<row, web>>

RecordFailure(t) ==
    /\ Error(t, "failing")
    /\ MarkFileError("attempt") \/ StatementFails
    /\ UNCHANGED web

\* No retry can help: the error is recorded at once, and asynq retries nothing.
Unsupported(t) ==
    /\ IF Final(t) THEN Error(t, "work") ELSE Goto(t, "work", "done")
    /\ MarkFileError("unsupported") \/ StatementFails
    /\ UNCHANGED web

MarkErrorOnExhaustion(t) ==
    /\ Goto(t, "exhausted", "done")
    /\ MarkFileErrorIfUnset("processing") \/ StatementFails
    /\ UNCHANGED web

\* The lease of a dead worker's task expires: asynq queues the task again, or
\* archives it, and no handler sees that.
WorkerDies(t) ==
    /\ "worker" \in Faults /\ task[t] \in Running
    /\ task' = [task EXCEPT ![t] = IF Final(t) THEN "done" ELSE "queued"]
    /\ retried' = [retried EXCEPT ![t] = IF Final(t) THEN @ ELSE @ + 1]
    /\ UNCHANGED <<row, web>>

Attempt(t) ==
    \/ Start(t) \/ PreflightReembed(t) \/ FlipToProcessing(t) \/ CheckRow(t)
    \/ MaterializeBlob(t) \/ BeginIngest(t) \/ Complete(t) \/ AttemptFails(t)
    \/ RecordFailure(t) \/ Unsupported(t) \/ MarkErrorOnExhaustion(t)

-----------------------------------------------------------------------------
(* The sweep.  An attempt that is alive refreshes its heartbeat in time    *)
(* unless it is slow.                                                      *)

Age ==
    /\ status = "processing" /\ ~stale
    /\ "slow" \in Faults \/ LiveTasks = {}
    /\ stale' = TRUE
    /\ UNCHANGED <<status, reason, web, queue>>

\* Mutant of CheckStuckFiles: a row without a recorded failure is skipped.
CheckFailedFiles ==
    /\ status = "processing" /\ stale /\ reason # None
    /\ status' = "error"
    /\ UNCHANGED <<reason, stale, web, queue>>

CheckStuckFiles ==
    /\ status = "processing" /\ stale
    /\ status' = "error"
    /\ reason' = IF reason = None THEN "timeout" ELSE reason
    /\ UNCHANGED <<stale, web, queue>>

-----------------------------------------------------------------------------
Requests ==
    \/ CreateFile \/ EnqueueUpload \/ DropUpload \/ FileDeleted \/ ServerDies
    \/ \E c \in Clicks : Retry(c)
    \/ \E b \in Reembeds : ReembedKB(b)

Next ==
    \/ Requests
    \/ \E t \in Tasks : Attempt(t) \/ Heartbeat(t) \/ WorkerDies(t)
    \/ Age \/ CheckStuckFiles

Spec == Init /\ [][Next]_vars

(* A request runs to its end, a worker takes queued tasks and ends its     *)
(* attempts (every call has a timeout), time passes, the ticker ticks.     *)
(* Nobody need upload, click, re-embed or delete, and nothing need fail.   *)
Fairness ==
    /\ WF_vars(EnqueueUpload)
    /\ \A c \in Clicks : WF_vars(EnqueueRetry(c) \/ Revert(c))
    /\ \A t \in Tasks : WF_vars(Attempt(t))
    /\ WF_vars(Age) /\ WF_vars(CheckStuckFiles)

FairSpec == Spec /\ Fairness

-----------------------------------------------------------------------------
(* A pending file is on its way: a task of it is live, or the request that *)
(* made it pending is about to queue one or to take the status back.       *)
PendingIsQueued ==
    status = "pending" =>
        LiveTasks # {} \/ upload = "created" \/ \E c \in Clicks : click[c] \in {"reset", "revert"}

(* An error is the last word: when a file turns to 'error', no task that    *)
(* has failed an attempt is still to run again and make it ready           *)
(* (markFailed leaves it 'processing' for that long).                      *)
ErrorComesLast ==
    status # "error" /\ status' = "error" =>
        \A t \in Tasks : retried'[t] > 0 => task'[t] \in {"exhausted", "done"}
ErrorIsFinal == [][ErrorComesLast]_vars

(* The user sees a reason for exactly the files that failed, and never the *)
(* reason of an attempt that a later one has made up for, whichever writer *)
(* came last.                                                              *)
FailureIsExplained == status # None => (reason # None <=> status = "error")

(* A file that is ready loses that status only to an attempt that rebuilds *)
(* its index, and goes through 'processing' to do so: the late report of    *)
(* an attempt that a retry has made up for does not turn it to 'error'.    *)
ReadyStays ==
    status \in {"completed", "partial"} => status' \notin {"pending", "error"}
ReadyIsRebuilt == [][ReadyStays]_vars

(* No file is 'processing' for ever, whatever failed.                      *)
ProcessingEnds == []<>(status # "processing")

(* No file is 'pending' for ever while requests are not cut short and the  *)
(* worker that runs the last attempt of a task lives to report it.         *)
PendingEnds == []<>(status # "pending")
=============================================================================
