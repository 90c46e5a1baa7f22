----------------------------- MODULE AgentRuns -----------------------------
(***************************************************************************)
(* Agent chat turns of one thread: the agent_runs rows (adkbridge), the    *)
(* AG-UI endpoint that starts, streams, pauses and resumes them (agui),    *)
(* the ADK session they append to, and the chat messages the hooks store   *)
(* (chat).  A turn is one request and has one row; a resumed turn is a     *)
(* request of its own that claims the paused row of an earlier one.        *)
(* Requests of one thread may overlap: two tabs, or a double click.        *)
(***************************************************************************)
CONSTANTS
    Turns,      \* the requests
    Overlap,    \* FALSE: a request is answered before the next one arrives
    Faults,     \* what may fail besides the run itself: see AllFaults
    None

AllFaults == {"finish",   \* the UPDATE of RunStore.Finish fails
              "crash"}    \* the server process dies

Ends == {"completed", "failed", "cancelled", "interrupted"}

ASSUME AgentAssumption ==
    /\ Overlap \in BOOLEAN
    /\ Faults \subseteq AllFaults
    /\ None \notin Turns /\ None \notin Ends

VARIABLES
    pc,        \* where the handler of each request is
    answers,   \* the paused turn a request resumes, None for a new question
    run,       \* agent_runs.status, None before the row exists
    expired,   \* the turns whose pause is past expires_at
    lock,      \* the request whose claim holds the lock of the paused row
    found,     \* the paused turn that claim has read
    fresh,     \* the runs whose copy of the session has its latest update_time
    openIn,    \* the turns whose interrupt has no answer in the session
    outcome,   \* the end state the handler has settled on
    told,      \* the end state the hooks were told
    newest,    \* the newest message of the chat
    reply,     \* the parent of the answer each turn has stored
    about      \* (history) the turn whose question each run works on

rows == <<run, expired>>
sess == <<fresh, openIn>>
chat == <<newest, reply>>
vars == <<pc, answers, rows, lock, found, sess, outcome, told, chat, about>>

Statuses == Ends \cup {"running", "abandoned", None}
Stages == {"idle", "received", "begin", "claim", "claimed", "abandon", "stream", "agent",
           "thinking", "pausing", "answered", "finish", "tell", "done"}
Messages == {"user", "ai"} \X Turns

TypeOK ==
    /\ pc \in [Turns -> Stages]
    /\ run \in [Turns -> Statuses]
    /\ expired \subseteq Turns /\ openIn \subseteq Turns
    /\ {answers, found} \subseteq [Turns -> Turns \cup {None}]
    /\ lock \in Turns \cup {None}
    /\ fresh \subseteq Turns
    /\ {outcome, told} \subseteq [Turns -> Ends \cup {None}]
    /\ newest \in Messages \cup {None}
    /\ reply \in [Turns -> Messages \cup {None}]
    /\ about \in [Turns -> Turns]

Init ==
    /\ pc = [q \in Turns |-> "idle"]
    /\ run = [q \in Turns |-> None]
    /\ expired = {} /\ openIn = {}
    /\ answers = [q \in Turns |-> None] /\ found = [q \in Turns |-> None]
    /\ lock = None
    /\ fresh = {}
    /\ outcome = [q \in Turns |-> None] /\ told = [q \in Turns |-> None]
    /\ newest = None /\ reply = [q \in Turns |-> None]
    /\ about = [q \in Turns |-> q]

Goto(q, stage) == pc' = [pc EXCEPT ![q] = stage]
Settle(q, end) == outcome' = [outcome EXCEPT ![q] = end]
\* The handler returns; what it had read and decided goes with it.
Leave(q) ==
    /\ Goto(q, "done")
    /\ fresh' = fresh \ {q}
    /\ found' = [found EXCEPT ![q] = None]
    /\ outcome' = [outcome EXCEPT ![q] = None]

Paused == {p \in Turns : run[p] = "interrupted"}
HasOpen == Paused \ expired # {}

-----------------------------------------------------------------------------
(* The request, up to the stream.                                          *)

Arrives(q) == pc[q] = "idle" /\ (Overlap \/ \A p \in Turns : pc[p] \in {"idle", "done"})

\* Mutant of Ask: the thread is not checked for an open interrupt.
AskAnyway(q) ==
    /\ Arrives(q)
    /\ Goto(q, "received")
    /\ UNCHANGED <<answers, rows, lock, found, sess, outcome, told, chat, about>>

\* A new question: refused while the thread has an unexpired pause.
Ask(q) ==
    /\ Arrives(q)
    /\ ~HasOpen
    /\ Goto(q, "received")
    /\ UNCHANGED <<answers, rows, lock, found, sess, outcome, told, chat, about>>

\* A resume: it names interrupts that the session holds open.
Resume(q, p) ==
    /\ Arrives(q)
    /\ p \in openIn
    /\ answers' = [answers EXCEPT ![q] = p]
    /\ Goto(q, "received")
    /\ UNCHANGED <<rows, lock, found, sess, outcome, told, chat, about>>

Start(q) ==
    /\ pc[q] = "received"
    /\ run' = [run EXCEPT ![q] = "running"]
    /\ Goto(q, "begin")
    /\ UNCHANGED <<answers, expired, lock, found, sess, outcome, told, chat, about>>

\* The question is stored; a resume stores none.
TurnStarted(q) ==
    /\ pc[q] = "begin"
    /\ IF answers[q] = None
       THEN newest' = <<"user", q>> /\ Goto(q, "stream")
       ELSE newest' = newest /\ Goto(q, "claim")
    /\ UNCHANGED <<answers, rows, lock, found, sess, outcome, told, reply, about>>

\* Mutant of LockPaused: the row is read without a lock.
ReadPaused(q) ==
    /\ pc[q] = "claim"
    /\ \E p \in Paused : found' = [found EXCEPT ![q] = p]
    /\ Goto(q, "claimed")
    /\ UNCHANGED <<answers, rows, lock, sess, outcome, told, chat, about>>

\* SELECT ... FOR UPDATE SKIP LOCKED: a second claim sees no row.
LockPaused(q) ==
    /\ pc[q] = "claim"
    /\ IF lock = None /\ Paused # {}
       THEN /\ \E p \in Paused : found' = [found EXCEPT ![q] = p]
            /\ lock' = q
            /\ Goto(q, "claimed")
            /\ UNCHANGED outcome
       ELSE Settle(q, "failed") /\ Goto(q, "finish") /\ UNCHANGED <<found, lock>>
    /\ UNCHANGED <<answers, rows, sess, told, chat, about>>

\* The rest of the transaction of RunStore.ClaimResume.
ClaimResume(q) ==
    /\ pc[q] = "claimed"
    /\ lock' = None
    /\ CASE found[q] \in expired ->
                Goto(q, "abandon") /\ UNCHANGED <<run, about, outcome>>
         [] found[q] \notin expired /\ found[q] # answers[q] ->
                Settle(q, "failed") /\ Goto(q, "finish") /\ UNCHANGED <<run, about>>
         [] OTHER ->
                /\ run' = [run EXCEPT ![found[q]] = "completed"]
                /\ about' = [about EXCEPT ![q] = about[found[q]]]
                /\ Goto(q, "stream")
                /\ UNCHANGED outcome
    /\ UNCHANGED <<answers, expired, found, sess, told, chat>>

\* The expired pause is abandoned outside the transaction.
AbandonExpired(q) ==
    /\ pc[q] = "abandon"
    /\ lock = None
    /\ run' = IF found[q] \in Paused THEN [run EXCEPT ![found[q]] = "abandoned"] ELSE run
    /\ Settle(q, "failed")
    /\ Goto(q, "finish")
    /\ UNCHANGED <<answers, expired, lock, found, sess, told, chat, about>>

\* A store or hook error before the stream (failBeforeStream).
FailBeforeStream(q) ==
    /\ pc[q] \in {"begin", "claim", "claimed", "abandon"}
    /\ lock' = IF lock = q THEN None ELSE lock
    /\ Settle(q, "failed")
    /\ Goto(q, "finish")
    /\ UNCHANGED <<answers, rows, found, sess, told, chat, about>>

-----------------------------------------------------------------------------
(* The stream.                                                             *)

\* runner.Run reads the session before anything else.
LoadSession(q) ==
    /\ pc[q] = "stream"
    /\ fresh' = fresh \cup {q}
    /\ Goto(q, "agent")
    /\ UNCHANGED <<answers, rows, lock, found, openIn, outcome, told, chat, about>>

\* PGSessionService.AppendEvent; a stale session is refused (see StopRun).
AppendEvent(q) == q \in fresh /\ fresh' = {q}

\* The user's message, or the answers to the interrupts.
AppendInput(q) ==
    /\ pc[q] = "agent"
    /\ AppendEvent(q)
    /\ openIn' = openIn \ {answers[q]}
    /\ Goto(q, "thinking")
    /\ UNCHANGED <<answers, rows, lock, found, outcome, told, chat, about>>

\* The model's last event: an answer, or a call that waits for the user.
AppendOutput(q) ==
    /\ pc[q] = "thinking"
    /\ AppendEvent(q)
    /\ \/ Goto(q, "answered") /\ UNCHANGED openIn
       \/ Goto(q, "pausing") /\ openIn' = openIn \cup {q}
    /\ UNCHANGED <<answers, rows, lock, found, outcome, told, chat, about>>

InStream(q) == pc[q] \in {"stream", "agent", "thinking", "answered", "pausing"}

\* The client leaves, the time budget ends, the provider or a stale append
\* fails the run, or the handler panics.
StopRun(q) ==
    /\ InStream(q)
    /\ \E end \in {"failed", "cancelled"} : Settle(q, end)
    /\ Goto(q, "finish")
    /\ UNCHANGED <<answers, rows, lock, found, sess, told, chat, about>>

\* Mutant of Interrupt: every pause of the thread makes way for the new one.
InterruptReplacing(q) ==
    /\ pc[q] = "pausing"
    /\ lock = None
    /\ run' = [p \in Turns |-> IF p = q THEN "interrupted"
                               ELSE IF p \in Paused THEN "abandoned" ELSE run[p]]
    /\ Settle(q, "interrupted")
    /\ Goto(q, "tell")
    /\ UNCHANGED <<answers, expired, lock, found, sess, told, chat, about>>

\* RunStore.Interrupt: expired pauses make way; a live one holds the unique
\* index, the transaction is rolled back and the run fails instead.
Interrupt(q) ==
    /\ pc[q] = "pausing"
    /\ lock = None
    /\ IF HasOpen
       THEN Settle(q, "failed") /\ Goto(q, "finish") /\ UNCHANGED run
       ELSE /\ run' = [p \in Turns |-> IF p = q THEN "interrupted"
                                       ELSE IF p \in Paused THEN "abandoned" ELSE run[p]]
            /\ Settle(q, "interrupted")
            /\ Goto(q, "tell")
    /\ UNCHANGED <<answers, expired, lock, found, sess, told, chat, about>>

Complete(q) ==
    /\ pc[q] = "answered"
    /\ Settle(q, "completed")
    /\ Goto(q, "finish")
    /\ UNCHANGED <<answers, rows, lock, found, sess, told, chat, about>>

\* RunStore.Finish; its error is logged and the turn counts as settled.
Finish(q) ==
    /\ pc[q] = "finish"
    /\ \/ run' = IF run[q] = "running" THEN [run EXCEPT ![q] = outcome[q]] ELSE run
       \/ "finish" \in Faults /\ UNCHANGED run
    /\ Goto(q, "tell")
    /\ UNCHANGED <<answers, expired, lock, found, sess, outcome, told, chat, about>>

\* The hooks store the answer of a completed turn below its question; a resume
\* has stored none and takes the chat's newest message.  They may fail.
TurnFinished(q) ==
    /\ pc[q] = "tell"
    /\ told' = [told EXCEPT ![q] = outcome[q]]
    /\ \/ /\ outcome[q] = "completed"
          /\ reply' = [reply EXCEPT ![q] = IF answers[q] = None THEN <<"user", q>> ELSE newest]
          /\ newest' = <<"ai", q>>
       \/ UNCHANGED chat
    /\ Leave(q)
    /\ UNCHANGED <<answers, rows, lock, openIn, about>>

-----------------------------------------------------------------------------

\* The server dies; the database ends its transaction.
Crash(q) ==
    /\ "crash" \in Faults
    /\ pc[q] \notin {"idle", "done"}
    /\ lock' = IF lock = q THEN None ELSE lock
    /\ Leave(q)
    /\ UNCHANGED <<answers, rows, openIn, told, chat, about>>

PauseExpires(q) ==
    /\ q \in Paused \ expired
    /\ expired' = expired \cup {q}
    /\ UNCHANGED <<pc, answers, run, lock, found, sess, outcome, told, chat, about>>

\* Mutant of ExpireStale: it looks at running rows, which have no expiry.
ExpireRunning ==
    /\ lock = None
    /\ \E p \in expired : run[p] = "running"
    /\ run' = [p \in Turns |-> IF p \in expired /\ run[p] = "running" THEN "abandoned" ELSE run[p]]
    /\ UNCHANGED <<pc, answers, expired, lock, found, sess, outcome, told, chat, about>>

\* The worker's maintenance loop; a row that is being claimed is waited for.
ExpireStale ==
    /\ lock = None
    /\ Paused \cap expired # {}
    /\ run' = [p \in Turns |-> IF p \in Paused \cap expired THEN "abandoned" ELSE run[p]]
    /\ UNCHANGED <<pc, answers, expired, lock, found, sess, outcome, told, chat, about>>

Work(q) ==
    \/ Start(q) \/ TurnStarted(q) \/ LockPaused(q) \/ ClaimResume(q) \/ AbandonExpired(q)
    \/ FailBeforeStream(q) \/ LoadSession(q) \/ AppendInput(q) \/ AppendOutput(q) \/ StopRun(q)
    \/ Interrupt(q) \/ Complete(q) \/ Finish(q) \/ TurnFinished(q)

\* No further request arrives.
Rest ==
    /\ \A q \in Turns : pc[q] = "done"
    /\ UNCHANGED vars

Next ==
    \/ \E q \in Turns : \/ Ask(q) \/ Work(q) \/ Crash(q) \/ PauseExpires(q)
                        \/ \E p \in Turns : Resume(q, p)
    \/ ExpireStale
    \/ Rest

Spec == Init /\ [][Next]_vars

\* A handler runs on until it answers (the turn budget bounds the run), time
\* passes, and the worker's loop calls ExpireStale every quarter of an hour.
Fairness ==
    /\ \A q \in Turns : WF_vars(Work(q)) /\ WF_vars(PauseExpires(q))
    /\ WF_vars(ExpireStale)

FairSpec == Spec /\ Fairness
-----------------------------------------------------------------------------
(* Properties.                                                             *)

Claimed(q) == answers[q] # None /\ about[q] # q

\* An approval is carried out by one resume only, however many arrive at once.
ApprovedOnce ==
    \A q1, q2 \in Turns :
        Claimed(q1) /\ Claimed(q2) /\ answers[q1] = answers[q2] => q1 = q2

\* ... in every well-typed state.
AgentInv == TypeOK /\ ApprovedOnce

\* A pause is used up only by the resume that answers it: one that names other
\* interrupts, comes too late or fails leaves it as it was.  It is given up only
\* after its time: neither a second run that pauses, nor a resume, nor the
\* maintenance loop takes away what is still open.
PausesStand ==
    [][\A p \in Turns : run[p] = "interrupted" =>
          /\ run'[p] = "completed" =>
                \E q \in Turns : pc[q] = "claimed" /\ pc'[q] = "stream" /\ answers[q] = p
          /\ run'[p] = "abandoned" => p \in expired]_vars

\* What the hooks (and the client) are told is what the row says: a pause that
\* could not be recorded is never announced.
RowMatchesHooks ==
    \A q \in Turns :
        /\ told[q] \in {"completed", "failed", "cancelled"} => run[q] = told[q]
        /\ told[q] = "interrupted" => run[q] \in {"interrupted", "completed", "abandoned"}

\* Every answer is stored below the question it answers.
AnswersItsQuestion ==
    \A q \in Turns : reply[q] # None => reply[q] = <<"user", about[q]>>
=============================================================================
