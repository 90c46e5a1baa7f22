------------------------------ MODULE SSERelay ------------------------------
(***************************************************************************)
(* One research stream: the relay in the server (internal/sserelay)        *)
(* subscribes to a channel, enqueues the job and passes the job's events   *)
(* on to the client; the worker (worker/research.go, worker/abort.go) runs *)
(* the agent, publishes what it emits, and is told by a key in Redis to    *)
(* stop.  Publish and subscribe keep the order and forget what nobody is   *)
(* subscribed to.                                                          *)
(***************************************************************************)
EXTENDS Integers, Sequences

CONSTANTS Steps,        \* events of an agent before its report
          BufferSize,   \* of the agent's channel of events
          MaxAttempts,  \* of the job: asynq.MaxRetry(1)
          MaxCrashes    \* bound

ASSUME RelayAssumption ==
    /\ {Steps, MaxCrashes} \subseteq Nat
    /\ {BufferSize, MaxAttempts} \subseteq Nat \ {0}

VARIABLES
    relay,      \* where Run is
    client,     \* the client is connected
    channel,    \* messages that were published and not yet received
    relayed,    \* events written to the client
    aborted,    \* the abort key is set
    job,        \* where the job is
    attempt, crashes,
    cancelled,  \* the context of the attempt is cancelled
    emitted,    \* events the agent has emitted
    closed,     \* the agent has ended
    buffer,     \* its channel of events
    report,     \* the report the worker has seen
    saved,      \* of the last save: "no", "yes", "failed" in the database, "aborted"
    published   \* history: messages published since the job was enqueued

agentVars == <<emitted, closed, buffer>>
relayVars == <<relay, client, channel, relayed, aborted, job, attempt, crashes, cancelled,
          agentVars, report, saved, published>>

\* An event is its attempt and its number; the messages that are none of them.
Report == Steps + 1
Cancelled == 0
Done == <<0, 0>>    \* "__done__"

\* A stream in its first state, or one that is not used ("over").
RelayStarts(at) ==
    /\ relay = at /\ client = TRUE /\ channel = <<>> /\ relayed = <<>>
    /\ aborted = FALSE
    /\ job = "none" /\ attempt = 0 /\ crashes = 0 /\ cancelled = FALSE
    /\ emitted = 0 /\ closed = FALSE /\ buffer = <<>>
    /\ report = FALSE /\ saved = "no" /\ published = <<>>

RelayInit == RelayStarts("subscribe")

\* What reaches the channel: nothing before the subscription and after the end.
Deliver(message) ==
    /\ published' = Append(published, message)
    /\ channel' = IF relay \in {"enqueue", "loop"} THEN Append(channel, message) ELSE channel

-----------------------------------------------------------------------------
(* The relay.                                                              *)

Subscribe ==
    /\ relay = "subscribe"
    /\ relay' = IF client THEN "enqueue" ELSE "over"
    /\ UNCHANGED <<client, channel, relayed, aborted, job, attempt, crashes, cancelled,
                   agentVars, report, saved, published>>

\* Mutant of Enqueue: the job is enqueued before the subscription stands.
EnqueueFirst ==
    /\ relay \in {"subscribe", "enqueue"} /\ (relay = "enqueue" \/ job = "none")
    /\ job' = IF job = "none" THEN "queued" ELSE job
    /\ relay' = IF relay = "enqueue" THEN "loop" ELSE relay
    /\ UNCHANGED <<client, channel, relayed, aborted, attempt, crashes, cancelled,
                   agentVars, report, saved, published>>

Enqueue ==
    /\ relay = "enqueue" /\ job = "none"
    /\ \/ job' = "queued" /\ relay' = "loop"
       \/ job' = job /\ relay' = "over"
    /\ UNCHANGED <<client, channel, relayed, aborted, attempt, crashes, cancelled,
                   agentVars, report, saved, published>>

Receive ==
    /\ relay = "loop" /\ client /\ channel # <<>>
    /\ channel' = Tail(channel)
    /\ IF Head(channel) = Done
       THEN relay' = "over" /\ UNCHANGED relayed
       ELSE relayed' = Append(relayed, Head(channel)) /\ UNCHANGED relay
    /\ UNCHANGED <<client, aborted, job, attempt, crashes, cancelled, agentVars,
                   report, saved, published>>

\* The context of the request is done, or a frame cannot be written.  Whether the
\* key could be set is not looked at.
ClientGone ==
    /\ relay = "loop" /\ ~client
    /\ aborted' \in {TRUE, aborted}
    /\ relay' = "over"
    /\ UNCHANGED <<client, channel, relayed, job, attempt, crashes, cancelled,
                   agentVars, report, saved, published>>

\* No message for the whole timeout; the job is not told.  (A client that goes
\* in the very instant of the timeout is left out.)
Inactivity ==
    /\ relay = "loop" /\ channel = <<>> /\ client
    /\ relay' = "over"
    /\ UNCHANGED <<client, channel, relayed, aborted, job, attempt, crashes, cancelled,
                   agentVars, report, saved, published>>

\* The client closes the connection, or asks for the abort and stays.
Disconnect ==
    /\ client /\ client' = FALSE
    /\ UNCHANGED <<relay, channel, relayed, aborted, job, attempt, crashes, cancelled,
                   agentVars, report, saved, published>>

Abort ==
    /\ client /\ ~aborted
    /\ aborted' = TRUE
    /\ UNCHANGED <<relay, client, channel, relayed, job, attempt, crashes, cancelled,
                   agentVars, report, saved, published>>

-----------------------------------------------------------------------------
(* The worker.                                                             *)

StartJob ==
    /\ job = "queued"
    /\ job' = "running" /\ attempt' = attempt + 1 /\ cancelled' = FALSE
    /\ emitted' = 0 /\ closed' = FALSE /\ buffer' = <<>> /\ report' = FALSE
    /\ UNCHANGED <<relay, client, channel, relayed, aborted, crashes, saved, published>>

\* Mutant of Watch: the key is read before the agent starts, and not again.
WatchAtStart ==
    /\ job = "running" /\ aborted /\ ~cancelled /\ emitted = 0
    /\ cancelled' = TRUE
    /\ UNCHANGED <<relay, client, channel, relayed, aborted, job, attempt, crashes,
                   agentVars, report, saved, published>>

Watch ==
    /\ job = "running" /\ aborted /\ ~cancelled
    /\ cancelled' = TRUE
    /\ UNCHANGED <<relay, client, channel, relayed, aborted, job, attempt, crashes,
                   agentVars, report, saved, published>>

\* The agent never waits for a reader: what does not fit is dropped.
Emit(event) ==
    /\ buffer' = IF Len(buffer) < BufferSize THEN Append(buffer, event) ELSE buffer
    /\ UNCHANGED <<relay, client, channel, relayed, aborted, job, attempt, crashes, cancelled,
                   report, saved, published>>

AgentStep ==
    /\ job = "running" /\ ~closed /\ ~cancelled /\ emitted < Steps
    /\ emitted' = emitted + 1 /\ UNCHANGED closed
    /\ Emit(<<attempt, emitted + 1>>)

AgentReport ==
    /\ job = "running" /\ ~closed /\ emitted = Steps
    /\ emitted' = emitted + 1 /\ closed' = TRUE
    /\ Emit(<<attempt, Report>>)

AgentCancelled ==
    /\ job = "running" /\ ~closed /\ cancelled
    /\ closed' = TRUE /\ UNCHANGED emitted
    /\ Emit(<<attempt, Cancelled>>)

\* A cancelled context fails the publish, which is only logged.
PublishEvent ==
    /\ job = "running" /\ buffer # <<>>
    /\ buffer' = Tail(buffer)
    /\ report' = (report \/ Head(buffer)[2] = Report)
    /\ IF cancelled THEN UNCHANGED <<channel, published>> ELSE Deliver(Head(buffer))
    /\ UNCHANGED <<relay, client, relayed, aborted, job, attempt, crashes, cancelled,
                   emitted, closed, saved>>

\* A failure is only logged, also that of a context the abort has cancelled.
Save ==
    /\ job = "running" /\ closed /\ buffer = <<>>
    /\ IF report THEN saved' \in (IF cancelled THEN {"aborted"} ELSE {"yes", "failed"})
       ELSE UNCHANGED saved
    /\ job' = "saved"
    /\ UNCHANGED <<relay, client, channel, relayed, aborted, attempt, crashes, cancelled,
                   agentVars, report, published>>

\* Mutant of PublishDone: the end is announced with a context of its own, which
\* the abort does not cancel.
PublishDoneAlways ==
    /\ job = "saved"
    /\ job' = "over"
    /\ Deliver(Done)
    /\ UNCHANGED <<relay, client, relayed, aborted, attempt, crashes, cancelled, agentVars,
                   report, saved>>

PublishDone ==
    /\ job = "saved"
    /\ job' = "over"
    /\ IF cancelled THEN UNCHANGED <<channel, published>> ELSE Deliver(Done)
    /\ UNCHANGED <<relay, client, relayed, aborted, attempt, crashes, cancelled, agentVars,
                   report, saved>>

WorkerCrash ==
    /\ job \in {"running", "saved"}
    /\ crashes < MaxCrashes /\ crashes' = crashes + 1
    /\ job' = IF attempt < MaxAttempts THEN "queued" ELSE "over"
    /\ UNCHANGED <<relay, client, channel, relayed, aborted, attempt, cancelled, agentVars,
                   report, saved, published>>

Relay == Subscribe \/ Enqueue \/ Receive \/ ClientGone
Worker ==
    \/ StartJob \/ Watch \/ AgentStep \/ AgentReport \/ AgentCancelled
    \/ PublishEvent \/ Save \/ PublishDone

RelayNext == Relay \/ Inactivity \/ Disconnect \/ Abort \/ Worker \/ WorkerCrash

RelaySpec == RelayInit /\ [][RelayNext]_relayVars

\* The loops of relay and worker go on and so does the watcher of the key.  The
\* steps of the agent wait for models and web pages: they may take for ever,
\* but return when their context is cancelled.  A stream on which nothing more
\* comes times out.
RelayFairness ==
    /\ WF_relayVars(Relay)
    /\ WF_relayVars(StartJob \/ PublishEvent \/ Save \/ PublishDone)
    /\ WF_relayVars(AgentCancelled) /\ WF_relayVars(Watch)
    /\ WF_relayVars(Inactivity)

RelayFairSpec == RelaySpec /\ RelayFairness

-----------------------------------------------------------------------------
RelayTypeOK ==
    /\ relay \in {"subscribe", "enqueue", "loop", "over"}
    /\ job \in {"none", "queued", "running", "saved", "over"}
    /\ attempt \in 0 .. MaxAttempts
    /\ Len(buffer) <= BufferSize /\ emitted \in 0 .. Steps + 1
    /\ relay \in {"subscribe", "enqueue"} => job = "none"

\* While the relay listens, the client has received the first of the messages
\* the job has published and the rest are on their way, in order: none is
\* missed before the subscription, none is doubled, whatever crashes.
NothingIsMissed ==
    /\ RelayTypeOK
    /\ relay = "loop" => relayed \o channel = published

\* When the client is told that the job is done, the report that attempt showed
\* it is in the database unless the database itself refused it: the abort that
\* makes a save fail silences the end as well, whenever it comes, so no client
\* hears "done" of a report that its own abort, or a crash, has dropped
\* (worker/research.go saves before it publishes the end, with one context).
DoneMeansSaved ==
    \A n \in 2 .. Len(published) :
        published[n] = Done /\ published[n - 1][2] = Report => saved \in {"yes", "failed"}

\* Every stream ends, also one whose job was lost; and a client that goes away
\* during the stream, or asks for the abort, ends the job, even one whose agent
\* hangs, in whatever state the job is and whichever attempt it is on - unless the
\* relay could not set the key.
StreamsAndJobsEnd ==
    /\ <>(relay = "over")
    /\ relay = "loop" /\ (aborted \/ ~client) ~> job = "over" \/ (relay = "over" /\ ~aborted)

=============================================================================
