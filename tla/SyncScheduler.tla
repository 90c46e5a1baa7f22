--------------------------- MODULE SyncScheduler ---------------------------
(***************************************************************************)
(* Scheduled syncs of external sources: the replicas of the server elect a *)
(* leader by a lock in Redis (app/scheduler.go), and the leader's sweeper  *)
(* stamps and enqueues the sources whose slot has come (syncsched), while  *)
(* the sources are edited over HTTP and synced by the worker.              *)
(*                                                                         *)
(* A statement of the database or of Redis is one step.  The TTL of the    *)
(* lock is longer than the period of its refresh; a lapse is the case that *)
(* a leader loses it nevertheless and does not know (a long pause, a lost  *)
(* key), as only then two replicas can lead at once.  Of a sync, only what *)
(* it reads and writes of the status is kept.                              *)
(***************************************************************************)
EXTENDS SyncWindow, FiniteSets

CONSTANTS Replicas,
          SourceIds,
          HashOf,        \* source -> the hashes of its id
          Schedule0,     \* source -> the schedule it is created with
          Window,        \* the window of the site configuration
          MaxTime,       \* bound: the last hour
          MaxEdits,      \* bound: PATCHes and syncs
          MaxFaults,     \* bound: crashes, lost contexts, failed statements
          MaxLapses,     \* bound: how often the lock lapses while it is held
          NoOne

Items == [id : SourceIds, schedule : Schedules, slot : Int]

ASSUME SchedulerAssumption ==
    /\ NoOne \notin Replicas \cup SourceIds /\ NoOne \notin Items
    /\ HashOf \in [SourceIds -> IdHashes]
    /\ Schedule0 \in [SourceIds -> Schedules]
    /\ Window \in Windows
    /\ {MaxTime, MaxEdits, MaxFaults, MaxLapses} \subseteq Nat

VARIABLES
    now,
    row,        \* source -> schedule, status and next_sync_at
    lock,       \* the replica whose value the lock key holds
    leads,      \* replica -> it is inside runAsLeader
    cancelled,  \* replica -> its leader context is cancelled
    lapses,     \* history: how often the lock lapsed while it was held
    tick,       \* replica -> the tick its sweeper is in
    sync,       \* source -> how far a sync of it has come
    synced,     \* history: the tasks enqueued; n counts those of one slot
    taken,      \* history: the slots a due source was stamped over
    edits, faults

election == <<lock, leads, cancelled, lapses>>
vars == <<now, row, election, tick, sync, synced, taken, edits, faults>>

Unstamped == -1
Idle == [phase |-> "idle", at |-> 0, todo |-> {}, pending |-> NoOne]

Init ==
    /\ now = 0
    /\ row = [s \in SourceIds |-> [schedule |-> Schedule0[s], status |-> "active", next |-> Unstamped]]
    /\ lock = NoOne
    /\ leads = [r \in Replicas |-> FALSE]
    /\ cancelled = [r \in Replicas |-> FALSE]
    /\ lapses = 0
    /\ tick = [r \in Replicas |-> Idle]
    /\ sync = [s \in SourceIds |-> "none"]
    /\ synced = {}
    /\ taken = {}
    /\ edits = 0
    /\ faults = 0

Fault == faults < MaxFaults /\ faults' = faults + 1
NoFault == UNCHANGED faults
Edit == edits < MaxEdits /\ edits' = edits + 1

-----------------------------------------------------------------------------
(* Leader election.                                                        *)

Acquire(r) ==
    /\ ~leads[r]
    /\ lock = NoOne
    /\ lock' = r
    /\ leads' = [leads EXCEPT ![r] = TRUE]
    /\ UNCHANGED <<now, row, cancelled, lapses, tick, sync, synced, taken, edits, faults>>

\* The refresh finds the lock gone, or fails; or the replica shuts down.
StepDown(r) ==
    /\ leads[r] /\ ~cancelled[r]
    /\ IF lock = r THEN Fault ELSE NoFault
    /\ cancelled' = [cancelled EXCEPT ![r] = TRUE]
    /\ UNCHANGED <<now, row, lock, leads, lapses, tick, sync, synced, taken, edits>>

\* Mutant of Release: the sweeper is cancelled but not waited for.
ReleaseAtOnce(r) ==
    /\ cancelled[r]
    /\ leads' = [leads EXCEPT ![r] = FALSE]
    /\ cancelled' = [cancelled EXCEPT ![r] = FALSE]
    /\ lock' = IF lock = r THEN NoOne ELSE lock
    /\ UNCHANGED <<now, row, lapses, tick, sync, synced, taken, edits, faults>>

\* The lock is given back once the sweeper has returned, if it is still held.
Release(r) ==
    /\ cancelled[r]
    /\ tick[r] = Idle
    /\ leads' = [leads EXCEPT ![r] = FALSE]
    /\ cancelled' = [cancelled EXCEPT ![r] = FALSE]
    /\ lock' = IF lock = r THEN NoOne ELSE lock
    /\ UNCHANGED <<now, row, lapses, tick, sync, synced, taken, edits, faults>>

Crash(r) ==
    /\ leads[r]
    /\ Fault
    /\ leads' = [leads EXCEPT ![r] = FALSE]
    /\ cancelled' = [cancelled EXCEPT ![r] = FALSE]
    /\ tick' = [tick EXCEPT ![r] = Idle]
    /\ UNCHANGED <<now, row, lock, lapses, sync, synced, taken, edits>>

\* The TTL of a dead leader ends.
Expire ==
    /\ lock # NoOne /\ ~leads[lock]
    /\ lock' = NoOne
    /\ UNCHANGED <<now, row, leads, cancelled, lapses, tick, sync, synced, taken, edits, faults>>

\* The lock goes from under a leader, who does not know until the next refresh.
Lapse ==
    /\ lock # NoOne /\ leads[lock]
    /\ lapses < MaxLapses /\ lapses' = lapses + 1
    /\ lock' = NoOne
    /\ UNCHANGED <<now, row, leads, cancelled, tick, sync, synced, taken, edits, faults>>

-----------------------------------------------------------------------------
(* One tick of the sweeper.  A cancelled context fails every statement.    *)

Scheduled(s) == row[s].schedule # "manual" /\ row[s].status \in {"active", "error"}
ItemOf(s) == [id |-> s, schedule |-> row[s].schedule, slot |-> row[s].next]

ListUnscheduled == {ItemOf(s) : s \in {x \in SourceIds : Scheduled(x) /\ row[x].next = Unstamped}}

\* Mutant of ListDue: a source whose last sync failed is left out.
DueOfActive(t) ==
    {ItemOf(s) : s \in {x \in SourceIds : /\ Scheduled(x) /\ row[x].status = "active"
                                          /\ row[x].next # Unstamped /\ row[x].next <= t}}

ListDue(t) ==
    {ItemOf(s) : s \in {x \in SourceIds : Scheduled(x) /\ row[x].next # Unstamped /\ row[x].next <= t}}

BeginTick(r) ==
    /\ leads[r] /\ ~cancelled[r]
    /\ tick[r] = Idle
    /\ \E listed \in {ListUnscheduled, {}} :
         /\ IF listed # ListUnscheduled THEN Fault ELSE NoFault
         /\ tick' = [tick EXCEPT ![r] = [phase |-> "unscheduled", at |-> now,
                                         todo |-> listed, pending |-> NoOne]]
    /\ UNCHANGED <<now, row, election, sync, synced, taken, edits>>

Stamp(item, at) ==
    row' = [row EXCEPT ![item.id].next = NextSlot(HashOf[item.id], item.schedule, at, Window)]

\* Sources without a slot are stamped only.
StampNew(r) ==
    /\ tick[r].phase = "unscheduled"
    /\ \E item \in tick[r].todo :
         /\ tick' = [tick EXCEPT ![r].todo = @ \ {item}]
         /\ \/ ~cancelled[r] /\ Stamp(item, tick[r].at) /\ NoFault
            \/ cancelled[r] /\ UNCHANGED row /\ NoFault
            \/ ~cancelled[r] /\ UNCHANGED row /\ Fault
    /\ UNCHANGED <<now, election, sync, synced, taken, edits>>

SelectDue(r) ==
    /\ tick[r].phase = "unscheduled"
    /\ tick[r].todo = {}
    /\ \/ /\ ~cancelled[r] /\ NoFault
          /\ tick' = [tick EXCEPT ![r].phase = "due", ![r].todo = ListDue(tick[r].at)]
       \/ cancelled[r] /\ NoFault /\ tick' = [tick EXCEPT ![r] = Idle]
       \/ ~cancelled[r] /\ Fault /\ tick' = [tick EXCEPT ![r] = Idle]
    /\ UNCHANGED <<now, row, election, sync, synced, taken, edits>>

\* Mutant of StampDue: a stamp that was not written is not noticed.
StampDueUnchecked(r) ==
    /\ tick[r].phase = "due" /\ tick[r].pending = NoOne
    /\ \E item \in tick[r].todo :
         /\ tick' = [tick EXCEPT ![r].todo = @ \ {item}, ![r].pending = item]
         /\ \/ ~cancelled[r] /\ Stamp(item, tick[r].at) /\ NoFault
            \/ cancelled[r] /\ UNCHANGED row /\ NoFault
            \/ ~cancelled[r] /\ UNCHANGED row /\ Fault
    /\ UNCHANGED <<now, election, sync, synced, taken, edits>>

\* A due source is stamped first, and enqueued only if the stamp was written.
StampDue(r) ==
    /\ tick[r].phase = "due" /\ tick[r].pending = NoOne
    /\ \E item \in tick[r].todo :
         \/ /\ ~cancelled[r] /\ NoFault
            /\ Stamp(item, tick[r].at)
            /\ taken' = taken \cup {[id |-> item.id, slot |-> item.slot]}
            /\ tick' = [tick EXCEPT ![r].todo = @ \ {item}, ![r].pending = item]
         \/ /\ IF cancelled[r] THEN NoFault ELSE Fault
            /\ tick' = [tick EXCEPT ![r].todo = @ \ {item}]
            /\ UNCHANGED <<row, taken>>
    /\ UNCHANGED <<now, election, sync, synced, edits>>

IsOf(task, slot) == task.id = slot.id /\ task.slot = slot.slot

\* The client of the queue ignores the context; a failed enqueue is only logged.
Enqueue(r) ==
    /\ tick[r].pending # NoOne
    /\ \/ /\ NoFault
          /\ LET sent == tick[r].pending
             IN  synced' = synced \cup {[id |-> sent.id, slot |-> sent.slot, by |-> r,
                                         n |-> Cardinality({task \in synced : IsOf(task, sent)}) + 1]}
       \/ Fault /\ UNCHANGED synced
    /\ tick' = [tick EXCEPT ![r].pending = NoOne]
    /\ UNCHANGED <<now, row, election, sync, taken, edits>>

EndTick(r) ==
    /\ tick[r].phase = "due" /\ tick[r].todo = {} /\ tick[r].pending = NoOne
    /\ tick' = [tick EXCEPT ![r] = Idle]
    /\ UNCHANGED <<now, row, election, sync, synced, taken, edits, faults>>

-----------------------------------------------------------------------------
(* The other writers of a source: PATCH, and the syncs of the worker.      *)

SetSchedule(s, schedule) ==
    /\ Edit
    /\ row' = [row EXCEPT ![s].schedule = schedule, ![s].next = Unstamped]
    /\ UNCHANGED <<now, election, tick, sync, synced, taken, faults>>

Pause(s) ==
    /\ Edit
    /\ row' = [row EXCEPT ![s].status = "paused"]
    /\ UNCHANGED <<now, election, tick, sync, synced, taken, faults>>

\* Resuming clears the slot too, lest a stale one fires at once.
Resume(s) ==
    /\ row[s].status = "paused"
    /\ Edit
    /\ row' = [row EXCEPT ![s].status = "active", ![s].next = Unstamped]
    /\ UNCHANGED <<now, election, tick, sync, synced, taken, faults>>

\* A sync reads the source, and leaves a paused one alone.
StartSync(s) ==
    /\ sync[s] \in {"none", "files"} /\ row[s].status # "paused"
    /\ Edit
    /\ sync' = [sync EXCEPT ![s] = "read"]
    /\ UNCHANGED <<now, row, election, tick, synced, taken, faults>>

\* ... marks it, at once (git) or when it has listed the pages (Confluence),
\* over a pause made meanwhile, ...
MarkSyncing(s) ==
    /\ sync[s] = "read"
    /\ row' = [row EXCEPT ![s].status = "syncing"]
    /\ sync' = [sync EXCEPT ![s] = "marked"]
    /\ UNCHANGED <<now, election, tick, synced, taken, edits, faults>>

\* ... and ends: done or failed, with a pause after too many failures; or its
\* last write is missing, as it died or failed; or a Confluence source is left
\* 'syncing' to the wrappers of its files.
EndSync(s) ==
    /\ \/ /\ sync[s] \in {"read", "marked"}
          /\ \E status \in IF sync[s] = "read" THEN {"error", "paused"} ELSE {"active", "error"} :
               row' = [row EXCEPT ![s].status = status]
          /\ sync' = [sync EXCEPT ![s] = "none"]
       \/ /\ sync[s] = "read" /\ UNCHANGED row
          /\ sync' = [sync EXCEPT ![s] = "none"]
       \/ /\ sync[s] = "marked" /\ UNCHANGED row
          /\ sync' = [sync EXCEPT ![s] = "files"]
    /\ UNCHANGED <<now, election, tick, synced, taken, edits, faults>>

\* The wrapper of the last file, if one finds the source 'syncing' and the
\* import over (ConfluenceSync has the case that none does).
FilesDone(s) ==
    /\ sync[s] = "files"
    /\ row' = [row EXCEPT ![s].status = "active"]
    /\ sync' = [sync EXCEPT ![s] = "none"]
    /\ UNCHANGED <<now, election, tick, synced, taken, edits, faults>>

Hour ==
    /\ now < MaxTime
    /\ now' = now + 1
    /\ UNCHANGED <<row, election, tick, sync, synced, taken, edits, faults>>

Sweep(r) ==
    \/ BeginTick(r) \/ StampNew(r) \/ SelectDue(r)
    \/ StampDue(r) \/ Enqueue(r) \/ EndTick(r)

Next ==
    \/ \E r \in Replicas : Acquire(r) \/ StepDown(r) \/ Release(r) \/ Crash(r) \/ Sweep(r)
    \/ Expire \/ Lapse
    \/ \E s \in SourceIds :
         \/ \E schedule \in Schedules : SetSchedule(s, schedule)
         \/ Pause(s) \/ Resume(s) \/ StartSync(s)
         \/ MarkSyncing(s) \/ EndSync(s) \/ FilesDone(s)
    \/ Hour

Spec == Init /\ [][Next]_vars

\* The election loop retries, the ticker ticks, a tick runs to its end and TTLs
\* end.  Nothing is assumed of a sync: one that has begun may never end.
Fairness ==
    /\ \A r \in Replicas : WF_vars(Acquire(r)) /\ WF_vars(Release(r)) /\ WF_vars(Sweep(r))
    /\ WF_vars(Expire)

FairSpec == Spec /\ Fairness

-----------------------------------------------------------------------------
TypeOK ==
    /\ now \in 0 .. MaxTime
    /\ \A s \in SourceIds :
         /\ row[s].schedule \in Schedules
         /\ row[s].status \in {"active", "error", "paused", "syncing"}
         /\ row[s].next \in Int
         /\ sync[s] \in {"none", "read", "marked", "files"}
    /\ lock \in Replicas \cup {NoOne}
    /\ leads \in [Replicas -> BOOLEAN]
    /\ cancelled \in [Replicas -> BOOLEAN]
    /\ \A r \in Replicas :
         /\ tick[r].phase \in {"idle", "unscheduled", "due"}
         /\ \A item \in tick[r].todo : item.id \in SourceIds /\ item.schedule \in Schedules
         /\ tick[r].pending # NoOne => tick[r].phase = "due"
         /\ tick[r] # Idle => leads[r]

\* No slot of a source is enqueued twice, whatever is cancelled, fails, crashes
\* or is edited, and however leaders follow one another, as long as no leader has
\* lost the lock without knowing.
OneSyncPerSlot ==
    \A a, b \in synced : a.id = b.id /\ a.slot = b.slot => a = b

\* Nothing is enqueued by a replica whose place another one may take: the lock
\* is given back only after the sweeper returned (runAsLeader's join), as long as
\* no leader has lost the lock without knowing.
EnqueuedUnderTheLock == [][lapses = 0 => \A task \in synced' \ synced : lock = task.by]_vars

\* A fault costs at most one slot of one source: what was stamped over and is
\* neither enqueued nor about to be.  Two leaders at once, who
\* may enqueue a slot twice, lose none they take as due.
Lost ==
    {slot \in taken :
       /\ ~\E task \in synced : IsOf(task, slot)
       /\ ~\E r \in Replicas : /\ tick[r].pending # NoOne
                               /\ tick[r].pending.id = slot.id /\ tick[r].pending.slot = slot.slot}
FaultsCostOneSlot == Cardinality(Lost) <= faults

\* Slots are neither doubled nor lost, in well-typed states.
SlotsInv == TypeOK /\ (lapses = 0 => OneSyncPerSlot) /\ FaultsCostOneSlot

\* The slots of a source, within the bound.
Slots(s) == {SlotOf(HashOf[s], Window, day) : day \in -1 .. MaxTime} \cap (0 .. MaxTime)

\* Slots keep coming: again and again a scheduled source has a slot in the future.
\* No crash, cancelled tick, failed sync, failed enqueue or second leader ends its
\* schedule; only a pause does, or a sync that leaves it 'syncing'.
OffSchedule(s) == row[s].schedule = "manual" \/ row[s].status \in {"paused", "syncing"}
SlotsCome == \A s \in SourceIds : []<>(row[s].next > now \/ OffSchedule(s))

\* A slot that comes is followed by a sync, unless a fault or a second leader took
\* it or the source was edited or synced meanwhile.
SlotsAreServed ==
    \A s \in SourceIds : \A slot \in Slots(s) :
        (row[s].next = slot /\ slot <= now)
            ~> \/ \E task \in synced : task.id = s /\ task.slot = slot
               \/ faults > 0 \/ edits > 0 \/ lapses > 0
=============================================================================
