------------------------------- MODULE MCFiles -------------------------------
(***************************************************************************)
(* Instances of FileStatus and of KBDeletion: the life of one file, by     *)
(* which requests come, whether they overlap and what fails; and what      *)
(* deletes take along, on two KBs with a file each.  They share nothing; a *)
(* behaviour is about one of them and keeps to one scenario.               *)
(***************************************************************************)
EXTENDS FileStatus, KBDeletion, TLC

CONSTANTS req, b1, b2, c1, c2,
          u1, u2, k1, k2, f1, f2, d1, d2

VARIABLE scenario

-----------------------------------------------------------------------------
(* The life of a file.                                                     *)

\* Every writer at once, and every fault.
Everything ==
    [clicks |-> {c1, c2}, reembeds |-> {b1}, retries |-> 1, overlap |-> TRUE,
     faults |-> AllFaults, lasts |-> "no"]

\* A retry and a re-embed, for what must happen in the end.
Lasting == [Everything EXCEPT !.clicks = {c1}, !.lasts = "file"]

\* ... where no statement fails and nothing dies.
Healthy == [Lasting EXCEPT !.faults = {"enqueue", "slow"}]

\* The tasks come one after the other, and no sweep meets a live one.
Serial ==
    [clicks |-> {}, reembeds |-> {b1, b2}, retries |-> 2, overlap |-> FALSE,
     faults |-> AllFaults \ {"slow"}, lasts |-> "no"]

\* A retry, and the late report of the attempt it makes up for.
LateReport ==
    [clicks |-> {c1}, reembeds |-> {}, retries |-> 2, overlap |-> FALSE,
     faults |-> AllFaults \ {"slow"}, lasts |-> "no"]

StatusScenarios == {Everything, Lasting, Healthy, Serial, LateReport}

Status(s) == INSTANCE FileStatus WITH
    Upload <- req, Clicks <- s.clicks, Reembeds <- s.reembeds, MaxRetry <- s.retries,
    Overlap <- s.overlap, Faults <- s.faults

\* The clicks differ in their names only: they come in the order of these.
StatusNext == \E s \in StatusScenarios :
    /\ scenario = s /\ Status(s)!Next
    /\ {c1, c2} \subseteq s.clicks => click'[c2] = "idle" \/ click'[c1] # "idle"
    /\ UNCHANGED <<deletionVars, scenario>>

-----------------------------------------------------------------------------
(* Deletes.                                                                *)

MCKBOf == (f1 :> k1) @@ (f2 :> k2)
TwoKBs == (k1 :> u1) @@ (k2 :> u1)
OneKB == (k1 :> u1) @@ (k2 :> Nobody)

\* A user with two KBs, and two deletes at a time.
Paired ==
    [owner |-> TwoKBs, there |-> {f1, f2}, deleters |-> {d1, d2},
     ops |-> {"user", "kb", "file"}, failures |-> 0, lasts |-> "no"]

\* A delete against uploads, tasks, the sweep, owners that change, and a failure.
Races ==
    [owner |-> OneKB, there |-> {f1}, deleters |-> {d1},
     ops |-> {"upload", "user", "file", "transfer", "create"}, failures |-> 1, lasts |-> "no"]

\* Public KBs too, and two failures.
Swept ==
    [owner |-> OneKB, there |-> {f1}, deleters |-> {d1},
     ops |-> {"upload", "kb", "file", "publish", "global"}, failures |-> 2, lasts |-> "chunks"]

DeletionScenarios == {Paired, Races, Swept}

Deletion(s) == INSTANCE KBDeletion WITH
    FirstOwner <- s.owner, Existing <- s.there, Ops <- s.ops, MaxFaults <- s.failures

KBNext == \E s \in DeletionScenarios :
    /\ scenario = s /\ Deletion(s)!DeletionNext
    /\ \A d \in Deleters \ s.deleters : del'[d] = Free
    /\ UNCHANGED <<vars, scenario>>

-----------------------------------------------------------------------------
MCInit ==
    \/ \E s \in StatusScenarios : scenario = s /\ Status(s)!Init /\ Deletion(Paired)!DeletionInit
    \/ \E s \in DeletionScenarios : scenario = s /\ Deletion(s)!DeletionInit /\ Status(Serial)!Init

\* The fairness of FileStatus where something must happen in the end; of deletes,
\* nothing but the worker and the sweep has to go on.
MCSpec ==
    /\ MCInit /\ [][StatusNext \/ KBNext]_<<vars, deletionVars, scenario>>
    /\ WF_vars(scenario.lasts = "file" /\ EnqueueUpload)
    /\ WF_vars(scenario.lasts = "file" /\ (EnqueueRetry(c1) \/ Revert(c1)))
    /\ \A t \in {req, b1, c1} : WF_vars(scenario.lasts = "file" /\ Attempt(t))
    /\ WF_vars(scenario.lasts = "file" /\ Age) /\ WF_vars(scenario.lasts = "file" /\ CheckStuckFiles)
    /\ \A f \in Files : WF_deletionVars(scenario.lasts = "chunks" /\ Run(f))
    /\ WF_deletionVars(scenario.lasts = "chunks" /\ Sweep)

-----------------------------------------------------------------------------
\* What the user is shown has its place.  A pending file is on its way, where no
\* statement fails and nothing dies; 'error' comes with the last attempt, where
\* tasks do not meet each other or the sweep; and the late report of an attempt
\* that a retry has made up for leaves a ready file alone.
StatusesKeepTheirPlace ==
    /\ [](\A s \in StatusScenarios :
            scenario = s => Status(s)!TypeOK /\ (s = Healthy => Status(s)!PendingIsQueued))
    /\ [][scenario # Serial \/ Status(Serial)!ErrorComesLast]_vars
    /\ [][scenario # LateReport \/ ReadyStays]_vars

\* No file is 'processing' for ever, whatever fails, and none is 'pending' for
\* ever where no statement fails and nothing dies.
WaitingEnds ==
    /\ scenario.lasts = "file" => []<>(status # "processing")
    /\ scenario = Healthy => []<>(status # "pending")

\* Where no step fails, nothing of a deleted file outlives its row.
RowsGoLast == scenario = Paired => RowGoesLast

\* No KB that stays loses its files; where owners change meanwhile, only those a
\* user's delete had listed do.
FilesGoWithKBs == [][/\ scenario = Paired => RowsGoWithTheirKB
                     /\ scenario = Races => RowsGoAsListed]_deletionVars

\* Chunks without a file go, whichever step failed or came late.
ChunksGoInTheEnd == scenario.lasts = "chunks" => []<>(chunks \subseteq rows)
=============================================================================
