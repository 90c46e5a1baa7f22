-------------------------- MODULE KBDeletionProofs --------------------------
(***************************************************************************)
(* For any users, KBs, files, deleters and faults: a file that nobody       *)
(* deletes keeps its blob and its chunks.  Where no step fails and owners    *)
(* stay, nothing of a deleted file outlives its row, and rows go with their  *)
(* KB only.                                                                  *)
(***************************************************************************)
EXTENDS KBDeletion, TLAPS

KBRows == [live : BOOLEAN, public : BOOLEAN, owner : Users \cup {Nobody}, mirror : Users \cup {Nobody}]
DelOps == {"none", "kb", "global", "file", "user"}
DelSteps == {"free", "next", "chunks", "side", "blobs", "rows"}
Dels == [op : DelOps, at : DelSteps, user : Users \cup {Nobody}, kbs : SUBSET KBs,
         todo : SUBSET KBs, files : SUBSET Files]
Runs == {"none", "queued", "open", "writing", "stopped", "over"}

\* What DeletionTypeOK leaves to the variables' ranges.
Typed ==
    /\ users \subseteq Users
    /\ kb \in [KBs -> KBRows]
    /\ rows \subseteq Files /\ blobs \subseteq Files /\ chunks \subseteq Files /\ side \subseteq Files
    /\ up \in [Files -> {"no", "blob", "done"}]
    /\ run \in [Files -> Runs]
    /\ del \in [Deleters -> Dels]
    /\ sweep \in [at : {"rest", "listed", "orphans"}, ids : SUBSET Files]
    /\ faults \in Nat
    /\ asked \subseteq Files /\ settled \subseteq Files

KBInv ==
    /\ \A k \in KBs : /\ ~kb[k].live => kb[k] = Unborn
                      /\ kb[k].mirror \in users \cup {Nobody}
                      /\ kb[k].public => kb[k].mirror = Nobody
    /\ \A f \in rows : kb[KBOf[f]].live

\* A row is made once, by an upload that has stored the blob; whoever deletes a
\* file has asked for it; the sweep has looked at files that had rows only.
FileInv ==
    /\ rows \cup asked \cup chunks \cup side \cup sweep.ids \subseteq {f \in Files : up[f] = "done"}
    /\ \A f \in Files : /\ up[f] = "blob" => f \in blobs
                        /\ up[f] # "done" => run[f] = "none"
                        /\ run[f] = "stopped" => f \notin rows
                        /\ f \in chunks \cup side => run[f] # "none"
    /\ \A d \in Deleters : del[d].files \subseteq asked
    /\ sweep.at = "orphans" => sweep.ids \cap rows = {}
    /\ settled \subseteq asked
    /\ \A f \in settled : run[f] = "over"

WholeInv == Typed /\ KBInv /\ FileInv /\ UntouchedIsWhole

LEMMA InitWhole == DeletionInit => WholeInv
<1>. SUFFICES ASSUME DeletionInit PROVE WholeInv
  OBVIOUS
<1>. USE DeletionAssumption DEF DeletionAssumption
<1>1. Typed
  <2>1. kb \in [KBs -> KBRows]
    BY DEF DeletionInit, Unborn, Private, KBRows
  <2>2. del \in [Deleters -> Dels]
    BY DEF DeletionInit, Free, Dels, DelOps, DelSteps
  <2>3. sweep \in [at : {"rest", "listed", "orphans"}, ids : SUBSET Files]
    BY DEF DeletionInit, Rest
  <2>. QED BY <2>1, <2>2, <2>3 DEF DeletionInit, Typed, Runs
<1>2. KBInv
  BY DEF DeletionInit, KBInv, Unborn, Private
<1>3. FileInv /\ UntouchedIsWhole
  BY DEF DeletionInit, FileInv, UntouchedIsWhole, Free, Rest
<1>. QED BY <1>1, <1>2, <1>3 DEF WholeInv

\* A row without an owner, and a row that is published.
LEMMA RowChanges ==
    ASSUME NEW r \in KBRows
    PROVE  /\ [r EXCEPT !.owner = Nobody] \in KBRows
           /\ [r EXCEPT !.owner = Nobody].live <=> r.live
           /\ [r EXCEPT !.owner = Nobody].public <=> r.public
           /\ [r EXCEPT !.owner = Nobody].mirror = r.mirror
           /\ [r EXCEPT !.public = TRUE, !.owner = Nobody, !.mirror = Nobody] \in KBRows
           /\ [r EXCEPT !.public = TRUE, !.owner = Nobody, !.mirror = Nobody].live <=> r.live
           /\ [r EXCEPT !.public = TRUE, !.owner = Nobody, !.mirror = Nobody].mirror = Nobody
  BY DEF KBRows

LEMMA RowsMade ==
    /\ Unborn \in KBRows /\ ~Unborn.live /\ ~Unborn.public /\ Unborn.mirror = Nobody
    /\ \A u \in Users : /\ Private(u) \in KBRows /\ Private(u).live /\ ~Private(u).public
                        /\ Private(u).mirror = u
  BY DEF Unborn, Private, KBRows

\* KBs and owners: only the KB's row changes, and a live one stays live.
LEMMA OwnersWhole ==
    ASSUME WholeInv, NEW k \in KBs,
           Publish(k) \/ \E u \in Users : CreateKB(u, k) \/ Transfer(k, u) \/ Unpublish(k, u)
    PROVE  WholeInv'
<1>1. /\ UNCHANGED <<users, rows, data, up, run, del, sweep, faults, history>>
      /\ kb' \in [KBs -> KBRows]
      /\ \A j \in KBs \ {k} : kb'[j] = kb[j]
      /\ kb'[k].live
      /\ kb'[k].mirror \in users \cup {Nobody} /\ (kb'[k].public => kb'[k].mirror = Nobody)
  <2>1. CASE Publish(k)
    <3>. DEFINE row == [kb[k] EXCEPT !.public = TRUE, !.owner = Nobody, !.mirror = Nobody]
    <3>1. kb \in [KBs -> KBRows] /\ kb[k].live /\ kb' = [kb EXCEPT ![k] = row]
      BY <2>1 DEF Publish, WholeInv, Typed
    <3>2. row \in KBRows /\ row.live /\ row.mirror = Nobody
      BY <3>1, RowChanges
    <3>3. kb' \in [KBs -> KBRows] /\ kb'[k] = row /\ \A j \in KBs \ {k} : kb'[j] = kb[j]
      BY <3>1, <3>2
    <3>. QED BY <2>1, <3>2, <3>3 DEF Publish
  <2>2. ASSUME NEW u \in Users, u \in users, kb' = [kb EXCEPT ![k] = Private(u)]
        PROVE  /\ kb' \in [KBs -> KBRows] /\ \A j \in KBs \ {k} : kb'[j] = kb[j]
               /\ kb'[k].live /\ kb'[k].mirror \in users \cup {Nobody}
               /\ (kb'[k].public => kb'[k].mirror = Nobody)
    BY <2>2, RowsMade DEF WholeInv, Typed
  <2>. QED BY <2>1, <2>2 DEF CreateKB, Transfer, Unpublish
<1>2. KBInv'
  <2>1. ASSUME NEW j \in KBs
        PROVE  /\ ~kb'[j].live => kb'[j] = Unborn
               /\ kb'[j].mirror \in users' \cup {Nobody}
               /\ kb'[j].public => kb'[j].mirror = Nobody
               /\ kb[j].live => kb'[j].live
    <3>1. CASE j = k
      BY <1>1, <3>1
    <3>2. CASE j # k
      BY <1>1, <3>2 DEF WholeInv, KBInv
    <3>. QED BY <3>1, <3>2
  <2>2. \A f \in rows' : f \in rows /\ KBOf[f] \in KBs
    BY <1>1, DeletionAssumption DEF WholeInv, Typed, DeletionAssumption
  <2>. QED BY <2>1, <2>2 DEF WholeInv, KBInv
<1>. QED BY <1>1, <1>2 DEF WholeInv, Typed, FileInv, UntouchedIsWhole, data, history

LEMMA FilesWhole ==
    ASSUME WholeInv, NEW f \in Files, StoreBlob(f) \/ CreateRow(f) \/ Run(f) \/ Crash(f)
    PROVE  WholeInv'
<1>. USE DEF WholeInv, Typed, KBInv, FileInv, UntouchedIsWhole, data, history
<1>1. CASE StoreBlob(f)
  BY <1>1 DEF StoreBlob
<1>2. CASE CreateRow(f)
  <2>1. CASE kb[KBOf[f]].live
    BY <1>2, <2>1 DEF CreateRow, Runs
  <2>2. CASE ~kb[KBOf[f]].live
    BY <1>2, <2>2 DEF CreateRow
  <2>. QED BY <2>1, <2>2
<1>3. CASE StartTask(f)
  BY <1>3 DEF StartTask, Runs
<1>4. CASE DeleteOld(f)
  BY <1>4 DEF DeleteOld, Runs
<1>5. CASE Write(f)
  BY <1>5 DEF Write
<1>6. CASE Finish(f)
  BY <1>6 DEF Finish, Runs
<1>7. CASE Poll(f)
  BY <1>7 DEF Poll, Runs
<1>8. CASE RemoveOutput(f)
  BY <1>8 DEF RemoveOutput, Runs
<1>9. CASE Crash(f)
  BY <1>9 DEF Crash, Runs
<1>. QED BY <1>1, <1>2, <1>3, <1>4, <1>5, <1>6, <1>7, <1>8, <1>9 DEF Run

\* A deleter that lists files asks for them.
LEMMA ListWhole ==
    ASSUME WholeInv, NEW d \in Deleters, NEW next \in Dels, NEW fs \in SUBSET rows, List(d, next, fs),
           UNCHANGED <<users, kb, rows, data, up, run, sweep, faults>>
    PROVE  WholeInv'
<1>1. del' \in [Deleters -> Dels] /\ \A e \in Deleters : del'[e].files \subseteq del[e].files \cup fs
  BY DEF List, WholeInv, Typed, Dels, DelSteps
<1>2. asked' = asked \cup fs /\ settled' = settled \cup {f \in fs \ asked : run[f] = "over"}
  BY DEF List, Ask
<1>. QED BY <1>1, <1>2 DEF WholeInv, Typed, KBInv, FileInv, UntouchedIsWhole, data

LEMMA AskWhole ==
    ASSUME WholeInv, NEW d \in Deleters,
           \/ \E k \in KBs : DeleteKB(d, k) \/ DeleteGlobalKB(d, k) \/ NextKB(d, k)
           \/ \E f \in Files : DeleteFile(d, f)
           \/ \E u \in Users : DeleteUser(d, u)
    PROVE  WholeInv'
<1>0. Free \in Dels
  BY DEF Free, Dels, DelOps, DelSteps
<1>1. ASSUME NEW k \in KBs, DeleteKB(d, k) \/ DeleteGlobalKB(d, k) PROVE WholeInv'
  <2>1. /\ [Free EXCEPT !.op = "kb", !.kbs = {k}] \in Dels
        /\ [Free EXCEPT !.op = "global", !.kbs = {k}] \in Dels
    BY DEF Free, Dels, DelOps, DelSteps
  <2>. QED BY <1>1, <2>1, ListWhole DEF DeleteKB, DeleteGlobalKB
<1>2. ASSUME NEW k \in KBs, NextKB(d, k) PROVE WholeInv'
  <2>1. [del[d] EXCEPT !.todo = @ \ {k}] \in Dels
    BY DEF WholeInv, Typed, Dels
  <2>. QED BY <1>2, <2>1, ListWhole DEF NextKB
<1>3. ASSUME NEW f \in Files, DeleteFile(d, f) PROVE WholeInv'
  <2>1. [Free EXCEPT !.op = "file"] \in Dels
    BY DEF Free, Dels, DelOps, DelSteps
  <2>. QED BY <1>3, <2>1, ListWhole DEF DeleteFile
<1>4. ASSUME NEW u \in Users, DeleteUser(d, u) PROVE WholeInv'
  <2>1. /\ del' \in [Deleters -> Dels]
        /\ \A e \in Deleters : del'[e].files \subseteq del[e].files
    BY <1>4 DEF DeleteUser, OwnedBy, Free, WholeInv, Typed, Dels, DelOps, DelSteps
  <2>2. PICK fs \in SUBSET rows : asked' = asked \cup fs
                                /\ settled' = settled \cup {f \in fs \ asked : run[f] = "over"}
    BY <1>4 DEF DeleteUser, Ask
  <2>. QED BY <1>4, <2>1, <2>2 DEF DeleteUser, WholeInv, Typed, KBInv, FileInv, UntouchedIsWhole, data
<1>. QED BY <1>1, <1>2, <1>3, <1>4

LEMMA CleanWhole ==
    ASSUME WholeInv, NEW d \in Deleters, DeleteChunks(d) \/ DeleteSide(d) \/ DeleteBlobs(d)
    PROVE  WholeInv'
<1>1. /\ del' \in [Deleters -> Dels] /\ \A e \in Deleters : del'[e].files = del[e].files
      /\ UNCHANGED <<users, kb, rows, up, run, sweep, history>>
  BY DEF DeleteChunks, DeleteSide, DeleteBlobs, Clean, WholeInv, Typed, Dels, DelSteps
<1>2. /\ chunks' \subseteq chunks /\ side' \subseteq side /\ blobs' \subseteq blobs
      /\ (chunks \ chunks') \cup (blobs \ blobs') \subseteq del[d].files
      /\ faults' \in Nat
  BY DEF DeleteChunks, DeleteSide, DeleteBlobs, Less, WholeInv, Typed
<1>. QED BY <1>1, <1>2 DEF WholeInv, Typed, KBInv, FileInv, UntouchedIsWhole, history

\* A transaction takes rows away, and the KBs whose rows are gone.
LEMMA DropWhole ==
    ASSUME WholeInv, NEW gone \in SUBSET KBs, NEW emptied \in SUBSET KBs, DropKBs(gone, emptied),
           \A k \in emptied : kb[k].live,
           users' \subseteq users,
           \A k \in KBs \ gone : kb[k].live => kb[k].mirror \in users' \cup {Nobody}
    PROVE  /\ rows' \subseteq rows
           /\ kb' \in [KBs -> KBRows] /\ users' \subseteq Users
           /\ KBInv'
<1>. USE DEF WholeInv, Typed, KBInv
<1>1. ASSUME NEW k \in KBs
      PROVE  /\ kb'[k] \in KBRows
             /\ ~kb'[k].live => kb'[k] = Unborn
             /\ kb'[k].mirror \in users' \cup {Nobody}
             /\ kb'[k].public => kb'[k].mirror = Nobody
             /\ kb[k].live /\ k \notin gone => kb'[k].live
  <2>0. kb[k] \in KBRows
    OBVIOUS
  <2>1. CASE k \in gone
    <3>1. kb'[k] = Unborn
      BY <2>1 DEF DropKBs
    <3>. QED BY <2>1, <3>1, RowsMade
  <2>2. CASE k \in emptied \ gone
    <3>1. kb'[k] = [kb[k] EXCEPT !.owner = Nobody]
      BY <2>2 DEF DropKBs
    <3>2. kb[k].live /\ kb[k].mirror \in users' \cup {Nobody} /\ (kb[k].public => kb[k].mirror = Nobody)
      BY <2>2
    <3>. DEFINE row == [kb[k] EXCEPT !.owner = Nobody]
    <3>3. row \in KBRows /\ (row.live <=> kb[k].live) /\ (row.public <=> kb[k].public)
          /\ row.mirror = kb[k].mirror
      BY <2>0, RowChanges
    <3>4. kb'[k] = row
      BY <3>1
    <3>. HIDE DEF row
    <3>. QED BY <3>2, <3>3, <3>4
  <2>3. CASE k \notin gone \cup emptied
    <3>1. kb'[k] = kb[k]
      BY <2>3 DEF DropKBs
    <3>2. CASE kb[k].live
      BY <2>0, <2>3, <3>1, <3>2
    <3>3. CASE ~kb[k].live
      BY <2>0, <3>1, <3>3, RowsMade
    <3>. QED BY <3>2, <3>3
  <2>. QED BY <2>1, <2>2, <2>3
<1>2. rows' = rows \ FilesIn(gone \cup emptied) /\ kb' \in [KBs -> KBRows]
  <2>1. kb' = [k \in KBs |-> kb'[k]]
    BY DEF DropKBs
  <2>. QED BY <1>1, <2>1 DEF DropKBs
<1>3. \A f \in rows' : kb'[KBOf[f]].live
  <2>1. \A f \in rows' : f \in rows /\ f \in Files /\ KBOf[f] \in KBs /\ KBOf[f] \notin gone
    BY <1>2, DeletionAssumption DEF FilesIn, DeletionAssumption
  <2>. QED BY <1>1, <2>1
<1>. QED BY <1>1, <1>2, <1>3

LEMMA CommitWhole ==
    ASSUME WholeInv, NEW d \in Deleters, Commit(d)
    PROVE  WholeInv'
<1>. DEFINE kbs == del[d].kbs
            alive == {k \in kbs : kb[k].live}
            open == {k \in kbs : kb[k].public}
            owned == OwnedBy(del[d].user)
<1>0. /\ kbs \in SUBSET KBs /\ del[d].files \in SUBSET Files
      /\ alive \in SUBSET KBs /\ open \in SUBSET KBs /\ owned \in SUBSET KBs
      /\ \A k \in alive : kb[k].live
      /\ \A k \in KBs : kb[k].mirror \in users \cup {Nobody}
  BY DEF WholeInv, Typed, KBInv, Dels, OwnedBy
<1>1. rows' \subseteq rows /\ kb' \in [KBs -> KBRows] /\ users' \subseteq Users /\ KBInv'
  <2>1. CASE DropFileRow(d)
    BY <2>1 DEF DropFileRow, WholeInv, Typed, KBInv
  <2>2. CASE DropKB(d)
    <3>. DEFINE none == {}
    <3>1. DropKBs(kbs, none) /\ users' = users /\ none \in SUBSET KBs /\ \A k \in none : kb[k].live
      BY <2>2 DEF DropKB
    <3>. HIDE DEF kbs, none
    <3>. QED BY <1>0, <3>1, DropWhole
  <2>3. CASE DropGlobalKB(d)
    <3>1. DropKBs(open, alive) /\ users' = users
      BY <2>3 DEF DropGlobalKB
    <3>. HIDE DEF open, alive
    <3>. QED BY <1>0, <3>1, DropWhole
  <2>4. CASE DropUser(d)
    <3>1. DropKBs(owned, alive) /\ users' = users \ {del[d].user}
      BY <2>4 DEF DropUser
    <3>2. \A k \in KBs \ owned : kb[k].live => kb[k].mirror \in users' \cup {Nobody}
      BY <1>0, <3>1 DEF OwnedBy
    <3>. HIDE DEF owned, alive
    <3>. QED BY <1>0, <3>1, <3>2, DropWhole
  <2>. QED BY <2>1, <2>2, <2>3, <2>4 DEF Commit
<1>2. /\ del' \in [Deleters -> Dels] /\ \A e \in Deleters : del'[e].files \subseteq del[e].files
      /\ UNCHANGED <<data, up, run, sweep, faults, history>>
  BY DEF Commit, Free, WholeInv, Typed, Dels, DelOps, DelSteps
<1>. QED BY <1>1, <1>2 DEF WholeInv, Typed, FileInv, UntouchedIsWhole, data, history

\* A KB that outlives a transaction was there and keeps the owner it is listed by.
LEMMA CommitOwners ==
    ASSUME WholeInv, NEW d \in Deleters, Commit(d), NEW k \in KBs, kb'[k].live
    PROVE  kb[k].live /\ kb'[k].mirror = kb[k].mirror
<1>1. CASE DropFileRow(d)
  BY <1>1 DEF DropFileRow
<1>2. ASSUME NEW gone, NEW emptied, DropKBs(gone, emptied)
      PROVE  kb[k].live /\ kb'[k].mirror = kb[k].mirror
  <2>1. kb[k] \in KBRows
    BY DEF WholeInv, Typed
  <2>2. kb'[k] \in {Unborn, [kb[k] EXCEPT !.owner = Nobody], kb[k]}
    BY <1>2 DEF DropKBs
  <2>3. CASE kb'[k] = Unborn
    BY <2>3, RowsMade
  <2>4. CASE kb'[k] = [kb[k] EXCEPT !.owner = Nobody]
    <3>. DEFINE row == [kb[k] EXCEPT !.owner = Nobody]
    <3>1. (row.live <=> kb[k].live) /\ row.mirror = kb[k].mirror /\ kb'[k] = row
      BY <2>1, <2>4, RowChanges
    <3>. HIDE DEF row
    <3>. QED BY <3>1
  <2>. QED BY <2>2, <2>3, <2>4
<1>. QED BY <1>1, <1>2 DEF Commit, DropKB, DropGlobalKB, DropUser

LEMMA NextWhole == WholeInv /\ [DeletionNext]_deletionVars => WholeInv'
<1>. SUFFICES ASSUME WholeInv, [DeletionNext]_deletionVars PROVE WholeInv'
  OBVIOUS
<1>1. CASE UNCHANGED deletionVars
  BY <1>1 DEF deletionVars, data, history, WholeInv, Typed, KBInv, FileInv, UntouchedIsWhole
<1>2. ASSUME NEW d \in Deleters, Fails(d) PROVE WholeInv'
  BY <1>2 DEF Fails, Free, Dels, DelOps, DelSteps, data, history, WholeInv, Typed, KBInv, FileInv,
              UntouchedIsWhole
<1>3. CASE Sweep
  <2>1. CASE SweepList \/ SweepCheck
    BY <1>3, <2>1 DEF SweepList, SweepCheck, data, history, WholeInv, Typed, KBInv, FileInv,
                      UntouchedIsWhole
  <2>2. CASE SweepDelete
    BY <2>2 DEF SweepDelete, Less, Rest, data, history, WholeInv, Typed, KBInv, FileInv,
                UntouchedIsWhole
  <2>. QED BY <1>3, <2>1, <2>2 DEF Sweep
<1>4. ASSUME NEW d \in Deleters, Delete(d) PROVE WholeInv'
  BY <1>4, AskWhole, CleanWhole, CommitWhole DEF Delete
<1>. QED BY <1>1, <1>2, <1>3, <1>4, OwnersWhole, FilesWhole, AskWhole DEF DeletionNext

\* A file that nobody deletes has its blob and, once its task is over, its chunks.
THEOREM UntouchedStayWhole == DeletionSpec => []UntouchedAreWhole
<1>1. WholeInv => UntouchedAreWhole
  BY DEF WholeInv, KBInv, FileInv, UntouchedAreWhole, DeletionTypeOK
<1>. QED BY <1>1, InitWhole, NextWhole, PTL DEF DeletionSpec

-----------------------------------------------------------------------------
(* The row goes last.                                                      *)

\* No step fails, and where users are deleted, what they own stays theirs and
\* nothing is uploaded to it.
Static == Ops \cap {"upload", "create", "transfer", "publish"} = {}
Calm == MaxFaults = 0 /\ ("user" \in Ops => Static)

Cleaned(f) == f \notin blobs \cup chunks \cup side
Held(f) == \E d \in Deleters : f \in del[d].files
Pending(f) == f \in rows /\ \E d \in Deleters : del[d].op = "user" /\ KBOf[f] \in del[d].todo

\* A deleter is as far with each file as its place says.
Stages ==
    \A d \in Deleters : \A f \in settled \cap del[d].files :
        /\ del[d].at \in {"side", "blobs", "rows", "next"} => f \notin chunks
        /\ del[d].at \in {"blobs", "rows", "next"} => f \notin side
        /\ del[d].at \in {"rows", "next"} => f \notin blobs

Places ==
    \A d \in Deleters : /\ del[d].at = "next" => del[d].op = "user"
                        /\ del[d].at = "rows" => del[d].op # "user"
                        /\ del[d].op = "user" => "user" \in Ops
                        /\ del[d].op = "file" => del[d].kbs = {}

\* What a delete of a KB or a user will take with it has been listed, or will be.
Foreseen(d) ==
    /\ del[d].op \in {"kb", "global"} => rows \cap FilesIn(del[d].kbs) \subseteq del[d].files
    /\ del[d].op = "user" =>
         /\ \A f \in rows \cap FilesIn(del[d].kbs \ del[d].todo) : f \in del[d].files \/ Cleaned(f)
         /\ OwnedBy(del[d].user) \subseteq del[d].kbs

Listed ==
    "user" \in Ops =>
        /\ \A f \in Files : up[f] # "blob" /\ run[f] \in {"none", "over"}
        /\ \A f \in rows : run[f] = "over"
        /\ asked \subseteq settled
        /\ \A d \in Deleters : Foreseen(d)

Watched == \A f \in settled : Cleaned(f) \/ Held(f) \/ Pending(f)

LastInv == WholeInv /\ faults = 0 /\ Stages /\ Places /\ Listed /\ Watched

LEMMA InitLast == DeletionInit /\ Calm => LastInv
<1>. SUFFICES ASSUME DeletionInit, Calm PROVE LastInv
  OBVIOUS
<1>1. WholeInv
  BY InitWhole
<1>2. faults = 0 /\ Stages /\ Places /\ Watched
  BY DEF DeletionInit, Stages, Places, Watched, Free
<1>3. Listed
  BY <1>1 DEF DeletionInit, Listed, Foreseen, Free, WholeInv, Typed
<1>. QED BY <1>1, <1>2, <1>3 DEF LastInv

\* A step of no deleter adds nothing to a file that is settled.
LEMMA QuietLast ==
    ASSUME LastInv, WholeInv', UNCHANGED <<del, faults, history>>, settled \cap rows \subseteq rows',
           \A f \in settled : /\ f \in chunks' => f \in chunks
                              /\ f \in side' => f \in side
                              /\ f \in blobs' => f \in blobs,
           "user" \in Ops => /\ UNCHANGED <<kb, rows, up, run>>
                             /\ chunks' \subseteq chunks /\ side' \subseteq side /\ blobs' \subseteq blobs
    PROVE  LastInv'
<1>1. Stages'
  BY DEF LastInv, Stages, history
<1>2. Places'
  BY DEF LastInv, Places
<1>3. Watched'
  BY DEF LastInv, Watched, Cleaned, Held, Pending, history
<1>4. Listed'
  BY DEF LastInv, Listed, Foreseen, Cleaned, OwnedBy, history
<1>. QED BY <1>1, <1>2, <1>3, <1>4 DEF LastInv, history

LEMMA OthersLast ==
    ASSUME LastInv, Calm, WholeInv',
           \/ \E k \in KBs : Publish(k) \/ \E u \in Users : CreateKB(u, k) \/ Transfer(k, u) \/ Unpublish(k, u)
           \/ \E f \in Files : StoreBlob(f) \/ CreateRow(f) \/ Run(f) \/ Crash(f)
           \/ Sweep
    PROVE  LastInv'
<1>0. \A f \in settled : run[f] = "over" /\ up[f] = "done"
  BY DEF LastInv, WholeInv, FileInv
<1>1. ASSUME NEW k \in KBs,
             Publish(k) \/ \E u \in Users : CreateKB(u, k) \/ Transfer(k, u) \/ Unpublish(k, u)
      PROVE  LastInv'
  <2>1. "user" \notin Ops /\ UNCHANGED <<rows, data, del, faults, history>>
    BY <1>1 DEF Calm, Static, Publish, CreateKB, Transfer, Unpublish
  <2>. QED BY <2>1, QuietLast DEF data
<1>2. ASSUME NEW f \in Files, StoreBlob(f) \/ CreateRow(f) \/ Run(f) \/ Crash(f)
      PROVE  LastInv'
  <2>1. "user" \notin Ops
    BY <1>2 DEF Calm, Static, LastInv, Listed, StoreBlob, CreateRow, Run, StartTask, DeleteOld, Write,
                Finish, Poll, RemoveOutput, Crash
  <2>2. /\ f \notin settled
        /\ UNCHANGED <<del, history>>
        /\ \A g \in Files \ {f} : /\ g \in rows => g \in rows'
                                  /\ g \in chunks' => g \in chunks
                                  /\ g \in side' => g \in side
                                  /\ g \in blobs' => g \in blobs
    BY <1>0, <1>2 DEF StoreBlob, CreateRow, Run, StartTask, DeleteOld, Write, Finish, Poll, RemoveOutput,
                      Crash, data
  <2>3. faults' = faults
    BY <1>2 DEF Calm, LastInv, StoreBlob, CreateRow, Run, StartTask, DeleteOld, Write, Finish, Poll,
                RemoveOutput, Crash
  <2>4. settled \subseteq Files
    BY DEF LastInv, WholeInv, Typed
  <2>. QED BY <2>1, <2>2, <2>3, <2>4, QuietLast
<1>3. CASE Sweep
  <2>1. /\ UNCHANGED <<kb, rows, blobs, side, up, run, del, history>>
        /\ chunks' \subseteq chunks /\ faults' = faults
    BY <1>3 DEF Calm, LastInv, Sweep, SweepList, SweepCheck, SweepDelete, Less, data
  <2>. QED BY <2>1, QuietLast
<1>. QED BY <1>1, <1>2, <1>3

\* A delete of a KB or a file lists what it will take with it.
LEMMA ListLast ==
    ASSUME LastInv, WholeInv', NEW d \in Deleters, NEW n \in Dels, NEW fs \in SUBSET rows,
           del[d] = Free, n.op \in {"kb", "global", "file"}, n.todo = {},
           n.op = "file" => n.kbs = {},
           n.op # "file" => rows \cap FilesIn(n.kbs) \subseteq fs,
           List(d, n, fs), UNCHANGED <<users, kb, rows, data, up, run, sweep, faults>>
    PROVE  LastInv'
<1>1. /\ del' \in [Deleters -> Dels]
      /\ del'[d].files = fs /\ del'[d].at = "chunks" /\ del'[d].op = n.op /\ del'[d].kbs = n.kbs
      /\ \A e \in Deleters \ {d} : del'[e] = del[e]
      /\ del[d].files = {} /\ del[d].todo = {} /\ del[d].op = "none"
  BY DEF List, LastInv, WholeInv, Typed, Dels, Free
<1>2. /\ asked' = asked \cup fs /\ settled' = settled \cup {f \in fs \ asked : run[f] = "over"}
      /\ \A e \in Deleters : del[e].files \subseteq asked
  BY DEF List, Ask, LastInv, WholeInv, FileInv
<1>3. Stages'
  BY <1>1, <1>2 DEF LastInv, Stages, data
<1>4. Places'
  BY <1>1 DEF LastInv, Places
<1>5. Watched'
  <2>1. ASSUME NEW f \in settled' PROVE (Cleaned(f) \/ Held(f) \/ Pending(f))'
    <3>1. CASE f \in fs
      BY <1>1, <3>1 DEF Held
    <3>2. CASE f \notin fs
      BY <1>1, <1>2, <3>2 DEF LastInv, Watched, Cleaned, Held, Pending, data
    <3>. QED BY <3>1, <3>2
  <2>. QED BY <2>1 DEF Watched
<1>6. Listed'
  <2>. SUFFICES ASSUME "user" \in Ops PROVE Listed'
    BY DEF Listed
  <2>1. /\ \A f \in Files : up'[f] # "blob" /\ run'[f] \in {"none", "over"}
        /\ \A f \in rows' : run'[f] = "over"
        /\ asked' \subseteq settled'
    BY <1>2 DEF LastInv, Listed
  <2>2. ASSUME NEW e \in Deleters \ {d}
        PROVE  Foreseen(e)
    BY DEF LastInv, Listed
  <2>3. ASSUME NEW e \in Deleters
        PROVE  Foreseen(e)'
    <3>0. UNCHANGED <<rows, kb, blobs, chunks, side>>
      BY DEF data
    <3>1. CASE e = d
      BY <1>1, <3>0, <3>1 DEF Foreseen
    <3>2. CASE e # d
      <4>1. Foreseen(e) /\ del'[e] = del[e]
        BY <1>1, <2>2, <3>2
      <4>. QED BY <3>0, <4>1 DEF Foreseen, Cleaned, OwnedBy
    <3>. QED BY <3>1, <3>2
  <2>. QED BY <2>1, <2>3 DEF Listed
<1>. QED BY <1>3, <1>4, <1>5, <1>6 DEF LastInv

LEMMA AskLast ==
    ASSUME LastInv, WholeInv', NEW d \in Deleters,
           \/ \E k \in KBs : DeleteKB(d, k) \/ DeleteGlobalKB(d, k)
           \/ \E f \in Files : DeleteFile(d, f)
    PROVE  LastInv'
<1>1. ASSUME NEW k \in KBs, DeleteKB(d, k) PROVE LastInv'
  <2>. DEFINE n == [Free EXCEPT !.op = "kb", !.kbs = {k}]
              fs == rows \cap FilesIn({k})
  <2>1. /\ n \in Dels /\ n.op = "kb" /\ n.todo = {} /\ n.kbs = {k}
        /\ List(d, n, fs) /\ del[d] = Free /\ UNCHANGED <<users, kb, rows, data, up, run, sweep, faults>>
    BY <1>1 DEF DeleteKB, Free, Dels, DelOps, DelSteps
  <2>2. fs \in SUBSET rows /\ rows \cap FilesIn(n.kbs) \subseteq fs
    BY <2>1
  <2>. HIDE DEF n, fs
  <2>. QED BY <2>1, <2>2, ListLast
<1>2. ASSUME NEW k \in KBs, DeleteGlobalKB(d, k) PROVE LastInv'
  <2>. DEFINE n == [Free EXCEPT !.op = "global", !.kbs = {k}]
              fs == rows \cap FilesIn({k})
  <2>1. /\ n \in Dels /\ n.op = "global" /\ n.todo = {} /\ n.kbs = {k}
        /\ List(d, n, fs) /\ del[d] = Free /\ UNCHANGED <<users, kb, rows, data, up, run, sweep, faults>>
    BY <1>2 DEF DeleteGlobalKB, Free, Dels, DelOps, DelSteps
  <2>2. fs \in SUBSET rows /\ rows \cap FilesIn(n.kbs) \subseteq fs
    BY <2>1
  <2>. HIDE DEF n, fs
  <2>. QED BY <2>1, <2>2, ListLast
<1>3. ASSUME NEW f \in Files, DeleteFile(d, f) PROVE LastInv'
  <2>. DEFINE n == [Free EXCEPT !.op = "file"]
              fs == {f}
  <2>1. /\ n \in Dels /\ n.op = "file" /\ n.todo = {} /\ n.kbs = {} /\ fs \in SUBSET rows
        /\ List(d, n, fs) /\ del[d] = Free /\ UNCHANGED <<users, kb, rows, data, up, run, sweep, faults>>
    BY <1>3 DEF DeleteFile, Free, Dels, DelOps, DelSteps
  <2>. HIDE DEF n, fs
  <2>. QED BY <2>1, ListLast
<1>. QED BY <1>1, <1>2, <1>3

\* A delete of a user asks for all that the user owns, and lists it a KB at a time.
LEMMA UserLast ==
    ASSUME LastInv, WholeInv', NEW d \in Deleters, NEW u \in Users, DeleteUser(d, u)
    PROVE  LastInv'
<1>. DEFINE fs == rows \cap FilesIn(OwnedBy(u))
<1>. DEFINE n == [Free EXCEPT !.op = "user", !.user = u, !.at = "next", !.kbs = OwnedBy(u), !.todo = OwnedBy(u)]
<1>0. /\ n.files = {} /\ n.at = "next" /\ n.op = "user" /\ n.user = u /\ n.kbs = OwnedBy(u)
      /\ n.todo = OwnedBy(u) /\ n \in Dels
  BY DEF Free, OwnedBy, Dels, DelOps, DelSteps
<1>1. /\ del' \in [Deleters -> Dels]
      /\ del'[d].files = {} /\ del'[d].at = "next" /\ del'[d].op = "user" /\ del'[d].user = u
      /\ del'[d].kbs = OwnedBy(u) /\ del'[d].todo = OwnedBy(u)
      /\ \A e \in Deleters \ {d} : del'[e] = del[e]
      /\ del[d].files = {} /\ del[d].todo = {} /\ del[d].op = "none"
  <2>1. del' = [del EXCEPT ![d] = n] /\ del[d] = Free /\ del \in [Deleters -> Dels]
    BY DEF DeleteUser, LastInv, WholeInv, Typed
  <2>. HIDE DEF n
  <2>. QED BY <1>0, <2>1 DEF Free
<1>2. /\ asked' = asked \cup fs /\ settled' = settled \cup {f \in fs \ asked : run[f] = "over"}
      /\ \A e \in Deleters : del[e].files \subseteq asked
      /\ "user" \in Ops
      /\ UNCHANGED <<rows, kb, blobs, chunks, side, up, run, faults>>
  BY DEF DeleteUser, Ask, LastInv, WholeInv, FileInv, data
<1>3. Stages'
  BY <1>1, <1>2 DEF LastInv, Stages
<1>4. Places'
  BY <1>1, <1>2 DEF LastInv, Places
<1>5. Watched'
  <2>1. ASSUME NEW f \in settled' PROVE (Cleaned(f) \/ Held(f) \/ Pending(f))'
    <3>1. CASE f \in fs
      BY <1>1, <1>2, <3>1 DEF Pending, FilesIn
    <3>2. CASE f \notin fs
      BY <1>1, <1>2, <3>2 DEF LastInv, Watched, Cleaned, Held, Pending
    <3>. QED BY <3>1, <3>2
  <2>. QED BY <2>1 DEF Watched
<1>6. Listed'
  <2>1. /\ \A f \in Files : up'[f] # "blob" /\ run'[f] \in {"none", "over"}
        /\ \A f \in rows' : run'[f] = "over"
        /\ asked' \subseteq settled'
    BY <1>2 DEF LastInv, Listed
  <2>2. ASSUME NEW e \in Deleters \ {d}
        PROVE  Foreseen(e)
    BY <1>2 DEF LastInv, Listed
  <2>3. ASSUME NEW e \in Deleters
        PROVE  Foreseen(e)'
    <3>1. CASE e = d
      BY <1>1, <1>2, <3>1 DEF Foreseen, OwnedBy, FilesIn
    <3>2. CASE e # d
      BY <1>1, <1>2, <2>2, <3>2 DEF Foreseen, Cleaned, OwnedBy
    <3>. QED BY <3>1, <3>2
  <2>. QED BY <2>1, <2>3 DEF Listed
<1>. QED BY <1>2, <1>3, <1>4, <1>5, <1>6 DEF LastInv

LEMMA NextKBLast ==
    ASSUME LastInv, WholeInv', NEW d \in Deleters, NEW k \in KBs, NextKB(d, k)
    PROVE  LastInv'
<1>. DEFINE fs == rows \cap FilesIn({k})
<1>1. /\ del' \in [Deleters -> Dels]
      /\ del'[d].files = fs /\ del'[d].at = "chunks" /\ del'[d].op = "user"
      /\ del'[d].user = del[d].user /\ del'[d].kbs = del[d].kbs /\ del'[d].todo = del[d].todo \ {k}
      /\ \A e \in Deleters \ {d} : del'[e] = del[e]
      /\ del[d].at = "next" /\ del[d].op = "user" /\ "user" \in Ops
  BY DEF NextKB, List, LastInv, Places, WholeInv, Typed, Dels
<1>2. /\ asked' = asked \cup fs /\ settled' = settled \cup {f \in fs \ asked : run[f] = "over"}
      /\ \A e \in Deleters : del[e].files \subseteq asked
      /\ UNCHANGED <<rows, kb, blobs, chunks, side, up, run, faults>>
  BY DEF NextKB, List, Ask, LastInv, WholeInv, FileInv, data
<1>3. \A f \in del[d].files : Cleaned(f)
  BY <1>1, <1>2 DEF LastInv, Listed, Stages, Cleaned
<1>4. Stages'
  BY <1>1, <1>2 DEF LastInv, Stages
<1>5. Places'
  BY <1>1, <1>2 DEF LastInv, Places
<1>6. Watched'
  <2>1. ASSUME NEW f \in settled' PROVE (Cleaned(f) \/ Held(f) \/ Pending(f))'
    <3>1. CASE f \in fs
      BY <1>1, <1>2, <3>1 DEF Held
    <3>2. CASE f \notin fs
      <4>1. f \in settled
        BY <1>2, <3>2
      <4>2. CASE Cleaned(f)
        BY <1>2, <4>2 DEF Cleaned
      <4>3. ASSUME NEW e \in Deleters, f \in del[e].files, ~Cleaned(f) PROVE Held(f)'
        BY <1>1, <1>3, <4>3 DEF Held
      <4>4. ASSUME NEW e \in Deleters, f \in rows, del[e].op = "user", KBOf[f] \in del[e].todo
            PROVE  Pending(f)'
        <5>1. KBOf[f] # k
          BY <3>2, <4>4 DEF FilesIn, LastInv, WholeInv, Typed
        <5>. QED BY <1>1, <1>2, <4>4, <5>1 DEF Pending
      <4>. QED BY <4>1, <4>2, <4>3, <4>4 DEF LastInv, Watched, Held, Pending
    <3>. QED BY <3>1, <3>2
  <2>. QED BY <2>1 DEF Watched
<1>7. Listed'
  <2>1. /\ \A f \in Files : up'[f] # "blob" /\ run'[f] \in {"none", "over"}
        /\ \A f \in rows' : run'[f] = "over"
        /\ asked' \subseteq settled'
    BY <1>1, <1>2 DEF LastInv, Listed
  <2>2. ASSUME NEW e \in Deleters
        PROVE  Foreseen(e)
    BY <1>1 DEF LastInv, Listed
  <2>3. ASSUME NEW e \in Deleters
        PROVE  Foreseen(e)'
    <3>1. CASE e = d
      <4>1. ASSUME NEW f \in rows \cap FilesIn(del'[d].kbs \ del'[d].todo) PROVE f \in fs \/ Cleaned(f)
        <5>1. CASE KBOf[f] = k
          BY <5>1 DEF FilesIn
        <5>2. CASE KBOf[f] # k
          BY <1>1, <1>3, <2>2, <5>2 DEF Foreseen, FilesIn
        <5>. QED BY <5>1, <5>2
      <4>. QED BY <1>1, <1>2, <2>2, <3>1, <4>1 DEF Foreseen, Cleaned, OwnedBy
    <3>2. CASE e # d
      BY <1>1, <1>2, <2>2, <3>2 DEF Foreseen, Cleaned, OwnedBy
    <3>. QED BY <3>1, <3>2
  <2>. QED BY <2>1, <2>3 DEF Listed
<1>. QED BY <1>2, <1>4, <1>5, <1>6, <1>7 DEF LastInv

LEMMA CleanLast ==
    ASSUME LastInv, Calm, WholeInv', NEW d \in Deleters, DeleteChunks(d) \/ DeleteSide(d) \/ DeleteBlobs(d)
    PROVE  LastInv'
<1>1. /\ \A e \in Deleters \ {d} : del'[e] = del[e]
      /\ del'[d].files = del[d].files /\ del'[d].op = del[d].op /\ del'[d].user = del[d].user
      /\ del'[d].kbs = del[d].kbs /\ del'[d].todo = del[d].todo
      /\ UNCHANGED <<users, kb, rows, up, run, sweep, asked, settled>>
  BY DEF DeleteChunks, DeleteSide, DeleteBlobs, Clean, LastInv, WholeInv, Typed, Dels, history
<1>2. /\ faults' = faults
      /\ chunks' \subseteq chunks /\ side' \subseteq side /\ blobs' \subseteq blobs
  BY DEF DeleteChunks, DeleteSide, DeleteBlobs, Less, LastInv, Calm
<1>3. \/ /\ del[d].at = "chunks" /\ del'[d].at = "side"
         /\ chunks' = chunks \ del[d].files
      \/ /\ del[d].at = "side" /\ del'[d].at = "blobs"
         /\ side' = side \ del[d].files
      \/ /\ del[d].at = "blobs" /\ del'[d].at = IF del[d].op = "user" THEN "next" ELSE "rows"
         /\ blobs' = blobs \ del[d].files
  <2>1. faults = 0 /\ MaxFaults = 0 /\ del \in [Deleters -> Dels]
    BY DEF LastInv, Calm, WholeInv, Typed
  <2>2. CASE DeleteChunks(d)
    BY <2>1, <2>2 DEF DeleteChunks, Clean, Less, Dels
  <2>3. CASE DeleteSide(d)
    BY <2>1, <2>3 DEF DeleteSide, Clean, Less, Dels
  <2>4. CASE DeleteBlobs(d)
    BY <2>1, <2>4 DEF DeleteBlobs, Clean, Less, Dels
  <2>. QED BY <2>2, <2>3, <2>4
<1>4. Stages'
  BY <1>1, <1>2, <1>3 DEF LastInv, Stages
<1>5. Places'
  BY <1>1, <1>3 DEF LastInv, Places
<1>6. Watched'
  BY <1>1, <1>2 DEF LastInv, Watched, Cleaned, Held, Pending
<1>7. Listed'
  <2>1. ASSUME NEW e \in Deleters, Foreseen(e) PROVE Foreseen(e)'
    <3>1. /\ del'[e].files = del[e].files /\ del'[e].op = del[e].op /\ del'[e].user = del[e].user
          /\ del'[e].kbs = del[e].kbs /\ del'[e].todo = del[e].todo
      BY <1>1
    <3>. QED BY <1>1, <1>2, <2>1, <3>1 DEF Foreseen, Cleaned, OwnedBy
  <2>. QED BY <1>1, <2>1 DEF LastInv, Listed
<1>. QED BY <1>2, <1>4, <1>5, <1>6, <1>7 DEF LastInv

\* A transaction takes what has been cleaned, by its own deleter or, where no
\* user is deleted, by one that still holds it.
LEMMA CommitLast ==
    ASSUME LastInv, WholeInv', NEW d \in Deleters, Commit(d)
    PROVE  LastInv'
<1>1. /\ del'[d] = Free /\ \A e \in Deleters \ {d} : del'[e] = del[e]
      /\ UNCHANGED <<blobs, chunks, side, up, run, sweep, faults, asked, settled>>
      /\ del[d].at = "rows" \/ (del[d].at = "next" /\ del[d].todo = {})
  <2>1. /\ del' = [del EXCEPT ![d] = Free] /\ del \in [Deleters -> Dels]
        /\ UNCHANGED <<data, up, run, sweep, faults, history>>
    BY DEF Commit, LastInv, WholeInv, Typed
  <2>2. del[d].at = "rows" \/ (del[d].at = "next" /\ del[d].todo = {})
    BY DEF Commit, Transaction
  <2>. QED BY <2>1, <2>2 DEF data, history
<1>2. \A f \in settled \cap del[d].files : Cleaned(f)
  BY <1>1 DEF LastInv, Stages, Cleaned
<1>3. rows' \subseteq rows
  BY DEF Commit, DropFileRow, DropKB, DropGlobalKB, DropUser, DropKBs
<1>4. ASSUME "user" \in Ops, NEW f \in (rows \ rows') \cap settled PROVE Cleaned(f)
  <2>0. Foreseen(d) /\ f \in Files /\ del[d].kbs \in SUBSET KBs
    BY <1>4 DEF LastInv, Listed, WholeInv, Typed, Dels
  <2>1. CASE DropFileRow(d)
    BY <1>2, <1>4, <2>1 DEF DropFileRow
  <2>2. CASE DropKB(d) \/ DropGlobalKB(d)
    BY <1>2, <1>4, <2>0, <2>2 DEF DropKB, DropGlobalKB, DropKBs, FilesIn, Foreseen
  <2>3. CASE DropUser(d)
    <3>1. del[d].op = "user" /\ del[d].todo = {}
      BY <1>1, <2>3 DEF DropUser, LastInv, Places
    <3>2. KBOf[f] \in OwnedBy(del[d].user) \cup del[d].kbs
      BY <1>4, <2>0, <2>3 DEF DropUser, DropKBs, FilesIn
    <3>. QED BY <1>2, <1>4, <2>0, <3>1, <3>2 DEF Foreseen, FilesIn
  <2>. QED BY <2>1, <2>2, <2>3 DEF Commit
<1>5. Stages'
  BY <1>1 DEF LastInv, Stages, Free
<1>6. Places'
  BY <1>1 DEF LastInv, Places, Free
<1>7. Watched'
  <2>1. ASSUME NEW f \in settled PROVE (Cleaned(f) \/ Held(f) \/ Pending(f))'
    <3>1. CASE Cleaned(f)
      BY <1>1, <3>1 DEF Cleaned
    <3>2. ASSUME NEW e \in Deleters, f \in del[e].files, ~Cleaned(f) PROVE Held(f)'
      BY <1>1, <1>2, <3>2 DEF Held
    <3>3. ASSUME NEW e \in Deleters, f \in rows, del[e].op = "user", KBOf[f] \in del[e].todo, ~Cleaned(f)
          PROVE  Pending(f)'
      <4>1. f \in rows'
        BY <1>4, <3>3 DEF LastInv, Places
      <4>2. e # d
        BY <1>1, <3>3 DEF LastInv, Places
      <4>. QED BY <1>1, <3>3, <4>1, <4>2 DEF Pending
    <3>. QED BY <3>1, <3>2, <3>3 DEF LastInv, Watched, Held, Pending
  <2>. QED BY <1>1, <2>1 DEF Watched
<1>8. Listed'
  <2>1. \A u \in Users \cup {Nobody} : OwnedBy(u)' \subseteq OwnedBy(u)
    BY CommitOwners DEF OwnedBy, LastInv
  <2>2. ASSUME NEW e \in Deleters, Foreseen(e) PROVE Foreseen(e)'
    <3>1. CASE e = d
      BY <1>1, <3>1 DEF Foreseen, Free
    <3>2. CASE e # d
      <4>1. del'[e] = del[e] /\ del[e].user \in Users \cup {Nobody}
        BY <1>1, <3>2 DEF LastInv, WholeInv, Typed, Dels
      <4>2. OwnedBy(del[e].user)' \subseteq OwnedBy(del[e].user)
        BY <2>1, <4>1 DEF OwnedBy
      <4>. QED BY <1>1, <1>3, <2>2, <4>1, <4>2 DEF Foreseen, Cleaned
    <3>. QED BY <3>1, <3>2
  <2>. QED BY <1>1, <1>3, <2>2 DEF LastInv, Listed
<1>. QED BY <1>1, <1>5, <1>6, <1>7, <1>8 DEF LastInv

LEMMA NextLast == LastInv /\ Calm /\ [DeletionNext]_deletionVars => LastInv'
<1>. SUFFICES ASSUME LastInv, Calm, [DeletionNext]_deletionVars PROVE LastInv'
  OBVIOUS
<1>0. WholeInv'
  BY NextWhole DEF LastInv
<1>1. CASE UNCHANGED deletionVars
  BY <1>0, <1>1, QuietLast DEF deletionVars, data, history
<1>2. ASSUME NEW d \in Deleters, Fails(d) PROVE LastInv'
  BY <1>2 DEF Fails, Calm, LastInv
<1>3. ASSUME NEW d \in Deleters, Delete(d) PROVE LastInv'
  BY <1>0, <1>3, NextKBLast, CleanLast, CommitLast DEF Delete
<1>. QED BY <1>0, <1>1, <1>2, <1>3, OthersLast, AskLast, UserLast DEF DeletionNext

\* Nothing of a deleted file outlives its row, unless a delete is still at it:
\* where no step fails, whoever uploads, runs, sweeps or deletes, as long as a
\* KB does not change hands or fill up under the delete of its owner.
THEOREM RowsGoInTheEnd == ASSUME Calm PROVE DeletionSpec => []RowGoesLast
<1>1. LastInv => RowGoesLast
  BY DEF LastInv, Watched, Cleaned, Held, Pending, RowGoesLast
<1>. QED BY <1>1, InitLast, NextLast, PTL DEF DeletionSpec

-----------------------------------------------------------------------------
(* Rows go with their KB.                                                  *)

\* No private KB is emptied as if it were public, and where users are deleted,
\* what they own stays theirs.
Kept == "global" \notin Ops /\ ("user" \in Ops => Ops \cap {"create", "transfer", "publish"} = {})

OwnersInv ==
    /\ WholeInv
    /\ \A d \in Deleters :
         /\ del[d].op # "global"
         /\ del[d].op = "user" => "user" \in Ops
         /\ del[d].op = "user" => \A k \in del[d].kbs : kb[k].live => kb[k].mirror = del[d].user

LEMMA InitOwners == DeletionInit /\ Kept => OwnersInv
  BY InitWhole DEF DeletionInit, OwnersInv, Free

LEMMA NextOwners == OwnersInv /\ Kept /\ [DeletionNext]_deletionVars => OwnersInv'
<1>. SUFFICES ASSUME OwnersInv, Kept, [DeletionNext]_deletionVars PROVE OwnersInv'
  OBVIOUS
<1>0. WholeInv'
  BY NextWhole DEF OwnersInv
<1>. DEFINE Step == \/ UNCHANGED deletionVars
                    \/ \E f \in Files : StoreBlob(f) \/ CreateRow(f) \/ Run(f) \/ Crash(f)
                    \/ Sweep
<1>1. CASE Step
  <2>1. UNCHANGED <<kb, del>>
    BY <1>1 DEF deletionVars, StoreBlob, CreateRow, Run, StartTask, DeleteOld, Write, Finish, Poll, RemoveOutput,
                Crash, Sweep, SweepList, SweepCheck, SweepDelete
  <2>. QED BY <1>0, <2>1 DEF OwnersInv
<1>2. ASSUME NEW k \in KBs, Publish(k) \/ \E u \in Users : CreateKB(u, k) \/ Transfer(k, u) \/ Unpublish(k, u)
      PROVE  OwnersInv'
  <2>1. "user" \notin Ops /\ UNCHANGED del
    BY <1>2 DEF Kept, Publish, CreateKB, Transfer, Unpublish
  <2>. QED BY <1>0, <2>1 DEF OwnersInv
<1>3. ASSUME NEW d \in Deleters,
             \/ \E k \in KBs : DeleteKB(d, k) \/ DeleteGlobalKB(d, k) \/ NextKB(d, k)
             \/ \E f \in Files : DeleteFile(d, f)
             \/ \E u \in Users : DeleteUser(d, u)
             \/ DeleteChunks(d) \/ DeleteSide(d) \/ DeleteBlobs(d) \/ Fails(d)
      PROVE  OwnersInv'
  <2>1. /\ UNCHANGED kb
        /\ \A e \in Deleters \ {d} : del'[e] = del[e]
    BY <1>3 DEF DeleteKB, DeleteGlobalKB, NextKB, DeleteFile, DeleteUser, List, DeleteChunks, DeleteSide,
                DeleteBlobs, Clean, Fails, OwnersInv, WholeInv, Typed
  <2>2. \/ del'[d].op \in {"none", "kb", "file"}
        \/ del'[d].op = del[d].op /\ del'[d].kbs = del[d].kbs /\ del'[d].user = del[d].user
        \/ /\ del'[d].op = "user" /\ "user" \in Ops
           /\ del'[d].kbs = OwnedBy(del'[d].user)
    <3>1. ASSUME NEW u \in Users, DeleteUser(d, u)
          PROVE  del'[d].op = "user" /\ "user" \in Ops /\ del'[d].kbs = OwnedBy(del'[d].user)
      <4>1. /\ del'[d] = [Free EXCEPT !.op = "user", !.user = u, !.at = "next", !.kbs = OwnedBy(u),
                                      !.todo = OwnedBy(u)]
            /\ "user" \in Ops
        BY <3>1 DEF DeleteUser, OwnersInv, WholeInv, Typed
      <4>2. del'[d].op = "user" /\ del'[d].user = u /\ del'[d].kbs = OwnedBy(u)
        BY <4>1 DEF Free
      <4>. QED BY <4>1, <4>2
    <3>2. ASSUME NEW k \in KBs, DeleteKB(d, k) \/ NextKB(d, k)
          PROVE  \/ del'[d].op = "kb"
                 \/ del'[d].op = del[d].op /\ del'[d].kbs = del[d].kbs /\ del'[d].user = del[d].user
      <4>1. del \in [Deleters -> Dels]
        BY DEF OwnersInv, WholeInv, Typed
      <4>2. CASE DeleteKB(d, k)
        BY <4>1, <4>2 DEF DeleteKB, List, Free
      <4>3. CASE NextKB(d, k)
        BY <4>1, <4>3 DEF NextKB, List, Dels
      <4>. QED BY <3>2, <4>2, <4>3
    <3>3. ASSUME NEW f \in Files, DeleteFile(d, f) PROVE del'[d].op = "file"
      BY <3>3 DEF DeleteFile, List, Free, OwnersInv, WholeInv, Typed
    <3>4. CASE DeleteChunks(d) \/ DeleteSide(d) \/ DeleteBlobs(d)
      BY <3>4 DEF DeleteChunks, DeleteSide, DeleteBlobs, Clean, OwnersInv, WholeInv, Typed, Dels
    <3>5. CASE Fails(d)
      BY <3>5 DEF Fails, Free, OwnersInv, WholeInv, Typed
    <3>. QED BY <1>3, <3>1, <3>2, <3>3, <3>4, <3>5 DEF Kept, DeleteGlobalKB
  <2>. QED BY <1>0, <2>1, <2>2 DEF OwnersInv, OwnedBy
<1>4. ASSUME NEW d \in Deleters, Commit(d) PROVE OwnersInv'
  <2>1. del'[d] = Free /\ \A e \in Deleters \ {d} : del'[e] = del[e]
    BY <1>4 DEF Commit, OwnersInv, WholeInv, Typed
  <2>2. ASSUME NEW k \in KBs, kb'[k].live PROVE kb[k].live /\ kb'[k].mirror = kb[k].mirror
    BY <1>4, <2>2, CommitOwners DEF OwnersInv
  <2>3. \A e \in Deleters : del[e].kbs \in SUBSET KBs
    BY DEF OwnersInv, WholeInv, Typed, Dels
  <2>. QED BY <1>0, <2>1, <2>2, <2>3 DEF OwnersInv, Free
<1>. QED BY <1>1, <1>2, <1>3, <1>4 DEF DeletionNext, Delete

\* A row goes with its KB or by a delete of its own: a delete of a KB takes the
\* KB, and so does the delete of a user, as long as the KBs listed stay the user's.
THEOREM RowsGoWithKBs == ASSUME Kept PROVE DeletionSpec => FilesGoWithTheirKB
<1>1. OwnersInv /\ [DeletionNext]_deletionVars => [RowsGoWithTheirKB]_deletionVars
  <2>. SUFFICES ASSUME OwnersInv, [DeletionNext]_deletionVars PROVE [RowsGoWithTheirKB]_deletionVars
    OBVIOUS
  <2>1. CASE rows \subseteq rows'
    BY <2>1 DEF RowsGoWithTheirKB
  <2>2. ASSUME NEW d \in Deleters, Commit(d), NEW f \in rows \ rows'
        PROVE  ~kb'[KBOf[f]].live \/ (del[d].op = "file" /\ f \in del[d].files)
    <3>0. f \in Files /\ KBOf[f] \in KBs /\ kb[KBOf[f]].live
      BY DeletionAssumption DEF OwnersInv, WholeInv, Typed, KBInv, DeletionAssumption
    <3>1. CASE DropFileRow(d)
      BY <2>2, <3>1 DEF DropFileRow
    <3>2. CASE DropKB(d)
      <4>1. KBOf[f] \in del[d].kbs
        BY <2>2, <3>0, <3>2 DEF DropKB, DropKBs, FilesIn
      <4>2. kb'[KBOf[f]] = Unborn
        BY <3>0, <3>2, <4>1 DEF DropKB, DropKBs
      <4>. QED BY <4>2, RowsMade
    <3>3. CASE DropUser(d)
      <4>1. KBOf[f] \in OwnedBy(del[d].user)
        BY <2>2, <3>0, <3>3 DEF DropUser, DropKBs, FilesIn, OwnedBy, OwnersInv
      <4>2. kb'[KBOf[f]] = Unborn
        BY <3>0, <3>3, <4>1 DEF DropUser, DropKBs
      <4>. QED BY <4>2, RowsMade
    <3>. QED BY <2>2, <3>1, <3>2, <3>3 DEF Commit, DropGlobalKB, OwnersInv
  <2>3. rows \subseteq rows' \/ \E d \in Deleters : Commit(d)
    BY DEF DeletionNext, deletionVars, StoreBlob, CreateRow, Run, StartTask, DeleteOld, Write, Finish, Poll, RemoveOutput,
           Crash, Sweep, SweepList, SweepCheck, SweepDelete, Publish, CreateKB, Transfer, Unpublish,
           DeleteKB, DeleteGlobalKB, NextKB, DeleteFile, DeleteUser, Delete, DeleteChunks, DeleteSide,
           DeleteBlobs, Clean, Fails
  <2>. QED BY <2>1, <2>2, <2>3 DEF RowsGoWithTheirKB
<1>. QED BY <1>1, InitOwners, NextOwners, PTL DEF DeletionSpec, FilesGoWithTheirKB
=============================================================================
