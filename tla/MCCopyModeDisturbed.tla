------------------------ MODULE MCCopyModeDisturbed ------------------------
(***************************************************************************)
(* Instances of CopyMode with KBs of both kinds, and with what the         *)
(* environment may do besides.  A behaviour keeps to one scenario.         *)
(***************************************************************************)
EXTENDS MCCopyMode

VARIABLE scenario

(* KBs of both kinds, two embedding batches.                               *)
Mixed ==
  [files |-> {f1, f2}, workers |-> {w1}, fps |-> {flat, pc}, leaves |-> 2,
   runs |-> 2, disturbances |-> {}]

(* Files are deleted under their run or under a copier, and retiring the   *)
(* donor may fail.                                                         *)
Deleted ==
  [files |-> {f1, f2}, workers |-> {w1}, fps |-> {flat}, leaves |-> 1,
   runs |-> 2, disturbances |-> {"delete", "retire"}]

(* Deletes of old rows may fail, also the one of the file's row.           *)
Cleaned ==
  [files |-> {f1, f2}, workers |-> {w1}, fps |-> {flat}, leaves |-> 1,
   runs |-> 2, disturbances |-> {"cleanup", "rowDelete"}]

(* Settings change at any time.                                            *)
Configured ==
  [files |-> {f1}, workers |-> {w1}, fps |-> {flat, pc}, leaves |-> 2,
   runs |-> 2, disturbances |-> {"config"}]

Scenarios == {Mixed, Deleted, Cleaned, Configured}

Part(s) == INSTANCE CopyMode WITH
  File <- s.files, Worker <- s.workers, Fp <- s.fps, ParentChild <- s.fps \cap {pc},
  NLeaf <- s.leaves, MaxRuns <- s.runs, Disturbances <- s.disturbances

MCInit == \E s \in Scenarios : scenario = s /\ Part(s)!Init

MCNext == \E s \in Scenarios : scenario = s /\ Part(s)!Next /\ UNCHANGED scenario

MCSpec == MCInit /\ [][MCNext]_<<vars, scenario>>

(* A file shown as ready has every leaf of one build, whatever settings     *)
(* change and best-effort deletes fail; it has chunks, whichever donor is   *)
(* deleted under the copier; and where KBs differ in kind and settings a    *)
(* donor is whole under those its fingerprint names, so that no partial     *)
(* index becomes one.  (The variables keep their types, too.)               *)
ReadyFilesAreBuilt ==
  \E s \in Scenarios :
    /\ scenario = s /\ Part(s)!TypeOK
    /\ IF s = Deleted THEN Part(s)!ReadyIsNotEmpty ELSE Part(s)!ReadyHasItsLeaves
    /\ s = Mixed => Part(s)!DonorIndexWhole
=============================================================================
