----------------------------- MODULE MCCopyMode -----------------------------
(* Model checking instances of CopyMode: two KB copies of one library file. *)
EXTENDS CopyModeInv, TLC

CONSTANTS f1, f2, w1, w2, flat, pc

(* Rows, and task slots, are interchangeable.                              *)
FileSymmetry == Permutations({f1, f2})
Symmetry == FileSymmetry \cup Permutations({w1, w2})

(* The instance is two in one.  When every KB is flat it stays so, and      *)
(* MaxRuns runs may follow one another; with a parent-child KB the settings *)
(* may change, and two runs do.  Once one of the two files is gone there is *)
(* nothing left to copy, and none begins but the first (CopyModeDisturbed   *)
(* has those).  A third run begins beside another only if a file is a donor *)
(* then: without one the two have nothing to do with each other.            *)
FlatOrMixed ==
  /\ IF \A f \in File : cfg[f] \notin ParentChild
       THEN cfg' = cfg
       ELSE runs' <= 2 /\ \E f \in File : cfg'[f] \in ParentChild
  /\ runs' # runs =>
       /\ (\A f \in File : del[f] # "done") \/ runs' = 1
       /\ \/ runs' <= 2
          \/ \E f \in File : CopyDonor(f)
          \/ \A w \in Worker : At(w, "idle")
=============================================================================
