---------------------------- MODULE CopyModeInv ----------------------------
(***************************************************************************)
(* The inductive invariant behind DonorIndexWhole, for an environment that *)
(* disturbs nothing but the final delete of a row.  It says how far each   *)
(* run has come with the index of its file, and what a copier may conclude *)
(* from an unchanged token.  AtomicInv adds what CopiesAreAtomic needs.    *)
(***************************************************************************)
EXTENDS CopyMode

(* One task per file, and none on a file the cascade is deleting.          *)
Exclusive ==
  /\ \A v, w \in Worker : v # w /\ ~At(v, "idle") => job[v].file # job[w].file
  /\ \A w \in Worker : ~At(w, "idle") => ~Deleting(job[w].file)

(* A row that is not there advertises nothing.                             *)
GoneIsNoDonor == \A f \in File : ~Exists(f) => row[f].fp = NoFp

(* Enough for RebuildRetiresDonor and for the token discipline.            *)
RetireInv == TypeOK /\ Exclusive /\ GoneIsNoDonor /\ RebuildRetiresDonor

DonorsAreWhole == \A f \in File, p \in Fp : Advertises(f, p) => IndexWhole(f, p)

(* What the run of w has stored so far of the pieces in P.                 *)
Stored(w, P) == chunks[job[w].file] = {Built(w, x) : x \in P}
HasParents(w) == parents[job[w].file] = {Built(w, Parent)}
NoParents(w) == parents[job[w].file] = {}

EmbedPC == {"children", "finishPC", "stampPC", "progress", "leaves", "finish",
            "hype", "hypeChunk", "stamp"}

BuildProgress(w) ==
  LET f == job[w].file
      j == job[w]
  IN
  /\ j.pc # "idle" => j.run \in 0..runs
  /\ j.pc \notin EmbedPC => j.next = 1 /\ j.failed = {}
  /\ j.pc \in {"mark"} \cup BuildPC \cup TailPC => j.fp \in {cfg[f], NoFp}
  /\ j.pc \in BuildPC \cup TailPC => (j.tail <=> cfg[f] \notin ParentChild)
  /\ j.pc \in {"parents", "children", "finishPC", "stampPC"} => cfg[f] \in ParentChild
  /\ j.pc \in {"leaves", "finish", "hype", "hypeChunk", "stamp"} => cfg[f] \notin ParentChild
  /\ j.pc \in {"delParents", "parse", "parents"} => chunks[f] = {}
  /\ j.pc \in {"parse", "parents", "leaves", "finish", "hype", "hypeChunk", "stamp"} => NoParents(w)
  /\ j.pc \in {"children", "finishPC", "stampPC"} => HasParents(w) /\ j.failed = {}
  /\ j.pc \in {"children", "leaves"} => j.next \in Leaf /\ j.failed \subseteq 1..(j.next - 1)
  /\ j.pc \in {"children", "leaves"} => Stored(w, (1..(j.next - 1)) \ j.failed)
  /\ j.pc \in {"finishPC", "stampPC", "finish", "hype", "hypeChunk"} => Stored(w, Leaf \ j.failed)
  /\ j.pc = "hypeChunk" /\ ~j.degraded => chunks[f] \ j.rows \subseteq hype[f]
  /\ j.pc = "stamp" /\ ~j.degraded /\ j.failed = {} =>
       /\ Stored(w, Leaf \cup {Tree})
       /\ {Built(w, x) : x \in Leaf} \subseteq hype[f]

(* The donor of w still has the token w found it with.                     *)
Same(w) == row[job[w].donor].gen = job[w].gen

(* The copy in the file of w is whole under the settings w copies for.      *)
CopyIsWhole(w) ==
  \A f \in File, p \in Fp : f = job[w].file /\ p = job[w].fp => IndexWhole(f, p)

(* An unchanged token means an unchanged donor.                            *)
CopyProgress(w) ==
  LET f == job[w].file
      d == job[w].donor
      j == job[w]
  IN
  /\ j.pc \in CopyPC => j.fp \in Fp
  /\ j.pc \in CopyPC \ {"lookup"} =>
       /\ d # f
       /\ j.gen <= row[d].gen
       /\ Same(w) => Advertises(d, j.fp)
  /\ j.pc \in TxPC => j.old = chunks[f] \cup parents[f] /\ j.oldQs = hype[f]
  /\ j.pc \in TxPC /\ Same(w) => j.pmap = parents[d]
  /\ j.pc \in {"lookup", "copyMark", "clear", "copyParents", "mapChunks", "copyChunks"} =>
       j.qs = {}
  /\ j.pc \in {"copyChunks", "copyHype", "commit"} /\ Same(w) => j.rows = chunks[d]
  /\ j.pc = "commit" /\ Same(w) => j.qs = j.rows \cap hype[d]
  /\ j.pc = "recheck" /\ Same(w) => CopyIsWhole(w)
  /\ j.pc = "markCopied" => CopyIsWhole(w)

IInv ==
  /\ RetireInv
  /\ DonorsAreWhole
  /\ \A w \in Worker : BuildProgress(w) /\ CopyProgress(w)

(* An unchanged token means that what was copied is what is offered.        *)
SameContent(w) ==
  At(w, "recheck") /\ Same(w) =>
    \A f \in File : f = job[w].file => Content(f) = Content(job[w].donor)

(* Tasks are for files that were uploaded, and runs have numbers.           *)
Enlisted ==
  /\ \A f \in File, k \in Kind : <<f, k>> \in queue => row[f].status # "absent"
  /\ \A w \in Worker : ~At(w, "idle") =>
       job[w].run # 0 /\ \A f \in File : f = job[w].file => row[f].status # "absent"

AtomicInv ==
  /\ IInv
  /\ Enlisted
  /\ \A w \in Worker : SameContent(w)
=============================================================================
