--------------------------- MODULE DonorRegistry ---------------------------
(***************************************************************************)
(* What copy mode promises of the indexes of one library file, with a copy *)
(* taken in one step.  A row offers an index or nothing.  What it offers is *)
(* a whole build, which a run has made under one setting and which carries  *)
(* the number of that run, or what another row offered at the moment it was *)
(* taken.  Nothing is offered in place of something else, and no offer       *)
(* changes.                                                                *)
(***************************************************************************)
EXTENDS Naturals

CONSTANTS
  Row,       \* the rows that may offer an index
  Run,       \* where runs take place: the worker slots
  Fp, NoFp,  \* index settings; none
  Parts      \* Parts[p]: the pieces of a build under settings p

VARIABLES
  offer,     \* offer[f]: the index that f offers, or Nothing
  build,     \* build[w]: the number of the build that w may offer, 0 if none
  copy,      \* copy[w]: the index that w has taken and not yet offered
  last       \* the last number given to a build

vars == <<offer, build, copy, last>>

Nothing == [fp |-> NoFp, pieces |-> {}]

Whole(p, n) ==
  [fp |-> p, pieces |-> {<<n, p, x>> : x \in Parts[p]}]

Init ==
  /\ offer = [f \in Row |-> Nothing]
  /\ build = [w \in Run |-> 0]
  /\ copy = [w \in Run |-> Nothing]
  /\ last = 0

(* A run gets a number of its own; one that finds its row gone has no use   *)
(* for it.                                                                 *)
Start(w) ==
  /\ last' = last + 1
  /\ build[w] = 0
  /\ build' \in {build, [build EXCEPT ![w] = last']}
  /\ UNCHANGED <<offer, copy>>

(* The run ends, or goes on without what it has taken.                      *)
Stop(w) ==
  /\ build[w] # 0
  /\ build' = build \/ build' = [build EXCEPT ![w] = 0]
  /\ copy' = [copy EXCEPT ![w] = Nothing]
  /\ UNCHANGED <<offer, last>>

Take(w, d) ==
  /\ build[w] # 0 /\ copy[w] = Nothing
  /\ offer[d] # Nothing
  /\ copy' = [copy EXCEPT ![w] = offer[d]]
  /\ UNCHANGED <<offer, build, last>>

(* A run offers what it has built, or what it has taken, once.              *)
Offer(w, f) ==
  /\ build[w] # 0 /\ offer[f] = Nothing
  /\ \/ copy[w] # Nothing /\ offer' = [offer EXCEPT ![f] = copy[w]]
     \/ /\ copy[w] = Nothing
        /\ \E p \in Fp : offer' = [offer EXCEPT ![f] = Whole(p, build[w])]
  /\ build' = [build EXCEPT ![w] = 0]
  /\ copy' = [copy EXCEPT ![w] = Nothing]
  /\ UNCHANGED last

Retire(f) ==
  /\ offer[f] # Nothing
  /\ offer' = [offer EXCEPT ![f] = Nothing]
  /\ UNCHANGED <<build, copy, last>>

Next ==
  \/ \E w \in Run :
       \/ Start(w) \/ Stop(w)
       \/ \E f \in Row : Take(w, f) \/ Offer(w, f)
  \/ \E f \in Row : Retire(f)

Spec == Init /\ [][Next]_vars
=============================================================================
