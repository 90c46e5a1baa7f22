---------------------------- MODULE MCConnectors ----------------------------
(***************************************************************************)
(* Instances of the two connectors that reconcile files with a remote: a   *)
(* git repository (GitSync) and a Confluence space (ConfluenceSync).  They *)
(* share nothing; a behaviour is about one of them.                        *)
(***************************************************************************)
EXTENDS GitSync, ConfluenceSync, TLC

VARIABLE connector

\* Pages are alike; so are paths, and blobs.
Symmetric == Permutations(Pages) \cup Permutations(Paths) \cup Permutations(Blobs)

MCInit ==
    /\ Init /\ SpaceInit
    /\ connector \in {"git", "confluence"}
    /\ connector = "confluence" => \A p, q \in Paths : tree[p] = tree[q]

MCNext ==
    /\ \/ connector = "git" /\ Next /\ UNCHANGED spaceVars
       \/ connector = "confluence" /\ SpaceNext /\ UNCHANGED vars
    /\ UNCHANGED connector

MCSpec == MCInit /\ [][MCNext]_<<vars, spaceVars, connector>>
=============================================================================
