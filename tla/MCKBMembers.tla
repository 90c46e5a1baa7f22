---------------------------- MODULE MCKBMembers ----------------------------
(***************************************************************************)
(* Instances of KBMembers: two ordinary users and a system administrator.  *)
(* A behaviour keeps to one scenario: the operations that meet there,      *)
(* whether one of the users gets an account later only, and how many       *)
(* requests are in flight at once.  All together would be out of reach.    *)
(***************************************************************************)
EXTENDS KBMembers, TLC

CONSTANTS ann, ben, root

VARIABLE scenario

MCUsers == {ann, ben, root}
MCSysRole == ann :> "user" @@ ben :> "user" @@ root :> "superadmin"
MCOps == RequestOps \cup
    {"publish", "unpublish", "flags", "sources", "account", "parked", "link"}
Symmetric == Permutations({ann, ben}) \cup Permutations(Handlers)

Scenarios ==
    {[ops |-> {"transfer", "adminTransfer", "leave", "publish", "unpublish", "chat"},
      grants |-> {"edit"}, late |-> FALSE, inFlight |-> 2],
     [ops |-> {"setRole", "remove", "subscribe", "flags", "publish", "unpublish"},
      grants |-> {"view"}, late |-> FALSE, inFlight |-> 1],
     [ops |-> {"leave", "bulk", "account", "parked", "link", "publish", "unpublish"},
      grants |-> {"view", "admin"}, late |-> TRUE, inFlight |-> 1],
     [ops |-> {"favorite", "remove", "leave", "bulk", "publish", "unpublish"},
      grants |-> {"view"}, late |-> TRUE, inFlight |-> 1],
     [ops |-> {"sources", "setRole", "publish", "unpublish"},
      grants |-> {"view"}, late |-> TRUE, inFlight |-> 1]}

Members(s) == INSTANCE KBMembers WITH
    Ops <- s.ops, Grants <- s.grants,
    Accounts <- IF s.late THEN {ann, root} ELSE Users

MCInit == \E s \in Scenarios : scenario = s /\ Members(s)!Init

MCNext == \E s \in Scenarios :
    /\ scenario = s
    /\ Members(s)!Next
    /\ Cardinality({h \in Handlers : req'[h] # Idle}) <= s.inFlight
    /\ UNCHANGED scenario

MCSpec == MCInit /\ [][MCNext]_<<vars, scenario>>
=============================================================================
