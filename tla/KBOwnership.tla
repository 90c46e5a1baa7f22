---------------------------- MODULE KBOwnership ----------------------------
(***************************************************************************)
(* Authority over one knowledge base, as its users may rely on it: one     *)
(* owner while it is private, and an owner who steps down, by a transfer   *)
(* or a publication, is an administrator from that moment.  Everything     *)
(* else that happens to members changes the administrators only.           *)
(***************************************************************************)
CONSTANTS Users, Nobody

VARIABLES
    owner,     \* the owner, or Nobody
    public,    \* the KB belongs to the operators' public ones
    admins     \* those who administer it without owning it

Init ==
    \/ ~public /\ owner \in Users /\ admins = {}
    \/ public /\ owner = Nobody /\ \E u \in Users : admins = {u}

StepsDownFor(u) ==
    /\ owner' = u
    /\ admins' = (admins \cup ({owner} \cap Users)) \ {u}

HandOver(u) == StepsDownFor(u) /\ public' = public

Publish == ~public /\ public' /\ StepsDownFor(Nobody)

Unpublish(u) == public /\ ~public' /\ StepsDownFor(u)

ChangeAdmins ==
    /\ admins' \in SUBSET (Users \ {owner})
    /\ UNCHANGED <<owner, public>>

Next ==
    \/ \E u \in Users : HandOver(u) \/ Unpublish(u)
    \/ Publish
    \/ ChangeAdmins

Spec == Init /\ [][Next]_<<owner, public, admins>>
=============================================================================
