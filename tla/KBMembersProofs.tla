-------------------------- MODULE KBMembersProofs --------------------------
(***************************************************************************)
(* For any users, system roles, handlers and operations: the variables of  *)
(* KBMembers keep their types, a private knowledge base has exactly one    *)
(* owner, and knowledge_bases.user_id names it.                            *)
(***************************************************************************)
EXTENDS KBMembers, TLAPS

\* The statements of the transactions return role tables.
LEMMA StatementTypes ==
    ASSUME NEW r \in [Users -> MemberRoles], NEW u \in Users, NEW g \in MemberRoles
    PROVE  /\ DemoteOwner(r) \in [Users -> MemberRoles]
           /\ Promoted(r, u) \in [Users -> MemberRoles]
           /\ Granted(r, u, g) \in [Users -> MemberRoles]
BY DEF DemoteOwner, Promoted, Granted, MemberRoles, Roles, Assignable, NoRole

\* What they do to the owner: a promotion leaves exactly one, a demotion none,
\* a grant of anything but ownership the same.
LEMMA StatementOwners ==
    ASSUME NEW r \in [Users -> MemberRoles], NEW u \in Users, NEW g \in MemberRoles \ {"owner"},
           NEW v \in Users
    PROVE  /\ DemoteOwner(r)[v] # "owner"
           /\ Promoted(r, u)[v] = "owner" <=> v = u
           /\ Granted(r, u, g)[v] = "owner" <=> r[v] = "owner"
BY DEF DemoteOwner, Promoted, Granted, MemberRoles, Roles, Assignable, NoRole

\* A step of a handler leaves every handler a request or nothing.
LEMMA RequestTypes ==
    ASSUME TypeOK, NEW h \in Handlers
    PROVE  /\ Done(h) => req' \in [Handlers -> Requests]
           /\ \A stage \in {"absent", "checked"} :
                 req[h] # Idle /\ Goto(h, stage) => req' \in [Handlers -> Requests]
           /\ req[h] # Idle => /\ req[h].by \in Users /\ req[h].target \in Users
                               /\ req[h].role \in Assignable /\ req[h].op \in RequestOps
BY DEF TypeOK, Done, Goto, Requests, Idle

LEMMA InitTypes == Init => TypeOK
<1>. SUFFICES ASSUME Init PROVE TypeOK
  OBVIOUS
<1>1. PICK u \in Accounts :
         \/ /\ kb = [public |-> FALSE, published |-> TRUE, auto |-> FALSE, ownerId |-> u,
                   flags |-> EditorFlags]
            /\ role = [v \in Users |-> IF v = u THEN "owner" ELSE NoRole]
         \/ /\ kb = [public |-> TRUE, published |-> TRUE, auto |-> FALSE, ownerId |-> Nobody,
                   flags |-> EditorFlags]
            /\ role = [v \in Users |-> IF v = u THEN "admin" ELSE NoRole]
  BY DEF Init
<1>2. u \in Users
  BY MembersAssumption DEF MembersAssumption
<1>3. role \in [Users -> MemberRoles]
  BY <1>1 DEF MemberRoles, Roles, Assignable, NoRole
<1>4. kb \in [public : BOOLEAN, published : BOOLEAN, auto : BOOLEAN, ownerId : Users \cup {Nobody},
             flags : SUBSET Flags]
  <2>0. EditorFlags \in SUBSET Flags
    BY DEF EditorFlags, Flags
  <2>1. CASE kb = [public |-> FALSE, published |-> TRUE, auto |-> FALSE, ownerId |-> u,
                   flags |-> EditorFlags]
    BY <2>0, <2>1, <1>2
  <2>2. CASE kb = [public |-> TRUE, published |-> TRUE, auto |-> FALSE, ownerId |-> Nobody,
                   flags |-> EditorFlags]
    BY <2>0, <2>2
  <2>. QED BY <1>1, <2>1, <2>2
<1>5. /\ pending \in [Users -> MemberRoles \ {"owner"}]
      /\ link \in MemberRoles \ {"owner"}
  BY DEF Init, MemberRoles, Roles, Assignable, NoRole
<1>6. /\ req \in [Handlers -> Requests]
      /\ sub \in [Users -> Subscriptions]
      /\ fav \subseteq Users /\ chats \subseteq Users /\ account \subseteq Users
  BY MembersAssumption DEF Init, MembersAssumption, Requests, Subscriptions
<1>. QED BY <1>3, <1>4, <1>5, <1>6 DEF TypeOK

LEMMA HandlerTypes ==
    ASSUME TypeOK, NEW h \in Handlers, HandlerStep(h)
    PROVE  TypeOK'
<1>a. /\ req[h] # Idle => /\ req[h].by \in Users /\ req[h].target \in Users
                          /\ req[h].role \in MemberRoles
      /\ role \in [Users -> MemberRoles]
  BY RequestTypes DEF TypeOK, MemberRoles, Roles
<1>1. CASE BeginSome(h)
  <2>1. PICK op \in Ops \cap RequestOps, u \in Users, target \in Users, r \in Grants :
            Begin(h, op, u, target, r)
    BY <1>1 DEF BeginSome
  <2>2. r \in Assignable
    BY MembersAssumption DEF MembersAssumption
  <2>3. [op |-> op, by |-> u, target |-> target, role |-> r, stage |-> "gate"] \in Requests
    BY <2>2 DEF Requests
  <2>. QED BY <2>1, <2>3 DEF Begin, TypeOK, memberVars, inviteVars
<1>2. CASE Abort(h)
  BY <1>2, RequestTypes DEF Abort, TypeOK, memberVars, inviteVars
<1>3. CASE SetRole(h) \/ BulkGrant(h)
  <2>1. req[h] # Idle /\ Done(h) /\ role' = Granted(role, req[h].target, req[h].role)
    BY <1>3 DEF SetRole, BulkGrant, Stage
  <2>2. role' \in [Users -> MemberRoles]
    BY <1>a, <2>1, StatementTypes
  <2>3. req' \in [Handlers -> Requests]
    BY <2>1, RequestTypes
  <2>. QED BY <1>3, <2>2, <2>3 DEF SetRole, BulkGrant, TypeOK, inviteVars
<1>4. CASE RemoveMember(h)
  BY <1>4, <1>a, RequestTypes
  DEF RemoveMember, Stage, TypeOK, inviteVars, FiltersAfterLoss, MemberRoles
<1>5. CASE CheckTarget(h)
  BY <1>5, RequestTypes DEF CheckTarget, Stage, TypeOK, memberVars, inviteVars
<1>6. CASE TransferOwner(h)
  BY <1>6, <1>a, RequestTypes, StatementTypes DEF TransferOwner, Stage, TypeOK, inviteVars
<1>7. CASE LeaveKB(h)
  BY <1>7, <1>a, RequestTypes
  DEF LeaveKB, Stage, TypeOK, inviteVars, FiltersAfterLoss, MemberRoles, Subscriptions
<1>8. CASE LookupInvitee(h)
  BY <1>8, RequestTypes DEF LookupInvitee, Stage, TypeOK, memberVars, inviteVars
<1>9. CASE ParkInvite(h)
  <2>1. req[h] # Idle /\ req[h].role \in MemberRoles \ {"owner"}
    BY <1>9, RequestTypes DEF ParkInvite, Stage, Assignable, MemberRoles, Roles
  <2>. QED BY <1>9, <2>1, RequestTypes DEF ParkInvite, TypeOK, memberVars
<1>10. CASE SetFavorite(h)
  BY <1>10, <1>a, RequestTypes DEF SetFavorite, Stage, TypeOK, inviteVars
<1>11. CASE SetSubscription(h)
  BY <1>11, <1>a, RequestTypes DEF SetSubscription, Stage, TypeOK, inviteVars, Subscriptions
<1>12. CASE CreateChat(h)
  BY <1>12, <1>a, RequestTypes DEF CreateChat, Stage, TypeOK, inviteVars
<1>. QED
  BY <1>1, <1>2, <1>3, <1>4, <1>5, <1>6, <1>7, <1>8, <1>9, <1>10, <1>11, <1>12 DEF HandlerStep

LEMMA OperatorTypes ==
    ASSUME TypeOK, Publish \/ SetCatalogFlags \/ DeleteLink \/ \E u \in Users : Unpublish(u)
    PROVE  TypeOK'
<1>1. CASE Publish
  BY <1>1, StatementTypes DEF Publish, TypeOK, inviteVars, DemoteOwner, MemberRoles, Roles, Assignable, NoRole
<1>2. CASE SetCatalogFlags
  BY <1>2 DEF SetCatalogFlags, TypeOK, inviteVars
<1>3. CASE DeleteLink
  BY <1>3 DEF DeleteLink, TypeOK, memberVars, MemberRoles, Roles, Assignable, NoRole
<1>4. ASSUME NEW u \in Users, Unpublish(u) PROVE TypeOK'
  <2>1. role' \in [Users -> MemberRoles]
    BY <1>4, StatementTypes DEF Unpublish, TypeOK, MemberRoles
  <2>. QED BY <1>4, <2>1 DEF Unpublish, TypeOK, inviteVars, Subscriptions
<1>. QED BY <1>1, <1>2, <1>3, <1>4

LEMMA PersonTypes ==
    ASSUME TypeOK, NEW u \in Users,
           CreateAccount(u) \/ ApplyPendingInvites(u) \/ RevokePendingInvite(u) \/ Redeem(u)
    PROVE  TypeOK'
<1>1. CASE CreateAccount(u)
  BY <1>1 DEF CreateAccount, TypeOK, memberVars
<1>2. CASE ApplyPendingInvites(u)
  <2>1. Granted(role, u, pending[u]) \in [Users -> MemberRoles]
    BY StatementTypes DEF TypeOK
  <2>. QED BY <1>2, <2>1 DEF ApplyPendingInvites, TypeOK, MemberRoles, Roles, Assignable, NoRole
<1>3. CASE RevokePendingInvite(u)
  BY <1>3 DEF RevokePendingInvite, TypeOK, memberVars, MemberRoles, Roles, Assignable, NoRole
<1>4. CASE Redeem(u)
  <2>1. Granted(role, u, link) \in [Users -> MemberRoles]
    BY StatementTypes DEF TypeOK
  <2>. QED BY <1>4, <2>1 DEF Redeem, TypeOK, inviteVars, Subscriptions
<1>. QED BY <1>1, <1>2, <1>3, <1>4

LEMMA NextTypes == TypeOK /\ [Next]_vars => TypeOK'
<1>. SUFFICES ASSUME TypeOK, [Next]_vars PROVE TypeOK'
  OBVIOUS
<1>1. CASE UNCHANGED vars
  BY <1>1 DEF TypeOK, vars
<1>2. ASSUME NEW r \in Grants, CreateLink(r) PROVE TypeOK'
  BY <1>2, MembersAssumption
  DEF CreateLink, TypeOK, memberVars, MembersAssumption, MemberRoles, Roles, Assignable
<1>3. ASSUME NEW f \in Flags, SetSourceFlags(f) PROVE TypeOK'
  BY <1>3 DEF SetSourceFlags, TypeOK, inviteVars
<1>. QED BY <1>1, <1>2, <1>3, HandlerTypes, OperatorTypes, PersonTypes DEF Next

\* The variables keep their types.
THEOREM MembersTypeOK == Spec => []TypeOK
<1>. QED BY InitTypes, NextTypes, PTL DEF Spec
-----------------------------------------------------------------------------
(* The owner.  A step either leaves owner rows, user_id and visibility as   *)
(* they are, or makes one user the owner by promotion, or publishes.        *)

OwnerInv ==
    /\ MirrorNamesOwner
    /\ ~kb.public => kb.ownerId \in Users

OwnersKept ==
    /\ \A v \in Users : role'[v] = "owner" <=> role[v] = "owner"
    /\ kb'.ownerId = kb.ownerId
    /\ kb'.public = kb.public

OwnerMadeOf(u) ==
    /\ role' = Promoted(role, u)
    /\ kb'.ownerId = u
    /\ kb'.public \in {FALSE, kb.public}

Unowned ==
    /\ \A v \in Users : role'[v] # "owner"
    /\ kb'.ownerId = Nobody
    /\ kb'.public

LEMMA HandlerOwners ==
    ASSUME TypeOK, NEW h \in Handlers, HandlerStep(h)
    PROVE  OwnersKept \/ \E u \in Users : OwnerMadeOf(u)
<1>a. /\ req[h] # Idle => req[h].by \in Users /\ req[h].target \in Users /\ req[h].role \in Assignable
      /\ role \in [Users -> MemberRoles]
  BY RequestTypes DEF TypeOK
<1>1. CASE BeginSome(h) \/ Abort(h) \/ CheckTarget(h) \/ LookupInvitee(h) \/ ParkInvite(h)
           \/ SetFavorite(h) \/ SetSubscription(h) \/ CreateChat(h)
  BY <1>1 DEF BeginSome, Begin, Abort, CheckTarget, LookupInvitee, ParkInvite, SetFavorite,
              SetSubscription, CreateChat, memberVars, OwnersKept
<1>2. CASE SetRole(h) \/ BulkGrant(h)
  <2>1. /\ req[h] # Idle /\ UNCHANGED kb
        /\ role' = Granted(role, req[h].target, req[h].role)
    BY <1>2 DEF SetRole, BulkGrant, Stage
  <2>2. req[h].role \in MemberRoles \ {"owner"}
    BY <1>a, <2>1 DEF MemberRoles, Roles, Assignable
  <2>3. \A v \in Users : role'[v] = "owner" <=> role[v] = "owner"
    BY <1>a, <2>1, <2>2, StatementOwners
  <2>. QED BY <2>1, <2>3 DEF OwnersKept
<1>3. CASE RemoveMember(h)
  BY <1>3, <1>a DEF RemoveMember, Stage, OwnersKept, Assignable, NoRole
<1>4. CASE LeaveKB(h)
  BY <1>4, <1>a DEF LeaveKB, Stage, OwnersKept, Assignable, NoRole
<1>5. CASE TransferOwner(h)
  BY <1>5, <1>a DEF TransferOwner, Stage, OwnerMadeOf, TypeOK
<1>. QED
  BY <1>1, <1>2, <1>3, <1>4, <1>5 DEF HandlerStep

LEMMA OtherOwners ==
    ASSUME TypeOK, Next, ~\E h \in Handlers : HandlerStep(h)
    PROVE  OwnersKept \/ (Publish /\ Unowned) \/ \E u \in Users : OwnerMadeOf(u)
<1>1. CASE Publish
  <2>1. \A v \in Users : role'[v] # "owner"
    BY <1>1, StatementOwners DEF Publish, TypeOK
  <2>. QED BY <1>1, <2>1 DEF Publish, Unowned, TypeOK
<1>2. CASE SetCatalogFlags \/ DeleteLink
  BY <1>2 DEF SetCatalogFlags, DeleteLink, memberVars, OwnersKept, TypeOK
<1>3. ASSUME NEW u \in Users, Unpublish(u) PROVE OwnerMadeOf(u)
  BY <1>3 DEF Unpublish, OwnerMadeOf
<1>4. ASSUME NEW u \in Users, CreateAccount(u) \/ RevokePendingInvite(u)
      PROVE  OwnersKept
  BY <1>4 DEF CreateAccount, RevokePendingInvite, memberVars, OwnersKept
<1>5. ASSUME NEW u \in Users, ApplyPendingInvites(u) PROVE OwnersKept
  <2>1. role' = Granted(role, u, pending[u]) /\ UNCHANGED kb
    BY <1>5 DEF ApplyPendingInvites
  <2>2. pending[u] \in MemberRoles \ {"owner"} /\ role \in [Users -> MemberRoles]
    BY DEF TypeOK
  <2>. QED BY <2>1, <2>2, StatementOwners DEF OwnersKept
<1>6. ASSUME NEW u \in Users, Redeem(u) PROVE OwnersKept
  <2>1. role' \in {role, Granted(role, u, link)} /\ UNCHANGED kb
    BY <1>6 DEF Redeem
  <2>2. link \in MemberRoles \ {"owner"} /\ role \in [Users -> MemberRoles]
    BY DEF TypeOK
  <2>. QED BY <2>1, <2>2, StatementOwners DEF OwnersKept
<1>7. ASSUME NEW r \in Grants, CreateLink(r) PROVE OwnersKept
  BY <1>7 DEF CreateLink, memberVars, OwnersKept
<1>8. ASSUME NEW f \in Flags, SetSourceFlags(f) PROVE OwnersKept
  BY <1>8 DEF SetSourceFlags, OwnersKept, TypeOK
<1>. QED BY <1>1, <1>2, <1>3, <1>4, <1>5, <1>6, <1>7, <1>8 DEF Next

LEMMA InitOwners == Init => OwnerInv
<1>. SUFFICES ASSUME Init PROVE OwnerInv
  OBVIOUS
<1>1. PICK u \in Accounts :
         \/ /\ kb = [public |-> FALSE, published |-> TRUE, auto |-> FALSE, ownerId |-> u,
                   flags |-> EditorFlags]
            /\ role = [v \in Users |-> IF v = u THEN "owner" ELSE NoRole]
         \/ /\ kb = [public |-> TRUE, published |-> TRUE, auto |-> FALSE, ownerId |-> Nobody,
                   flags |-> EditorFlags]
            /\ role = [v \in Users |-> IF v = u THEN "admin" ELSE NoRole]
  BY DEF Init
<1>2. u \in Users /\ Nobody \notin Users
  BY MembersAssumption DEF MembersAssumption
<1>. QED BY <1>1, <1>2 DEF OwnerInv, MirrorNamesOwner, NoRole

LEMMA NextOwners == TypeOK /\ OwnerInv /\ [Next]_vars => OwnerInv'
<1>. SUFFICES ASSUME TypeOK, OwnerInv, [Next]_vars PROVE OwnerInv'
  OBVIOUS
<1>1. CASE UNCHANGED vars
  BY <1>1 DEF OwnerInv, MirrorNamesOwner, vars
<1>2. CASE Next
  <2>1. OwnersKept \/ Unowned \/ \E u \in Users : OwnerMadeOf(u)
    BY <1>2, HandlerOwners, OtherOwners
  <2>2. CASE OwnersKept
    BY <2>2 DEF OwnersKept, OwnerInv, MirrorNamesOwner
  <2>3. CASE Unowned
    BY <2>3, MembersAssumption DEF Unowned, OwnerInv, MirrorNamesOwner, MembersAssumption
  <2>4. ASSUME NEW u \in Users, OwnerMadeOf(u) PROVE OwnerInv'
    <3>0. "admin" \in MemberRoles \ {"owner"}
      BY DEF MemberRoles, Roles, Assignable
    <3>1. \A v \in Users : role'[v] = "owner" <=> v = u
      BY <2>4, <3>0, StatementOwners DEF OwnerMadeOf, TypeOK
    <3>. QED BY <2>4, <3>1 DEF OwnerMadeOf, OwnerInv, MirrorNamesOwner
  <2>. QED BY <2>1, <2>2, <2>3, <2>4
<1>. QED BY <1>1, <1>2

LEMMA OwnerInvariant == Spec => [](TypeOK /\ OwnerInv)
<1>1. Init => TypeOK /\ OwnerInv
  BY InitTypes, InitOwners
<1>2. TypeOK /\ OwnerInv /\ [Next]_vars => TypeOK' /\ OwnerInv'
  BY NextTypes, NextOwners
<1>. QED BY <1>1, <1>2, PTL DEF Spec

\* A private knowledge base has exactly one owner, whatever requests race.
THEOREM PrivateKBsAreOwned == Spec => []PrivateHasOwner
<1>1. OwnerInv => PrivateHasOwner
  BY DEF OwnerInv, PrivateHasOwner, MirrorNamesOwner
<1>. QED BY <1>1, OwnerInvariant, PTL

\* knowledge_bases.user_id names the owner row and nobody else.
THEOREM MirrorIsExact == Spec => []MirrorNamesOwner
<1>1. OwnerInv => MirrorNamesOwner
  BY DEF OwnerInv
<1>. QED BY <1>1, OwnerInvariant, PTL

\* All three together, as the run checks them.
THEOREM MembersInvHolds == Spec => []MembersInv
<1>1. TypeOK /\ OwnerInv => MembersInv
  BY DEF MembersInv, OwnerInv, PrivateHasOwner, MirrorNamesOwner
<1>. QED BY <1>1, OwnerInvariant, PTL

\* Who stops being the owner is an admin from then on.
THEOREM ExOwnersStayAdmins == Spec => ExOwnerStaysAdmin
<1>1. TypeOK /\ [Next]_vars =>
        [\A u \in Users : role[u] = "owner" /\ role'[u] # "owner" => role'[u] = "admin"]_vars
  <2>. SUFFICES ASSUME TypeOK, Next, NEW u \in Users, role[u] = "owner", role'[u] # "owner"
                PROVE  role'[u] = "admin"
    OBVIOUS
  <2>1. CASE \E w \in Users : OwnerMadeOf(w)
    BY <2>1 DEF OwnerMadeOf, Promoted, DemoteOwner, TypeOK
  <2>2. CASE Publish
    BY <2>2 DEF Publish, DemoteOwner, TypeOK
  <2>3. ~OwnersKept
    BY DEF OwnersKept
  <2>. QED BY <2>1, <2>2, <2>3, HandlerOwners, OtherOwners
<1>. QED BY <1>1, MembersTypeOK, PTL DEF Spec, ExOwnerStaysAdmin

Admins == {u \in Users : role[u] = "admin"}

LEMMA InitImplements == Init => Ownership!Init
<1>. SUFFICES ASSUME Init PROVE Ownership!Init
  OBVIOUS
<1>1. PICK u \in Accounts :
         \/ /\ kb = [public |-> FALSE, published |-> TRUE, auto |-> FALSE, ownerId |-> u,
                   flags |-> EditorFlags]
            /\ role = [v \in Users |-> IF v = u THEN "owner" ELSE NoRole]
         \/ /\ kb = [public |-> TRUE, published |-> TRUE, auto |-> FALSE, ownerId |-> Nobody,
                   flags |-> EditorFlags]
            /\ role = [v \in Users |-> IF v = u THEN "admin" ELSE NoRole]
  BY DEF Init
<1>2. u \in Users
  BY MembersAssumption DEF MembersAssumption
<1>3. Admins = {} \/ Admins = {u}
  BY <1>1, <1>2 DEF Admins, NoRole
<1>4. CASE ~kb.public
  <2>1. Admins = {} /\ kb.ownerId = u
    BY <1>1, <1>4 DEF Admins, NoRole
  <2>. QED BY <1>2, <1>4, <2>1 DEF Ownership!Init, Admins
<1>5. CASE kb.public
  <2>1. Admins = {u} /\ kb.ownerId = Nobody
    BY <1>1, <1>2, <1>5 DEF Admins, NoRole
  <2>. QED BY <1>2, <1>5, <2>1 DEF Ownership!Init, Admins
<1>. QED BY <1>4, <1>5

\* A promotion and a demotion move the old owner to the administrators.
LEMMA AdminsAfter ==
    ASSUME TypeOK, OwnerInv, NEW u \in Users
    PROVE  /\ role' = Promoted(role, u) =>
                 Admins' = (Admins \cup ({kb.ownerId} \cap Users)) \ {u}
           /\ role' = DemoteOwner(role) =>
                 Admins' = (Admins \cup ({kb.ownerId} \cap Users)) \ {Nobody}
<1>1. Nobody \notin Users
  BY MembersAssumption DEF MembersAssumption
<1>2. ASSUME role' = Promoted(role, u), NEW v \in Users
      PROVE  role'[v] = "admin" <=> (role[v] \in {"admin", "owner"} /\ v # u)
  BY <1>2 DEF Promoted, DemoteOwner, TypeOK
<1>3. ASSUME role' = DemoteOwner(role), NEW v \in Users
      PROVE  role'[v] = "admin" <=> role[v] \in {"admin", "owner"}
  BY <1>3 DEF DemoteOwner, TypeOK
<1>. QED BY <1>1, <1>2, <1>3 DEF Admins, OwnerInv, MirrorNamesOwner

LEMMA NextImplements ==
    TypeOK /\ OwnerInv /\ [Next]_vars =>
        [Ownership!Next]_<<kb.ownerId, kb.public, Admins>>
<1>. SUFFICES ASSUME TypeOK, OwnerInv, [Next]_vars
              PROVE  Ownership!Next \/ UNCHANGED <<kb.ownerId, kb.public, Admins>>
  OBVIOUS
<1>1. CASE UNCHANGED vars
  BY <1>1 DEF vars, Admins
<1>2. CASE OwnersKept
  <2>1. Admins' \in SUBSET (Users \ {kb.ownerId})
    BY <1>2 DEF OwnersKept, Admins, OwnerInv, MirrorNamesOwner
  <2>2. Ownership!ChangeAdmins
    BY <1>2, <2>1 DEF Ownership!ChangeAdmins, OwnersKept, Admins
  <2>. QED BY <2>2 DEF Ownership!Next
<1>3. ASSUME NEW u \in Users, OwnerMadeOf(u) PROVE Ownership!Next
  <2>1. Ownership!StepsDownFor(u)
    BY <1>3, AdminsAfter DEF OwnerMadeOf, Ownership!StepsDownFor, Admins
  <2>2. kb.public \in BOOLEAN
    BY DEF TypeOK
  <2>3. Ownership!HandOver(u) \/ Ownership!Unpublish(u)
    BY <1>3, <2>1, <2>2 DEF OwnerMadeOf, Ownership!HandOver, Ownership!Unpublish
  <2>. QED BY <2>3 DEF Ownership!Next
<1>4. CASE Publish /\ Unowned
  <2>1. ~kb.public /\ kb'.public /\ kb'.ownerId = Nobody /\ role' = DemoteOwner(role)
    BY <1>4 DEF Publish, Unowned
  <2>2. PICK u \in Users : TRUE
    BY <1>4 DEF Publish
  <2>3. Ownership!StepsDownFor(Nobody)
    BY <2>1, <2>2, AdminsAfter DEF Ownership!StepsDownFor, Admins
  <2>4. Ownership!Publish
    BY <2>1, <2>3 DEF Ownership!Publish
  <2>. QED BY <2>4 DEF Ownership!Next
<1>. QED BY <1>1, <1>2, <1>3, <1>4, HandlerOwners, OtherOwners

\* The handlers, however they interleave, implement the promise about authority.
THEOREM AuthorityIsKept == Spec => KeepsAuthority
<1>1. Init => Ownership!Init
  BY InitImplements
<1>2. TypeOK /\ OwnerInv /\ [Next]_vars =>
          [Ownership!Next]_<<kb.ownerId, kb.public, {u \in Users : role[u] = "admin"}>>
  BY NextImplements DEF Admins
<1>. QED BY <1>1, <1>2, OwnerInvariant, PTL DEF Spec, Ownership!Spec, KeepsAuthority
-----------------------------------------------------------------------------
(* Access.  The ladder and its SQL copy are compared role by role; a list   *)
(* and a gate read the same row, so each state answers for itself.          *)

LEMMA Ranks ==
    /\ \A r \in MemberRoles : Rank(r) \in -1 .. 3
    /\ \A r \in MemberRoles : Rank(r) >= 0 <=> r # NoRole
    /\ \A r \in MemberRoles, q \in Roles : AtLeast(r, q) => r # NoRole
BY DEF MemberRoles, Roles, Assignable, NoRole, Rank, AtLeast

\* The CASE of the ladder decides, and an IF chain says the same (VisibleKBsCTE).
LEMMA LadderIsVisible ==
    ASSUME NEW k, k.public \in BOOLEAN, k.published \in BOOLEAN,
           NEW sys \in SysRoles, NEW member \in MemberRoles
    PROVE  /\ EffectiveRole(k, sys, member) = VisibleRole(k, sys, member)
           /\ EffectiveRole(k, sys, member) \in MemberRoles
BY DEF EffectiveRole, VisibleRole, MemberRoles, Roles, Assignable, NoRole, SysRoles

LEMMA SourcesAgree ==
    ASSUME NEW k, NEW granted \in MemberRoles
    PROVE  SeeSourcesSQL(k, granted) <=> "see" \in CapabilitiesFor(k, granted)
<1>1. CASE granted \in {"admin", "owner"}
  BY <1>1 DEF SeeSourcesSQL, CapabilitiesFor, Capabilities, AtLeast, Rank
<1>2. CASE granted = "edit"
  BY <1>2 DEF SeeSourcesSQL, CapabilitiesFor, Capabilities, AtLeast, Rank
<1>3. CASE granted = "view"
  BY <1>3 DEF SeeSourcesSQL, CapabilitiesFor, Capabilities, AtLeast, Rank
<1>4. CASE granted = NoRole
  BY <1>4 DEF SeeSourcesSQL, CapabilitiesFor, Capabilities, AtLeast, Rank, NoRole
<1>. QED BY <1>1, <1>2, <1>3, <1>4 DEF MemberRoles, Roles, Assignable

\* Whoever a list shows the KB to has a role on it, whatever their system role.
LEMMA ListedMayOpen ==
    ASSUME TypeOK, NEW u \in Users, NEW sys \in SysRoles, InMyList(u) \/ InOverview(u)
    PROVE  EffectiveRole(kb, sys, role[u]) # NoRole
<1>1. role[u] \in MemberRoles /\ kb.public \in BOOLEAN /\ kb.published \in BOOLEAN
  BY DEF TypeOK
<1>2. role[u] # NoRole \/ (kb.public /\ kb.published)
  BY DEF InMyList, InOverview
<1>3. VisibleRole(kb, sys, role[u]) # NoRole
  BY <1>1, <1>2 DEF VisibleRole, MemberRoles, Roles, Assignable, NoRole, SysRoles
<1>. QED BY <1>1, <1>3, LadderIsVisible

\* An ordinary user who may open the KB finds it in a list.
LEMMA OpenedIsListed ==
    ASSUME TypeOK, NEW u \in Users, EffectiveRole(kb, "user", role[u]) # NoRole
    PROVE  InMyList(u) \/ InCatalog(u)
<1>1. role[u] \in MemberRoles /\ kb.public \in BOOLEAN /\ kb.published \in BOOLEAN
  BY DEF TypeOK
<1>2. VisibleRole(kb, "user", role[u]) # NoRole
  BY <1>1, LadderIsVisible DEF SysRoles
<1>. QED BY <1>1, <1>2 DEF VisibleRole, InMyList, InCatalog, NoRole

LEMMA StrangersKeptOut ==
    ASSUME TypeOK, NEW u \in Users, NEW sys \in SysRoles \ {"superadmin"},
           ~Row.public, ~Row.shared, role[u] = NoRole
    PROVE  /\ ~RequireKBRole(Row, sys, role[u], "view")
           /\ ~RequireOperableKB(Row, sys, role[u])
           /\ ~RequireKBRoleOrOperable(Row, sys, role[u], "admin")
           /\ ~RequireAnalyticsAccess(Row, sys)
           /\ \A c \in Capabilities : ~RequireKBCapability(Row, sys, role[u], "view", c)
<1>1. EffectiveRole(Row, sys, role[u]) = NoRole
  <2>1. Row.public \in BOOLEAN /\ Row.published \in BOOLEAN /\ role[u] \in MemberRoles
    BY DEF TypeOK, Row
  <2>2. VisibleRole(Row, sys, role[u]) = NoRole
    BY DEF VisibleRole, NoRole
  <2>. QED BY <2>1, <2>2, LadderIsVisible
<1>2. ~AtLeast(NoRole, "view") /\ ~AtLeast(NoRole, "admin")
  BY DEF AtLeast, Rank, NoRole
<1>3. ~SystemAdminMayOperate(Row, role[u])
  BY DEF SystemAdminMayOperate, NoRole
<1>. QED BY <1>1, <1>2, <1>3
  DEF RequireKBRole, RequireOperableKB, RequireKBRoleOrOperable, RequireAnalyticsAccess,
      RequireKBCapability

\* Lists, SQL rules and gates agree in every state that can be reached.
THEOREM AccessIsOne == Spec => []AccessAgrees
<1>1. TypeOK => ListsAgree
  <2>1. TypeOK => account \subseteq Users
    BY DEF TypeOK
  <2>. QED BY <2>1, ListedMayOpen, OpenedIsListed DEF ListsAgree
<1>2. TypeOK => SQLMeansGo
  <2>. SUFFICES ASSUME TypeOK, NEW u \in Users, NEW sys \in SysRoles
                PROVE  LET granted == EffectiveRole(kb, sys, role[u]) IN
                       /\ VisibleRole(kb, sys, role[u]) = granted
                       /\ SeeSourcesSQL(kb, granted) <=> "see" \in CapabilitiesFor(kb, granted)
    BY DEF SQLMeansGo
  <2>1. role[u] \in MemberRoles /\ kb.public \in BOOLEAN /\ kb.published \in BOOLEAN
    BY DEF TypeOK
  <2>2. /\ EffectiveRole(kb, sys, role[u]) = VisibleRole(kb, sys, role[u])
        /\ EffectiveRole(kb, sys, role[u]) \in MemberRoles
    BY <2>1, LadderIsVisible
  <2>. QED BY <2>2, SourcesAgree
<1>3. TypeOK => PrivateStaysPrivate
  BY StrangersKeptOut DEF PrivateStaysPrivate
<1>. QED BY <1>1, <1>2, <1>3, MembersTypeOK, PTL DEF AccessAgrees
-----------------------------------------------------------------------------
(* What a single step may do.                                               *)

LEMMA ChatsStayBut ==
    ASSUME Next
    PROVE  chats \subseteq chats' \/ \E h \in Handlers : LeaveKB(h)
<1>1. ASSUME NEW h \in Handlers, HandlerStep(h) PROVE chats \subseteq chats' \/ LeaveKB(h)
  BY <1>1 DEF HandlerStep, BeginSome, Begin, Abort, SetRole, RemoveMember, CheckTarget,
              TransferOwner, LookupInvitee, ParkInvite, BulkGrant, SetFavorite, SetSubscription,
              CreateChat, memberVars
<1>2. Publish \/ SetCatalogFlags \/ DeleteLink => chats \subseteq chats'
  BY DEF Publish, SetCatalogFlags, DeleteLink, memberVars
<1>3. ASSUME NEW u \in Users,
             \/ Unpublish(u) \/ CreateAccount(u) \/ ApplyPendingInvites(u)
             \/ RevokePendingInvite(u) \/ Redeem(u)
      PROVE  chats \subseteq chats'
  BY <1>3 DEF Unpublish, CreateAccount, ApplyPendingInvites, RevokePendingInvite, Redeem,
         memberVars
<1>4. \A r \in Grants : CreateLink(r) => chats \subseteq chats'
  BY DEF CreateLink, memberVars
<1>5. \A f \in Flags : SetSourceFlags(f) => chats \subseteq chats'
  BY DEF SetSourceFlags
<1>. QED BY <1>1, <1>2, <1>3, <1>4, <1>5 DEF Next

\* A user's chats go only together with their membership.
THEOREM ChatsLeaveWithMembers == Spec => ChatsGoWithMembership
<1>1. TypeOK /\ [Next]_vars =>
        [\A u \in chats \ chats' :
            role[u] \in Assignable /\ role'[u] = NoRole /\ sub'[u] = "opted_out"]_vars
  <2>. SUFFICES ASSUME TypeOK, Next, NEW u \in chats \ chats'
                PROVE  role[u] \in Assignable /\ role'[u] = NoRole /\ sub'[u] = "opted_out"
    OBVIOUS
  <2>1. PICK h \in Handlers : LeaveKB(h)
    BY ChatsStayBut
  <2>2. req[h].by = u /\ role[u] \in Assignable
    BY <2>1 DEF LeaveKB
  <2>. QED BY <2>1, <2>2 DEF LeaveKB, TypeOK
<1>. QED BY <1>1, MembersTypeOK, PTL DEF Spec, ChatsGoWithMembership

\* Whoever redeems a link loses nothing by it and finds the KB in a list.
THEOREM RedeemersGain == Spec => RedeemRaisesAndShows
<1>1. TypeOK /\ [Next]_vars =>
        [\A u \in Users : Redeem(u) =>
            Rank(role'[u]) >= Rank(role[u]) /\ (InMyList(u) \/ InOverview(u))']_vars
  <2>. SUFFICES ASSUME TypeOK, NEW u \in Users, Redeem(u)
                PROVE  Rank(role'[u]) >= Rank(role[u]) /\ (InMyList(u) \/ InOverview(u))'
    OBVIOUS
  <2>1. /\ role[u] \in MemberRoles /\ link \in MemberRoles /\ link # NoRole
        /\ role' = IF Rank(role[u]) < Rank(link) THEN Granted(role, u, link) ELSE role
    BY DEF TypeOK, Redeem
  <2>2. role'[u] = IF Rank(role[u]) < Rank(link) /\ role[u] # "owner" THEN link ELSE role[u]
    BY <2>1 DEF Granted, TypeOK
  <2>3. Rank(role[u]) \in Int /\ Rank(link) \in Int /\ Rank(link) >= 0
    BY <2>1, Ranks
  <2>4. Rank(role'[u]) >= Rank(role[u]) /\ role'[u] # NoRole
    <3>1. CASE Rank(role[u]) < Rank(link) /\ role[u] # "owner"
      BY <2>1, <2>2, <2>3, <3>1
    <3>2. CASE role[u] = "owner"
      BY <2>2, <2>3, <3>2 DEF NoRole
    <3>3. CASE ~(Rank(role[u]) < Rank(link))
      BY <2>1, <2>2, <2>3, <3>3, Ranks
    <3>. QED BY <3>1, <3>2, <3>3
  <2>5. sub'[u] # "opted_out" /\ kb'.public \in BOOLEAN
    BY DEF Redeem, TypeOK
  <2>. QED BY <2>4, <2>5 DEF InMyList, InOverview
<1>. QED BY <1>1, MembersTypeOK, PTL DEF Spec, RedeemRaisesAndShows
=============================================================================
