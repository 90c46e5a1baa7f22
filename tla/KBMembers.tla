----------------------------- MODULE KBMembers -----------------------------
(***************************************************************************)
(* Membership, ownership and visibility of one knowledge base: the         *)
(* kb_members rows and the handlers that change them (kbmembers),          *)
(* publishing and unpublishing (kbvisibility), invite links (kbinvites),   *)
(* parked invites (kb, authhandler), subscriptions (kbsubs) and topic      *)
(* filters (kbfilters).                                                    *)
(*                                                                         *)
(* Each database transaction is one step: its guarded statements lock the  *)
(* rows they test, so two that meet run one after the other, or one fails  *)
(* and is rolled back (Abort).  What is NOT atomic is a handler: it reads  *)
(* the caller's role in the route's middleware, perhaps reads again, and   *)
(* only then runs its transaction.  A request in flight is an entry of     *)
(* req; between its steps other requests run.                              *)
(***************************************************************************)
EXTENDS KBAccess

CONSTANTS
    Users,        \* people, with or without an account yet
    SysRole,      \* the system role of each of them
    Handlers,     \* request handlers that can be at work at once
    Accounts,     \* those with an account at the start
    Ops,          \* the operations this instance offers
    Grants,       \* the roles that role changes, invites and links hand out in it
    Nobody        \* knowledge_bases.user_id is NULL

\* The operations whose handler is more than its transaction.
RequestOps == {"setRole", "remove", "transfer", "adminTransfer", "leave",
               "bulk", "favorite", "subscribe", "chat"}

ASSUME MembersAssumption ==
    /\ SysRole \in [Users -> SysRoles]
    /\ Nobody \notin Users
    /\ Accounts \subseteq Users
    /\ Grants \subseteq Assignable
    /\ Ops \subseteq RequestOps \cup
          {"publish", "unpublish", "flags", "sources", "account", "parked", "link"}

VARIABLES
    role,      \* kb_members: the role of every user, NoRole without a row
    kb,        \* the knowledge_bases row: public, published, auto, ownerId, flags
    sub,       \* kb_subscriptions: "none", "subscribed" or "opted_out"
    fav,       \* the users with a favorite or category link on the KB
    chats,     \* the users with chats in the KB
    account,   \* the people who have a users row
    pending,   \* pending_kb_invites: the parked role, NoRole without a row
    link,      \* the role of the KB's invite link, NoRole without a link
    req        \* the request each handler works on

vars == <<role, kb, sub, fav, chats, account, pending, link, req>>
memberVars == <<role, kb, sub, fav, chats>>
inviteVars == <<account, pending, link>>

Idle == [op |-> "idle"]
Requests == {Idle} \cup
    [op : RequestOps, by : Users, target : Users, role : Assignable, stage : {"gate", "absent", "checked"}]

Subscriptions == {"none", "subscribed", "opted_out"}

TypeOK ==
    /\ role \in [Users -> MemberRoles]
    /\ kb \in [public : BOOLEAN, published : BOOLEAN, auto : BOOLEAN, ownerId : Users \cup {Nobody},
              flags : SUBSET Flags]
    /\ sub \in [Users -> Subscriptions]
    /\ fav \subseteq Users
    /\ chats \subseteq Users
    /\ account \subseteq Users
    /\ pending \in [Users -> MemberRoles \ {"owner"}]
    /\ link \in MemberRoles \ {"owner"}
    /\ req \in [Handlers -> Requests]

\* The caller's role as the middleware resolves it, now.
RoleOf(u) == EffectiveRole(kb, SysRole[u], role[u])

\* The route admits the caller: kbViewChain, kbAdminChain.
MayView(u) == u \in account /\ AtLeast(RoleOf(u), "view")
MayAdminister(u) == u \in account /\ AtLeast(RoleOf(u), "admin")
IsOperator(u) == u \in account /\ IsSystemAdmin(SysRole[u])

Offers(op) == op \in Ops

\* The defaults of migration 0089: editors may do everything, viewers nothing.
EditorFlags == {"editorSee", "editorAdd", "editorDownload", "editorCitations"}

\* POST /api/kb makes a private KB with its owner row, the admin page a public
\* one without owner whose creator is a KB admin; is_published defaults to true.
Init ==
    /\ account = Accounts
    /\ \E u \in account :
          \/ /\ kb = [public |-> FALSE, published |-> TRUE, auto |-> FALSE, ownerId |-> u,
                      flags |-> EditorFlags]
             /\ role = [v \in Users |-> IF v = u THEN "owner" ELSE NoRole]
          \/ /\ IsSystemAdmin(SysRole[u])
             /\ kb = [public |-> TRUE, published |-> TRUE, auto |-> FALSE, ownerId |-> Nobody,
                      flags |-> EditorFlags]
             /\ role = [v \in Users |-> IF v = u THEN "admin" ELSE NoRole]
    /\ sub = [u \in Users |-> "none"]
    /\ fav = {}
    /\ chats = {}
    /\ pending = [u \in Users |-> NoRole]
    /\ link = NoRole
    /\ req = [h \in Handlers |-> Idle]

-----------------------------------------------------------------------------
(* Statements the transactions are made of.                                *)

\* UPDATE ... SET role = 'admin' WHERE role = 'owner'
DemoteOwner(r) == [u \in Users |-> IF r[u] = "owner" THEN "admin" ELSE r[u]]

\* Mutant of Promoted: the new owner takes the row of the old one.
PromotedReplacing(r, u) ==
    [v \in Users |-> IF v = u THEN "owner" ELSE IF r[v] = "owner" THEN NoRole ELSE r[v]]

\* INSERT ... 'owner' ON CONFLICT DO UPDATE; the trigger then sets user_id.
Promoted(r, u) == [DemoteOwner(r) EXCEPT ![u] = "owner"]

\* The upsert of SetRole and ApplyPendingInvites: an owner row is not touched.
Granted(r, u, granted) == IF r[u] = "owner" THEN r ELSE [r EXCEPT ![u] = granted]

\* forgetFiltersIfUnreachable, after u's row is gone.
FiltersAfterLoss(u) ==
    IF EffectiveRole(kb, SysRole[u], NoRole) = NoRole THEN fav \ {u} ELSE fav

-----------------------------------------------------------------------------
(* Requests: the route's gate, the checks of the handler, the transaction. *)

Begin(h, op, u, target, r) ==
    /\ req[h] = Idle
    /\ req' = [req EXCEPT ![h] = [op |-> op, by |-> u, target |-> target,
                                  role |-> r, stage |-> "gate"]]
    /\ UNCHANGED <<memberVars, inviteVars>>

\* What a request of each kind must pass before its handler touches the store;
\* the operators' editor pages set the role admin and remove on any KB.
Admitted(op, u, target, r) ==
    CASE op = "setRole" -> /\ MayAdminister(u) \/ (IsOperator(u) /\ r = "admin")
                           /\ target \in account
      [] op = "remove" -> (MayAdminister(u) \/ IsOperator(u)) /\ target \in account
      [] op = "bulk" -> MayAdminister(u) /\ target # u
      [] op = "transfer" -> MayView(u) /\ RoleOf(u) = "owner" /\ ~kb.public
      [] op = "adminTransfer" -> /\ u \in account /\ SysRole[u] = "superadmin"
                                 /\ ~kb.public /\ kb.ownerId # target /\ target \in account
      [] op \in {"leave", "favorite", "chat"} -> MayView(u) /\ target = u
      [] op = "subscribe" -> MayView(u) /\ target = u /\ kb.public

\* Only setRole and bulk carry a role.
BeginSome(h) ==
    \E op \in Ops \cap RequestOps, u, target \in Users, r \in Grants :
        /\ Admitted(op, u, target, r)
        /\ op \notin {"setRole", "bulk"} => r = CHOOSE any \in Grants : TRUE
        /\ Begin(h, op, u, target, r)

Stage(h, op, stage) == req[h] # Idle /\ req[h].op = op /\ req[h].stage = stage
Done(h) == req' = [req EXCEPT ![h] = Idle]
Goto(h, stage) == req' = [req EXCEPT ![h].stage = stage]

\* The connection breaks, the caller goes away, or a statement fails (the
\* unique owner index, a deadlock): nothing of the request is kept.
Abort(h) ==
    /\ req[h] # Idle
    /\ Done(h)
    /\ UNCHANGED <<memberVars, inviteVars>>

SetRole(h) ==
    /\ Stage(h, "setRole", "gate")
    /\ role' = Granted(role, req[h].target, req[h].role)
    /\ Done(h)
    /\ UNCHANGED <<kb, sub, fav, chats, inviteVars>>

\* A row that is absent or the owner's answers 404 or 409.
RemoveMember(h) ==
    /\ Stage(h, "remove", "gate")
    /\ IF role[req[h].target] \in Assignable
       THEN /\ role' = [role EXCEPT ![req[h].target] = NoRole]
            /\ fav' = FiltersAfterLoss(req[h].target)
       ELSE UNCHANGED <<role, fav>>
    /\ Done(h)
    /\ UNCHANGED <<kb, sub, chats, inviteVars>>

\* The transfer endpoint reads the target's role before the transaction.
CheckTarget(h) ==
    /\ Stage(h, "transfer", "gate")
    /\ IF role[req[h].target] \in Assignable THEN Goto(h, "checked") ELSE Done(h)
    /\ UNCHANGED <<memberVars, inviteVars>>

\* Store.TransferOwner, behind either endpoint.
TransferOwner(h) ==
    /\ Stage(h, "transfer", "checked") \/ Stage(h, "adminTransfer", "gate")
    /\ role' = Promoted(role, req[h].target)
    /\ kb' = [kb EXCEPT !.ownerId = req[h].target]
    /\ Done(h)
    /\ UNCHANGED <<sub, fav, chats, inviteVars>>

\* Mutant of LeaveKB: the role is branched on after the chats are gone.
LeaveDeletingFirst(h) ==
    /\ Stage(h, "leave", "gate")
    /\ LET u == req[h].by IN
       /\ chats' = chats \ {u}
       /\ IF role[u] \in Assignable
          THEN /\ role' = [role EXCEPT ![u] = NoRole]
               /\ fav' = FiltersAfterLoss(u)
               /\ sub' = [sub EXCEPT ![u] = "opted_out"]
          ELSE UNCHANGED <<role, fav, sub>>
    /\ Done(h)
    /\ UNCHANGED <<kb, inviteVars>>

LeaveKB(h) ==
    /\ Stage(h, "leave", "gate")
    /\ LET u == req[h].by IN
       IF role[u] \in Assignable
       THEN /\ role' = [role EXCEPT ![u] = NoRole]
            /\ chats' = chats \ {u}
            /\ fav' = FiltersAfterLoss(u)
            /\ sub' = [sub EXCEPT ![u] = "opted_out"]
       ELSE UNCHANGED <<role, chats, fav, sub>>
    /\ Done(h)
    /\ UNCHANGED <<kb, inviteVars>>

\* GetUserIDByUsername and, for a known user, GetRole.
LookupInvitee(h) ==
    /\ Stage(h, "bulk", "gate")
    /\ CASE req[h].target \notin account -> Goto(h, "absent")
         [] req[h].target \in account /\ role[req[h].target] # NoRole -> Done(h)
         [] OTHER -> Goto(h, "checked")
    /\ UNCHANGED <<memberVars, inviteVars>>

\* UpsertPendingInvite
ParkInvite(h) ==
    /\ Stage(h, "bulk", "absent")
    /\ pending' = [pending EXCEPT ![req[h].target] = req[h].role]
    /\ Done(h)
    /\ UNCHANGED <<memberVars, account, link>>

BulkGrant(h) ==
    /\ Stage(h, "bulk", "checked")
    /\ role' = Granted(role, req[h].target, req[h].role)
    /\ Done(h)
    /\ UNCHANGED <<kb, sub, fav, chats, inviteVars>>

\* PUT and DELETE of the star (and of a category link).
SetFavorite(h) ==
    /\ Stage(h, "favorite", "gate")
    /\ fav' \in {fav \cup {req[h].by}, fav \ {req[h].by}}
    /\ Done(h)
    /\ UNCHANGED <<role, kb, sub, chats, inviteVars>>

SetSubscription(h) ==
    /\ Stage(h, "subscribe", "gate")
    /\ \E state \in {"subscribed", "opted_out"} : sub' = [sub EXCEPT ![req[h].by] = state]
    /\ Done(h)
    /\ UNCHANGED <<role, kb, fav, chats, inviteVars>>

\* The first turn of a chat; its caller may have left since the gate.
CreateChat(h) ==
    /\ Stage(h, "chat", "gate")
    /\ chats' = chats \cup {req[h].by}
    /\ Done(h)
    /\ UNCHANGED <<role, kb, sub, fav, inviteVars>>

HandlerStep(h) ==
    \/ BeginSome(h) \/ Abort(h)
    \/ SetRole(h) \/ RemoveMember(h) \/ CheckTarget(h) \/ TransferOwner(h) \/ LeaveKB(h)
    \/ LookupInvitee(h) \/ ParkInvite(h) \/ BulkGrant(h)
    \/ SetFavorite(h) \/ SetSubscription(h) \/ CreateChat(h)

-----------------------------------------------------------------------------
(* Handlers that are one transaction with nothing checked before it that   *)
(* the transaction does not check itself.                                  *)

\* Mutant of Publish: user_id is left to the trigger, which does not fire.
PublishLeavingMirror ==
    /\ Offers("publish")
    /\ \E u \in Users : IsOperator(u)
    /\ ~kb.public
    /\ role' = DemoteOwner(role)
    /\ kb' = [kb EXCEPT !.public = TRUE, !.published = FALSE]
    /\ UNCHANGED <<sub, fav, chats, inviteVars, req>>

Publish ==
    /\ Offers("publish")
    /\ \E u \in Users : IsOperator(u)
    /\ ~kb.public
    /\ role' = DemoteOwner(role)
    /\ kb' = [kb EXCEPT !.public = TRUE, !.published = FALSE, !.ownerId = Nobody]
    /\ UNCHANGED <<sub, fav, chats, inviteVars, req>>

Unpublish(newOwner) ==
    /\ Offers("unpublish")
    /\ \E u \in Users : IsOperator(u)
    /\ newOwner \in account
    /\ kb.public
    /\ role' = Promoted(role, newOwner)
    /\ kb' = [kb EXCEPT !.public = FALSE, !.published = FALSE, !.auto = FALSE, !.ownerId = newOwner]
    /\ sub' = [u \in Users |-> "none"]
    /\ fav' = {u \in fav : role'[u] # NoRole \/ SysRole[u] = "superadmin"}
    /\ UNCHANGED <<chats, inviteVars, req>>

\* UpdateKnowledgeBase (PATCH by a KB admin) and UpdateGlobalKB (by an operator).
SetCatalogFlags ==
    /\ Offers("flags")
    /\ \/ /\ \E u \in Users : MayAdminister(u) \/ (IsOperator(u) /\ kb.public)
          /\ kb' = [kb EXCEPT !.published = ~@]
       \/ /\ \E u \in Users : IsOperator(u)
          /\ kb.public
          /\ kb' = [kb EXCEPT !.auto = ~@]
    /\ UNCHANGED <<role, sub, fav, chats, inviteVars, req>>

\* The same PATCH: what viewers and editors may do with the sources.
SetSourceFlags(f) ==
    /\ Offers("sources")
    /\ \E u \in Users : MayAdminister(u)
    /\ kb' = [kb EXCEPT !.flags = IF f \in @ THEN @ \ {f} ELSE @ \cup {f}]
    /\ UNCHANGED <<role, sub, fav, chats, inviteVars, req>>

\* An account appears at the first login of a user of the directory or of OIDC.
CreateAccount(u) ==
    /\ Offers("account")
    /\ account' = account \cup {u}
    /\ UNCHANGED <<memberVars, pending, link, req>>

\* Every login: the parked invite becomes a row, in one statement.
ApplyPendingInvites(u) ==
    /\ Offers("parked")
    /\ u \in account
    /\ pending[u] # NoRole
    /\ pending' = [pending EXCEPT ![u] = NoRole]
    /\ role' = Granted(role, u, pending[u])
    /\ UNCHANGED <<kb, sub, fav, chats, account, link, req>>

RevokePendingInvite(u) ==
    /\ Offers("parked")
    /\ \E v \in Users : MayAdminister(v)
    /\ pending[u] # NoRole
    /\ pending' = [pending EXCEPT ![u] = NoRole]
    /\ UNCHANGED <<memberVars, account, link, req>>

CreateLink(r) ==
    /\ Offers("link")
    /\ \E u \in Users : MayAdminister(u)
    /\ link = NoRole
    /\ link' = r
    /\ UNCHANGED <<memberVars, account, pending, req>>

DeleteLink ==
    /\ Offers("link")
    /\ \E u \in Users : MayAdminister(u)
    /\ link # NoRole
    /\ link' = NoRole
    /\ UNCHANGED <<memberVars, account, pending, req>>

\* Mutant of Redeem: the role of the link replaces any other but the owner's.
RedeemReplacing(u) ==
    /\ Offers("link")
    /\ u \in account
    /\ link # NoRole
    /\ role' = Granted(role, u, link)
    /\ sub' = IF sub[u] = "opted_out" THEN [sub EXCEPT ![u] = "none"] ELSE sub
    /\ UNCHANGED <<kb, fav, chats, inviteVars, req>>

\* The upsert raises a lower rank only; a stale opt-out goes.
Redeem(u) ==
    /\ Offers("link")
    /\ u \in account
    /\ link # NoRole
    /\ role' = IF Rank(role[u]) < Rank(link) THEN Granted(role, u, link) ELSE role
    /\ sub' = IF sub[u] = "opted_out" THEN [sub EXCEPT ![u] = "none"] ELSE sub
    /\ UNCHANGED <<kb, fav, chats, inviteVars, req>>

Next ==
    \/ \E h \in Handlers : HandlerStep(h)
    \/ Publish \/ SetCatalogFlags \/ DeleteLink
    \/ \E u \in Users : \/ Unpublish(u) \/ CreateAccount(u)
                        \/ ApplyPendingInvites(u) \/ RevokePendingInvite(u) \/ Redeem(u)
    \/ \E r \in Grants : CreateLink(r)
    \/ \E f \in Flags : SetSourceFlags(f)

Spec == Init /\ [][Next]_vars
-----------------------------------------------------------------------------
(* The lists a user finds the KB in: ListKnowledgeBases, the overview of   *)
(* public KBs (ListGlobalKnowledgeBases) and the catalog (kbsubs.Catalog). *)

InMyList(u) == ~kb.public /\ role[u] # NoRole

InOverview(u) ==
    /\ kb.public
    /\ sub[u] # "opted_out"
    /\ \/ role[u] # NoRole
       \/ kb.published /\ (sub[u] = "subscribed" \/ kb.auto)

InCatalog(u) == kb.public /\ (kb.published \/ role[u] # NoRole)

-----------------------------------------------------------------------------
(* Properties.                                                             *)

\* A private knowledge base has exactly one owner, whatever transfers, leaves,
\* removals, role changes, logins and publications run at the same time.
PrivateHasOwner ==
    ~kb.public => \E u \in Users : \A v \in Users : role[v] = "owner" <=> v = u

\* knowledge_bases.user_id, which about forty queries and the deletion of a user
\* read, names the owner row, and nobody when there is none.
MirrorNamesOwner == \A u \in Users : kb.ownerId = u <=> role[u] = "owner"

\* In every well-typed state, exactly one owner, and the mirror of it.
MembersInv == TypeOK /\ PrivateHasOwner /\ MirrorNamesOwner

Ownership == INSTANCE KBOwnership WITH
    owner <- kb.ownerId, public <- kb.public, admins <- {u \in Users : role[u] = "admin"}

\* The tables implement the promise about authority (KBOwnership): whatever
\* requests race, ownership moves in one step, and never past its holder's back.
KeepsAuthority == Ownership!Spec

\* The lists (SQL) and the gates (Go) agree, whatever the system role: a list
\* shows the KB only to users whose requests on it are admitted, and an ordinary
\* user who may open it finds it in a list, opted out or not.
ListsAgree ==
    \A u \in account :
        /\ InMyList(u) \/ InOverview(u) =>
              \A sys \in SysRoles : EffectiveRole(kb, sys, role[u]) # NoRole
        /\ EffectiveRole(kb, "user", role[u]) # NoRole => InMyList(u) \/ InCatalog(u)

\* The row-filtering queries (VisibleKBsCTE, SeeSourcesSQL) give every caller
\* the role and the sources the Go ladder and its capability table do.
SQLMeansGo ==
    \A u \in Users, sys \in SysRoles :
        LET granted == EffectiveRole(kb, sys, role[u]) IN
        /\ VisibleRole(kb, sys, role[u]) = granted
        /\ SeeSourcesSQL(kb, granted) <=> "see" \in CapabilitiesFor(kb, granted)

\* SharedSQL: a member other than the owner exists.
Row == [public |-> kb.public, published |-> kb.published, flags |-> kb.flags,
        shared |-> \E u \in Users : role[u] \in Assignable]

\* A private KB nobody shares is its owner's and the superadmins' alone: no
\* gate admits anyone else, a system administrator included.
PrivateStaysPrivate ==
    \A u \in Users, sys \in SysRoles \ {"superadmin"} :
        ~Row.public /\ ~Row.shared /\ role[u] = NoRole =>
            /\ ~RequireKBRole(Row, sys, role[u], "view")
            /\ ~RequireOperableKB(Row, sys, role[u])
            /\ ~RequireKBRoleOrOperable(Row, sys, role[u], "admin")
            /\ ~RequireAnalyticsAccess(Row, sys)
            /\ \A c \in Capabilities : ~RequireKBCapability(Row, sys, role[u], "view", c)

\* The lists, the SQL rules and the Go gates give one answer to the question who
\* sees a knowledge base and its sources (ListsAgree, SQLMeansGo), and none of the
\* gates lets a stranger into a private one (PrivateStaysPrivate).
AccessAgrees == ListsAgree /\ SQLMeansGo /\ PrivateStaysPrivate

\* A user's chats are deleted only together with a membership of theirs, and
\* the KB is then off their overview; a refused leave destroys nothing.
ChatsGoWithMembership ==
    [][\A u \in chats \ chats' :
          role[u] \in Assignable /\ role'[u] = NoRole /\ sub'[u] = "opted_out"]_vars

\* Nobody who could administer the KB is left without access by a transfer or
\* a publication: the owner who steps down is an admin afterwards.
ExOwnerStaysAdmin ==
    [][\A u \in Users : role[u] = "owner" /\ role'[u] # "owner" => role'[u] = "admin"]_vars

\* Whoever redeems a link loses nothing by it and finds the KB in a list right
\* away, even after having opted out of it.
RedeemRaisesAndShows ==
    [][\A u \in Users : Redeem(u) =>
          Rank(role'[u]) >= Rank(role[u]) /\ (InMyList(u) \/ InOverview(u))']_vars

\* What the comment on the transfer endpoint promises: "The target must already
\* be a member" of the KB it becomes the owner of; "checked here, in the handler,
\* rather than by changing the store's contract".
NewOwnersAreMembers ==
    [][\A h \in Handlers :
          TransferOwner(h) /\ req[h].op = "transfer" => role[req[h].target] # NoRole]_vars
=============================================================================
