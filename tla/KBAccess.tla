------------------------------ MODULE KBAccess ------------------------------
(***************************************************************************)
(* Who may do what on one knowledge base (internal/kbaccess): the ladder   *)
(* that resolves a caller's role, the capabilities a role carries, the     *)
(* route gates built from them, and the SQL renderings of ladder and       *)
(* capabilities that row-filtering queries use instead of the Go code.     *)
(*                                                                         *)
(* A knowledge base is a record with the fields                            *)
(*   public, published   visibility = 'public', is_published               *)
(*   shared              a member other than the owner exists              *)
(*   flags               the set of source-permission columns that are on  *)
(* and a caller is a system role and a kb_members role (NoRole: no row).   *)
(***************************************************************************)
EXTENDS Integers, FiniteSets

NoRole == "none"
Assignable == {"view", "edit", "admin"}
Roles == Assignable \cup {"owner"}
MemberRoles == Roles \cup {NoRole}
SysRoles == {"user", "api-user", "admin", "superadmin"}

\* The seven boolean columns of migration 0089.
Flags == {"viewerSee", "viewerDownload", "viewerCitations",
          "editorSee", "editorAdd", "editorDownload", "editorCitations"}
Capabilities == {"see", "add", "download", "citations", "manage"}

Rank(role) == [none |-> -1, view |-> 0, edit |-> 1, admin |-> 2, owner |-> 3][role]

\* An unknown value on either side never satisfies a gate.
AtLeast(granted, required) ==
    /\ Rank(granted) >= 0
    /\ Rank(required) >= 0
    /\ Rank(granted) >= Rank(required)

IsSystemAdmin(sys) == sys \in {"admin", "superadmin"}

\* The five-rule ladder; a membership row comes before the implicit roles.
EffectiveRole(kb, sys, member) ==
    CASE sys = "superadmin"                  -> "owner"
      [] sys # "superadmin" /\ member \in Roles -> member
      [] sys = "admin" /\ member \notin Roles /\ kb.public -> "admin"
      [] sys \notin {"admin", "superadmin"} /\ member \notin Roles
         /\ kb.public /\ kb.published        -> "view"
      [] OTHER                               -> NoRole

CapabilitiesFor(kb, role) ==
    LET On(flag) == flag \in kb.flags
        Of(see, add, download, citations, manage) ==
            {c \in Capabilities :
                \/ c = "see" /\ see
                \/ c = "citations" /\ citations
                \/ c = "download" /\ see /\ download
                \/ c = "add" /\ see /\ add
                \/ c = "manage" /\ see /\ manage}
    IN  CASE AtLeast(role, "admin") -> Capabilities
          [] role = "edit" -> Of(On("editorSee"), On("editorAdd"), On("editorDownload"),
                                 On("editorCitations"), TRUE)
          [] role = "view" -> Of(On("viewerSee"), FALSE, On("viewerDownload"),
                                 On("viewerCitations"), FALSE)
          [] OTHER -> {}

-----------------------------------------------------------------------------
(* The gates of the routes (kbViewChain, kbAdminChain, kbAdvancedChain,    *)
(* the capability chains and the analytics chain).                         *)

RequireKBRole(kb, sys, member, required) ==
    AtLeast(EffectiveRole(kb, sys, member), required)

SystemAdminMayOperate(kb, member) == kb.public \/ kb.shared \/ member = "owner"

RequireOperableKB(kb, sys, member) ==
    IsSystemAdmin(sys) /\ SystemAdminMayOperate(kb, member)

RequireKBRoleOrOperable(kb, sys, member, required) ==
    RequireKBRole(kb, sys, member, required) \/ RequireOperableKB(kb, sys, member)

RequireKBCapability(kb, sys, member, required, capability) ==
    /\ RequireKBRole(kb, sys, member, required)
    /\ capability \in CapabilitiesFor(kb, EffectiveRole(kb, sys, member))

RequireAnalyticsAccess(kb, sys) == kb.public /\ IsSystemAdmin(sys)

-----------------------------------------------------------------------------
(* The SQL copies: column role of VisibleKBsCTE (its CASE takes the first  *)
(* WHEN that holds), and SeeSourcesSQL over that column.                   *)

VisibleRole(kb, sys, member) ==
    IF sys = "superadmin" THEN "owner"
    ELSE IF member \in {"view", "edit", "admin", "owner"} THEN member
    ELSE IF kb.public /\ sys = "admin" THEN "admin"
    ELSE IF kb.public /\ kb.published THEN "view"
    ELSE NoRole

\* Mutant of SeeSourcesSQL: the two columns are swapped.
SeeSourcesSwapped(kb, visible) ==
    \/ visible \in {"admin", "owner"}
    \/ visible = "edit" /\ "viewerSee" \in kb.flags
    \/ visible = "view" /\ "editorSee" \in kb.flags

SeeSourcesSQL(kb, visible) ==
    \/ visible \in {"admin", "owner"}
    \/ visible = "edit" /\ "editorSee" \in kb.flags
    \/ visible = "view" /\ "viewerSee" \in kb.flags
=============================================================================
