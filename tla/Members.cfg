SPECIFICATION MCSpec
SYMMETRY Symmetric
INVARIANTS
    MembersInv
    AccessAgrees
PROPERTIES
    KeepsAuthority
    ChatsGoWithMembership
    RedeemRaisesAndShows
CONSTANTS
    ann = ann
    ben = ben
    root = root
    Nobody = Nobody
    Users <- MCUsers
    SysRole <- MCSysRole
    Accounts <- MCUsers
    Handlers = {h1, h2}
    Ops <- MCOps
    Grants = {"view", "edit", "admin"}
