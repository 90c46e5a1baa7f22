\* A transfer to a user who left after the handler's check.
SPECIFICATION MCSpec
PROPERTY NewOwnersAreMembers
CONSTANTS
    ann = ann
    ben = ben
    root = root
    Nobody = Nobody
    Users <- MCUsers
    SysRole <- MCSysRole
    Accounts <- MCUsers
    Handlers = {h1, h2}
    Ops <- MCOps
    Grants = {"view", "edit", "admin"}
