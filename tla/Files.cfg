SPECIFICATION MCSpec
INVARIANTS
    FailureIsExplained
    UntouchedAreWhole
    RowsGoLast
PROPERTIES
    StatusesKeepTheirPlace
    WaitingEnds
    FilesGoWithKBs
    ChunksGoInTheEnd
CONSTANTS
    None = None
    req = req
    b1 = b1
    b2 = b2
    c1 = c1
    c2 = c2
    Upload = req
    Clicks = {c1}
    Reembeds = {b1}
    MaxRetry = 1
    Overlap = TRUE
    Faults = {"enqueue", "db", "slow", "server", "worker"}
    u1 = u1
    u2 = u2
    k1 = k1
    k2 = k2
    f1 = f1
    f2 = f2
    d1 = d1
    d2 = d2
    Nobody = Nobody
    Users = {u1, u2}
    KBs = {k1, k2}
    Files = {f1, f2}
    KBOf <- MCKBOf
    FirstOwner <- TwoKBs
    Existing = {}
    Deleters = {d1, d2}
    Ops = {}
    MaxFaults = 2
CHECK_DEADLOCK FALSE
