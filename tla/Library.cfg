SPECIFICATION MCFairSpec
INVARIANTS
    BlobsAreThere
    PromisesAreKept
PROPERTIES
    SentStays
    OrphansGoAlone
CONSTANTS
    f1 = f1
    f2 = f2
    k1 = k1
    k2 = k2
    c1 = c1
    c2 = c2
    r1 = r1
    r2 = r2
    Legacy = {f1, f2}
    Copies = {}
    KBOf <- MCKBOf
    Chats = {c1, c2}
    Requests = {r1, r2}
    Ops = {"deleteChat"}
    MaxId = 2
    MaxFaults = 2
CHECK_DEADLOCK FALSE
