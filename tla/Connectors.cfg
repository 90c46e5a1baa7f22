SPECIFICATION MCSpec
SYMMETRY Symmetric
INVARIANT
    GitInv
PROPERTIES
    FilesAreThoseOfTheCommit
    PagesAreComplete
CONSTANTS
    Paths = {p1, p2}
    Blobs = {b1, b2}
    MaxRetry = 1
    MaxPushes = 3
    MaxSyncs = 3
    MaxCrashes = 2
    MaxItemFaults = 1
    None = None
    NoPage = NoPage
    Pages = {a1, a2}
    Workers = {w1}
    MaxFailures = 2
    MaxTaskRetry = 1
    MaxPageSyncs = 2
    MaxEdits = 1
    MaxFaults = 1
CHECK_DEADLOCK FALSE
