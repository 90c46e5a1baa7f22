SPECIFICATION MCSpec
INVARIANTS
    AgentInv
    RowsAndAnswersAgree
    ThreadsAreForests
    FedTheThread
    SeenIsStored
    NothingIsMissed
    DoneMeansSaved
PROPERTIES
    PausesStand
    TurnsEnd
    StreamsAndJobsEnd
CONSTANTS
    Turns = {1, 2, 3}
    Overlap = TRUE
    Faults = {"crash"}
    None = None
    Posts = {1, 2, 3}
    Requests = {}
    Past = 2
    MaxChats = 2
    MaxRows = 8
    ChatFaults = {}
    Steps = 2
    BufferSize = 2
    MaxAttempts = 2
    MaxCrashes = 2
