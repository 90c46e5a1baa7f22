SPECIFICATION MCSpec
INVARIANTS
    SlotsInv
    NextSlotIsRight
PROPERTIES
    EnqueuedUnderTheLock
    SlotsKeepComing
CONSTANTS
    DayHours = 3
    WeekDays = 2
    ChangeAt = 0
    r1 = r1
    r2 = r2
    s1 = s1
    s2 = s2
    Replicas = {r1, r2}
    SourceIds = {s1, s2}
    HashOf <- MCHashes
    Schedule0 <- MCSchedules
    Window <- MCWindow
    MaxTime = 4
    MaxEdits = 1
    MaxFaults = 1
    MaxLapses = 0
    NoOne = NoOne
    Starts = {1, 23, 99}
    Ends = {3, 23}
    Hashes = {3, 11}
    MaxHour = 200
