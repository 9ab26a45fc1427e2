SPECIFICATION Spec
CONSTANTS
    SimInterval = 2
    StartHours = {20, 0}
    BadHours = {1}
    MaxClock = 5
    IngestInterval = 2
    MinSleep = 1
    StatusFloor = 0
    NumRanges = 3
    CycleBudget = 3
    AgeCap = 12
    MissedCap = 4
    MaxGenerations = 2
CHECK_DEADLOCK FALSE
INVARIANTS
    TypeOK
    BatchSpread
    TimestampHonest
    StoredInOrder
