SPECIFICATION FairSpec
CONSTANTS
    Interval = 2
    MinSleep = 1
    StatusFloor = 12
    NumRanges = 2
    CycleBudget = 3
    ProbeBudget = 1
    AgeCap = 17
    MissedCap = 4
INVARIANTS
    HealthyMeansDelivered
    StaleMeansMisses
    StopsInTime
PROPERTIES
    BeaconSpec
    Recovers
