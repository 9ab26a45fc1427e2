SPECIFICATION FairSpec
CONSTANTS
    Interval = 2
    MinSleep = 1
    StatusFloor = 8
    CycleBudget = 3
    ProbeBudget = 1
    MaxDrift = 1
    AgeCap = 14
    IdleCap = 1
INVARIANTS
    HealthyMeansStored
    StaleMeansIdle
PROPERTY
    BeaconSpec
    Recovers
