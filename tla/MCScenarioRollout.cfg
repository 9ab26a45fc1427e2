SPECIFICATION FairSpec
CONSTANTS
    ScenariosUsed = {"baseline-modbus", "naive-bad-value"}
    NumRanges = 2
    MaxIngestors = 2
    MaxSwitches = 2
INVARIANTS
    EnvelopeTellsNaive
PROPERTIES
    SettlesHonest
