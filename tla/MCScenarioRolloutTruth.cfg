SPECIFICATION Spec
CONSTANTS
    ScenariosUsed = {"baseline-modbus", "naive-bad-value", "stealthy-fdia"}
    NumRanges = 2
    MaxIngestors = 2
    MaxSwitches = 2
INVARIANTS
    ForwarderTellsTruth
