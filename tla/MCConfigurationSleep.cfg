SPECIFICATION MCSpec
CONSTANTS
    Cases <- MCCases
    Ports <- MCPorts
    Units <- MCUnits
    Flags <- MCFlags
    Hours <- MCHours
    Seconds <- MCSeconds
CHECK_DEADLOCK FALSE
INVARIANT
    LoopOutlivesItsSleep
