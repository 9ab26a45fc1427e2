SPECIFICATION Spec
CONSTANTS
    Writers = {w1, w2}
    FlagWindow = 10
    VoltageWindow = 10
    StaleWindow = 4
    VoltageFor = 2
    StaleFor = 4
INVARIANTS
    OutlierAlerts
    SilenceAlerts
PROPERTY
    NoFalseStale
