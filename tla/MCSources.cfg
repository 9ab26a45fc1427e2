SPECIFICATION MCSpec
CONSTANTS
    Interval = 3
    StartHours <- MCStartHours
    BadHours <- MCBadHours
    MaxClock = 17
    Fetchers = {f}
    Probers = {p}
    Strays = {}
    Stallers = {s}
    LoadShapes = {480, 777, 1080}
    PvShapes = {0, 500, 1000}
    Ripples <- MCRipples
CHECK_DEADLOCK FALSE
INVARIANTS
    ServedIsFresh
    NeverAheadOfClock
    StopNotLost
    BaselineQuiet
    NoPointLost
PROPERTIES
    HoursInTurn
    ShutdownEnds
    NoneStarved
