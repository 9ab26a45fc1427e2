SPECIFICATION FairStackSpec
CONSTANTS
    Window = 1
    DashWindow = 2
    Attempts = 2
    MaxUps = 2
PROPERTIES
    TestsEnd
    DetectionVerdictTells
    DashboardFollowsPipeline
