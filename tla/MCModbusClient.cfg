SPECIFICATION FairSpec
CONSTANTS
    Requests <- MCRequests
    Units <- MCUnits
    Lengths <- MCLengths
    Bodies <- MCBodies
    TidSize = 2
INVARIANTS
    OnlyItsAnswer
    GoodAnswerTaken
    WaitsBounded
PROPERTIES
    ReadEnds
