SPECIFICATION FairSpec

CONSTANTS
    MaxCall = 3
    MaxCrash = 1
    NoChild = NoChild
    Initialize = Initialize
    NoLine = NoLine
    Junk = Junk

CHECK_DEADLOCK FALSE

INVARIANTS
    TypeOK
    AnswersMatch
    NobodyWaitsInVain

PROPERTIES
    InvokeEnds
    CloseEnds
