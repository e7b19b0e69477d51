SPECIFICATION FairSpec

CONSTANTS
    User = {u1}
    Content = {c1, c2}
    NoProject = NoProject
    NoBaseline = NoBaseline
    MissingPolls = 2
    MaxCall = 1
    MaxChange = 2
    MaxFail = 1

INVARIANTS
    TypeOK

PROPERTIES
    VisibleChangesIndexed
    GoneIsForgotten
    StopEnds

CHECK_DEADLOCK FALSE
