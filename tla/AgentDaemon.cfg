SPECIFICATION FairSpec

CONSTANTS
    MaxClient = 2
    MaxCrash = 1
    MaxSignal = 1
    Aging = TRUE
    Nobody = Nobody

CHECK_DEADLOCK FALSE

INVARIANTS
    TypeOK
    RanAtMostOnce

PROPERTIES
    CommandsEnd
    DaemonLeaves
