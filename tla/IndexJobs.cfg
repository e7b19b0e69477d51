SPECIFICATION FairSpec

CONSTANTS
    Host = {h1, h2}
    Thread = {t1, t2, t3}
    HostOf <- Threads
    Root = {r1, r2}
    Server = {h1}
    Home = r1
    Shared = {r1}
    MaxIndexJobs = 2
    MaxBegun = 3
    MaxBusy = 2
    MaxCommit = 1
    MaxFailure = 1
    NoFile = NoFile
    h1 = h1
    h2 = h2
    t1 = t1
    t2 = t2
    t3 = t3

CHECK_DEADLOCK FALSE

INVARIANTS
    TypeOK
    JobsReportTheirOwn
    OneDatabase
    PairAgrees

PROPERTIES
    JobsEnd
