SPECIFICATION Spec

CONSTANTS
    Project = {p}
    Host = {h1, h2}
    Asked = {h1}
    Writer = {w1, w2}
    HostOf <- Threads
    MaxCall = 2
    NoProject = NoProject
    h1 = h1
    h2 = h2
    w1 = w1
    w2 = w2

INVARIANTS
    TypeOK
    AnswersAreOfOneCommit
    AnswersAreCurrent

CHECK_DEADLOCK FALSE
