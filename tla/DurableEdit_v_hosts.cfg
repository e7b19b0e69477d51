SPECIFICATION Spec

CONSTANTS
    Worker = {w1, w2}
    Host = {h1, h2}
    HostOf <- OwnHosts
    Op = {o1, o2}
    Content = {c1, c2}
    Accepted = {c1, c2}
    Initial = c1
    MaxCrash = 0
    MaxFault = 0
    MaxWrite = 0
    MaxPower = 0
    Deletable = FALSE
    Absent = Absent
    Torn = Torn
    Target = Target
    NoWorker = NoWorker
    NoOp = NoOp
    NoProject = NoProject
    h1 = h1
    h2 = h2
    w1 = w1
    w2 = w2

SYMMETRY Symmetry

INVARIANTS
    OriginalRecoverable
