SPECIFICATION Spec

CONSTANTS
    Worker = {w1}
    Host = {h1}
    HostOf <- OneHost
    Op = {o1, o2}
    Content = {c1, c2, c3}
    Accepted = {c1, c2}
    Initial = c1
    MaxCrash = 1
    MaxFault = 1
    MaxWrite = 0
    MaxPower = 1
    Deletable = TRUE
    Absent = Absent
    Torn = Torn
    Target = Target
    NoWorker = NoWorker
    NoOp = NoOp
    NoProject = NoProject
    h1 = h1
    h2 = h2
    w1 = w1
    w2 = w2

SYMMETRY Symmetry

PROPERTIES
    LastCopyKept
