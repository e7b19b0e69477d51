SPECIFICATION Spec

CONSTANTS
    Worker = {w1, w2}
    Host = {h1}
    HostOf <- OneHost
    Op = {o1, o2}
    Content = {c1, c2, c3}
    Accepted = {c1, c2}
    Initial = Absent
    MaxCrash = 2
    MaxFault = 1
    MaxWrite = 0
    MaxPower = 0
    Deletable = FALSE
    Absent = Absent
    Torn = Torn
    Target = Target
    NoWorker = NoWorker
    NoOp = NoOp
    NoProject = NoProject
    h1 = h1
    h2 = h2
    w1 = w1
    w2 = w2

SYMMETRY Symmetry

INVARIANTS
    TypeOK
    OriginalRecoverable
    ArtifactsGone
    IndexAgreesWhenSettled

PROPERTIES
    JournalSpec
    EditIsAtomic
    RollbackRemovesDirectories
    OpenForCause
