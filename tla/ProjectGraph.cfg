SPECIFICATION Spec

CONSTANTS
    Worker = {w1, w2}
    File = {f1, f2}
    Content = {c1, c2, bad}
    Accepted = {c1, c2}
    Absent = Absent
    NoProject = NoProject
    NoVectors = NoVectors
    NoFile = NoFile
    MaxCall = 2
    MaxWrite = 2
    MaxDelete = 1

SYMMETRY Symmetry

CHECK_DEADLOCK FALSE

INVARIANTS
    TypeOK
    GraphCoversFiles
    VectorsCurrent

PROPERTIES
    RefreshKeepsOthers
    BrokenSourceKeepsGraph
