SPECIFICATION Spec

CONSTANTS
    Op = {o1, o2}
    Path = {p1, p2}
    Content = {c1, c2}
    Absent = Absent

SYMMETRY Symmetry

INVARIANTS
    TypeOK
    OneActivePerTarget

PROPERTIES
    RowsOnlyAdvance
