SPECIFICATION Spec
CONSTANTS
    Tasks = {t1, t2}
    Items = {x1, x2}
    Garbage = Garbage
    FirstIndex = 1
    MaxIndexes = 3
    MaxNoMem = 1
    OwnersOnly = TRUE
    PastEnd = TRUE
SYMMETRY Symmetry
INVARIANT TypeOK
INVARIANT FreeListIsTheDeleted
INVARIANT HandlesAreExclusive
