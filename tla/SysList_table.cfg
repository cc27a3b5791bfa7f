SPECIFICATION Spec
CONSTANTS
    Tasks = {t1, t2}
    Items = {x1, x2}
    Garbage = Garbage
    FirstIndex = 1
    MaxIndexes = 3
    MaxNoMem = 0
    OwnersOnly = TRUE
    PastEnd = FALSE
PROPERTY ScanMeetsAll
PROPERTY ImplementsTable
