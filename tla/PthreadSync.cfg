SPECIFICATION MCSpec
CONSTANTS
    Tasks = {t1, t2, t3}
    None = None
    N = 2
    Recursive = {1}
    CondMutex = 2
    MaxDepth = 2
    MaxSignals = 2
    MaxWaiting = 2
SYMMETRY Symmetry
INVARIANT TypeOK
INVARIANT MutexesExclude
INVARIANT EndedHoldNothing
INVARIANT WakesAreSignalled
INVARIANT OnceIsDone
CHECK_DEADLOCK FALSE
