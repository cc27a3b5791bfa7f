SPECIFICATION MCSpec
CONSTANTS
    Users = {"a", "b", "c"}
    NSTEP = 2
    StepsLimit = 4
    MaxSteps = 2
    MaxCalls = 4
    Blocks = 3
    MAX_ERRORS = 2
    NakErrors = 1
    Dirs <- MCDirs
    Elements = {"sd", "s", "a", ".", "a.", "..", "a.."}
    MaxPath = 3
INVARIANT TypeOK
INVARIANT StepperMovesAreWhole
INVARIANT I2cUnitComesBack
INVARIANT I2cUnitIsExclusive
INVARIANT YmodemTransferIsWhole
INVARIANT PathsChdirGoesThere
PROPERTY StepperStartsReturn
PROPERTY YmodemTransferEnds
CHECK_DEADLOCK FALSE
