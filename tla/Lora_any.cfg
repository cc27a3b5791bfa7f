SPECIFICATION Spec
CONSTANTS
    c1 = c1
    c2 = c2
    Clients = {c1}
    None = None
    Bands = {b868, b433}
    Keys <- MCAll
    Lengths = {"short", "full", "long"}
    Network = {"refuses", "silent"}
    JoinTries = 2
    TxAttempts = 2
    MemoryShort = TRUE
    MaxCalls = 8
    MaxFrames = 0
    MaxSleeps = 1
SYMMETRY OtherBands
INVARIANT OkMeansSent
INVARIANT JoinedHasSession
INVARIANT CountersAreNew
CHECK_DEADLOCK FALSE
