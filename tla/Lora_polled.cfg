SPECIFICATION Spec
CONSTANTS
    c1 = c1
    c2 = c2
    Clients = {c1}
    None = None
    Bands = {868}
    Keys <- MCAbp
    Lengths = {"short"}
    Network = {"polls"}
    JoinTries = 2
    TxAttempts = 2
    MemoryShort = FALSE
    MaxCalls = 6
    MaxFrames = 1
    MaxSleeps = 0
INVARIANT OkMeansSent
CHECK_DEADLOCK FALSE
