SPECIFICATION Spec
CONSTANTS
    c1 = c1
    c2 = c2
    Clients = {c1, c2}
    None = None
    Bands = {868}
    Keys <- MCOtaa
    Lengths = {"short"}
    Network = {}
    JoinTries = 2
    TxAttempts = 2
    MemoryShort = FALSE
    MaxCalls = 7
    MaxFrames = 0
    MaxSleeps = 1
INVARIANT TypeOK
 
CHECK_DEADLOCK FALSE
