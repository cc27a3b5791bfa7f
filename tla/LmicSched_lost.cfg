SPECIFICATION Spec
CONSTANTS
    Loop = Loop
    lua = lua
    dio = dio
    Others <- MCOthers
    Setup = lua
    Core <- TwoCores
    Priority <- MCPriority
    InitJob = InitJob
    OsJob = OsJob
    None = None
    Calls <- MCCalls
    Waits = TRUE
    MaxCalls = 3
    MaxTime = 1
INVARIANT JobsAreKept
CHECK_DEADLOCK FALSE
