SPECIFICATION Spec
CONSTANTS
    Loop = Loop
    lua = lua
    dio = dio
    Others <- MCOthers
    Setup = lua
    Core <- OneCore
    Priority <- MCPriority
    InitJob = InitJob
    OsJob = OsJob
    None = None
    Calls <- MCCalls
    Waits = TRUE
    MaxCalls = 4
    MaxTime = 1
INVARIANT TypeOK
INVARIANT SectionsAreExclusive
INVARIANT InterruptsComeBack
INVARIANT JobsAreKept
CHECK_DEADLOCK FALSE
PROPERTY QueuedJobsAreTaken
