SPECIFICATION Spec
CONSTANTS
    Clients = {c1, c2}
    Threads = {th1, th2}
    Ids = {1, 2}
    None = None
    MaxJoins = 2
INVARIANT JoinersAreInformed
CHECK_DEADLOCK FALSE
