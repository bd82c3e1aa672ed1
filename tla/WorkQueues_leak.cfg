SPECIFICATION WorkSpec
CONSTANTS
    Works = {w1}
    Clients = {c1}
    Queues = {1}
    SysQueue = 1
    MaxArcs = 2
    Nothing = Nothing
INVARIANT NothingLeaks
CHECK_DEADLOCK FALSE
