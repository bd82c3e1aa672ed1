SPECIFICATION ExecutorsSpec
CONSTANTS
    Works = {w1, w2}
    Clients = {c1, c2}
    Queues = {1, 2, 3}
    SysQueue = 3
    MaxArcs = 3
    Nothing = Nothing
    Tasks = {t1, t2}
    SignBit = 8
    MaxNow = 3
    MaxNaps = 2
    None = None
INVARIANTS RawRefsCover CurrentQueueKnown NoLostPoll AlarmRight
PROPERTIES EventuallyActs SleepEnds
CHECK_DEADLOCK FALSE
