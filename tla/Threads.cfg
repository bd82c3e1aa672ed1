SPECIFICATION ThreadsSpec
CONSTANTS
    s1 = s1  s2 = s2  r1 = r1  r2 = r2  b1 = b1  b2 = b2
    Spawners = {s1, s2}
    PoolSize = 3
    MaxSpawns = 2
    Vacant = Vacant
    Callers = {c1, c2}
    Stacks = {k1, k2, k3}
    StaticThreads = {t1, t2}
    Nothing = Nothing
    Senders = {s1, s2}
    Receivers = {r1, r2}
    Bufs = {b1, b2}
    First <- FirstHandles
    MaxMsgs = 2
    None = None
INVARIANTS EntryExclusive ArgsDelivered SpawnOwnership
           Accounted ReturnedOnce
PROPERTIES EventuallyJoined IsFifo EventuallyReceived
CHECK_DEADLOCK FALSE
