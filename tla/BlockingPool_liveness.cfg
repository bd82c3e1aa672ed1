SPECIFICATION FairSpec
CONSTANTS
    f1 = f1  f2 = f2  f3 = f3  t1 = t1  t2 = t2  t3 = t3
    w1 = w1  w2 = w2  s1 = s1  s2 = s2
    Futures = {f1, f2, f3}
    Tasks = {t1, t2, t3}
    TaskOf <- ThreeTasks
    Workers = {w1}
    Slots = {s1}
    WAITERS = 1
    None = None
PROPERTIES EveryCallEnds SlotsComeBack
