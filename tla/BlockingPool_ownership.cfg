SPECIFICATION Spec
CONSTANTS
    f1 = f1  f2 = f2  f3 = f3  t1 = t1  t2 = t2  t3 = t3
    w1 = w1  w2 = w2  s1 = s1  s2 = s2
    Futures = {f1, f2, f3}
    Tasks = {t1, t2}
    TaskOf <- TwoTasks
    Workers = {w1, w2}
    Slots = {s1, s2}
    WAITERS = 1
    None = None
SYMMETRY Symmetry
INVARIANTS MemorySafe SlotAccounted OwnResult NoLostWake
PROPERTIES KeepsPromise
