SPECIFICATION Spec
CONSTANTS
    s1 = s1  s2 = s2  r1 = r1  r2 = r2  b1 = b1  b2 = b2
    Senders = {s1, s2}
    Receivers = {r1, r2}
    Bufs = {b1, b2}
    First <- FirstHandles
    MaxMsgs = 1
    None = None
INVARIANT PanicsLast
CHECK_DEADLOCK FALSE
