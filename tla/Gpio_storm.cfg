SPECIFICATION Spec
CONSTANTS
    Pins = {0, 1}
    Threads = FALSE
    Smp = FALSE
    Repolls = FALSE
    Drops = FALSE
    MaxWaits = 2
    None = None
INVARIANT NoStorm
CHECK_DEADLOCK FALSE
