SPECIFICATION DevicesSpec
CONSTANTS
    Pins = {0, 1}
    Threads = FALSE
    Smp = FALSE
    Repolls = TRUE
    Drops = TRUE
    MaxWaits = 2
    None = None
    Users = {u1, u2, u3}
    Nobody = Nobody
    Labels = {g0, g1}
    MaxNodes = 5
    MaxWords = 4
    MaxCells = 2
    Getters = {t1, t2}
    Addrs = {a1, a2}
    Unset = Unset
    Static = static
    Heap = {heap}
    MaxStatus = 2
    TimerSmp = FALSE
SYMMETRY Symmetry
INVARIANTS NoMissedWake RegistrationSound UninterruptibleUnsent
           CallsResolve RightDevice TokensRight BuildPanics
           OnlyOnce OwnCallback OnlyRunningQueued
CHECK_DEADLOCK FALSE
