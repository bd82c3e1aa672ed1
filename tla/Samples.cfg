\* The threads end when a spawn panics; a philosopher that is stuck violates
\* EatsAgain and a run that is stuck RunEnds, which are stronger statements
\* than the absence of deadlock.
SPECIFICATION SamplesSpec
CONSTANTS
    NumPhil = 3
    EatCount = 2
    Threads <- Ids
    None = None
    NumThreads = 2
    Iters = 2
INVARIANTS OneGuard FlagMeansGuard OnlyReentryFails ForksExclusive NoLostWakeup
           RunsSeparate NeverPanics
PROPERTIES EatsAgain RunEnds
CHECK_DEADLOCK FALSE
