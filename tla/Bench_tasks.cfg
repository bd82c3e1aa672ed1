SPECIFICATION BenchSpec
CONSTANTS
    NumThreads = 2
    Iters = 2
INVARIANT EverythingFinished
CHECK_DEADLOCK FALSE
