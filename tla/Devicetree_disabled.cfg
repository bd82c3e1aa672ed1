SPECIFICATION DtSpec
CONSTANTS
    Labels = {g0}
    MaxNodes = 4
    MaxWords = 0
    MaxCells = 0
INVARIANT DisabledNeverCalled
CHECK_DEADLOCK FALSE
