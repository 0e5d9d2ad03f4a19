SPECIFICATION Spec
CONSTANTS
    Rows <- MCRows
    MaxBuf = 2
    MaxSessions = 2
    MaxOutput = 2
    MaxUpdates = 1
INVARIANTS
    ScreenIsFrame
    OutputKept
CHECK_DEADLOCK FALSE
