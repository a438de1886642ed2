SPECIFICATION FairSpec
CONSTANTS
    MaxStarts = 2
    MaxConns = 2
    MaxChunks = 1
    MaxCallbacks = 2
    LocalHost = TRUE
    Hasty = FALSE
INVARIANTS
    FreeStops ResourcesExact CallbacksAllRun FlagsExact
PROPERTIES
    StopReturns
CHECK_DEADLOCK FALSE
