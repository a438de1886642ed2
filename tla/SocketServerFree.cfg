SPECIFICATION Spec
CONSTANTS
    MaxStarts = 2
    MaxConns = 2
    MaxChunks = 1
    MaxCallbacks = 2
    LocalHost = TRUE
    Hasty = TRUE
INVARIANTS
    FreeStops
CHECK_DEADLOCK FALSE
