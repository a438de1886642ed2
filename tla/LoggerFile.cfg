SPECIFICATION Spec
CONSTANTS
    Threads = {t1, t2}
    Levels = {3}
    MaxMessages = 2
    MaxOpens = 2
    MaxInits = 1
INVARIANTS
    LogFileCreated
CHECK_DEADLOCK FALSE
