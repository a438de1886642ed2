SPECIFICATION FairSpec
CONSTANTS
    Threads = {t1, t2}
    Levels = {7}
    MaxMessages = 2
    MaxOpens = 2
    MaxInits = 2
INVARIANTS
    LockProtects SameOrder
PROPERTIES
    LockComesBack
CHECK_DEADLOCK FALSE
