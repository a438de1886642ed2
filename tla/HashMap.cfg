SPECIFICATION FairSpec
CONSTANTS
    Keys = {k1, k2, k3}
    NoKey = NoKey
    Pointers = {}
    Words = {w1, w2}
    Blocks = {}
    Null = Null
    HashValues = {0, 3, 7}
    Requests = {1, 2}
    UpdateAbsent = FALSE
INVARIANTS
    RobinHood NoKeyMissed IterationComplete
PROPERTIES
    ImplementsDictionary CallsReturn
