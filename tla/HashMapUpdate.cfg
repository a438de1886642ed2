SPECIFICATION Spec
CONSTANTS
    Keys = {k1, k2, k3}
    NoKey = NoKey
    Pointers = {p1}
    Words = {w1}
    Blocks = {}
    Null = Null
    HashValues = {0, 1, 3}
    Requests = {2}
    UpdateAbsent = TRUE
INVARIANTS
    KeysAreFound
