SPECIFICATION Spec
CONSTANTS
    SizeModulus = 8
    Capacity = 4
    Plans <- MCPlans
INVARIANTS
    ListsExact
    BuffersFit
    AcceptsJson
    RoundTrip
PROPERTY CallsAdvance
CHECK_DEADLOCK FALSE
