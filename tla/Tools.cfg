SPECIFICATION ToolsSpec
CONSTANTS
    Keys = {k1, k2, k3}
    NoKey = NoKey
    Pointers = {}
    Words = {}
    Blocks = {b1}
    Null = Null
    HashValues = {0, 1}
    Requests = {2}
    UpdateAbsent = TRUE
    Elements = {"x", "y"}
    Capacities = {0, 1, 3}
    HeaderRoom = 3
    MaxSize = 5
    BlockSize = 4
    Sizes = {1, 2, 4, 5}
    MaxBlocks = 4
    Patterns <- MCPatterns
    Subjects <- MCSubjects
    Declarations <- MCDeclarations
    Entries <- MCEntries
    MaxArgs = 2
    MaxArgc = 3
    FileNames = {"a", "b"}
    Depth = 2
    Trees <- MCTrees
    WalkModes <- MCModes
    MaxChanges = 1
    Names <- MCNames
    NameLen <- MCNameLen
    Answers <- MCAnswers
    RecvSz = 4
    InitialCap = 4
    MaxEntries = 2
    MaxSends = 2
INVARIANTS
    TableExact VectorIsList AllocationsApart MatchAgrees ParseExact
    WalkComplete ClientExact ResponseExact
PROPERTIES
    MatchEnds SendReturns
CHECK_DEADLOCK FALSE
