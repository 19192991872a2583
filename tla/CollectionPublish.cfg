SPECIFICATION Spec
CONSTANTS
    default = default
    other = other
    a1 = a1
    a2 = a2
    w1 = w1
    w2 = w2
    Tokens <- MCTokens
    Default <- default
    Assets <- MCAssets
    Writers <- MCWriters
    MaxDocs = 4
    MaxVersions = 2
SYMMETRY Symmetry
INVARIANTS
    TypeOK
    LiveContentIsPinned
PROPERTIES
    ImplementsTable
    ReplacedStaysReachable
CHECK_DEADLOCK FALSE
