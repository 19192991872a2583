SPECIFICATION FairSpec
CONSTANTS
    Zero = Zero
    None = None
    Token = {t1}
    Wallet = {w1, w2}
    Ceiling = 3
    GrowthThreshold = 1
    MaxBlock = 3
INVARIANTS
    TypeOK
    IndexIsCurrent
    MapsAgree
PROPERTIES
    CatchesUp
