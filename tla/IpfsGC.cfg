SPECIFICATION Spec
CONSTANTS
    t1 = t1
    t2 = t2
    k1 = k1
    k2 = k2
    NoMark = NoMark
    Cid = {c1}
    Token = {t1, t2}
    Chain = {k1}
    ChainOf <- MCOneChain
    Run = {r1, r2}
    Reuse = FALSE
    GraceTime = 3
    PublishTime = 1
    RunTime = 1
    MaxUnpin = 1
    MaxTime = 8
SYMMETRY MCSymmetry
INVARIANTS
    TypeOK
    InFlightIsCovered
    LiveContentIsKept
CHECK_DEADLOCK FALSE
