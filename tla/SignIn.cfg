\* Two accounts, two requests, two creations at a time, three sessions.
SPECIFICATION Spec
CONSTANTS
    w1 = w1
    w2 = w2
    r1 = r1
    r2 = r2
    c1 = c1
    c2 = c2
    None = None
    Wallets <- MCWallets
    Requests <- MCRequests
    Creations <- MCCreations
    MaxTokens = 3
    MaxLosses = 2
    MaxSwitches = 2
SYMMETRY Symmetry
INVARIANTS
    TypeOK
    RequestActsAsItsAccount
    SecondTryIsFresh
CHECK_DEADLOCK FALSE
