SPECIFICATION Spec
CONSTANTS
    a1 = a1
    a2 = a2
    l1 = l1
    l2 = l2
    Assets <- MCAssets
    Loads <- MCLoads
    MaxVersions = 3
    MaxDepth = 1
SYMMETRY Symmetry
CONSTRAINT Unmixed
VIEW View
INVARIANTS
    TypeOK
    
    
CHECK_DEADLOCK FALSE
