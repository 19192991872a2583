SPECIFICATION Spec
CONSTANTS
    a = a
    b = b
    scope1 = scope1
    root0 = root0
    NoOne = NoOne
    None = None
    Wallet = {a, b}
    Token = {t1}
    URI = {u1}
    AssetScope <- MCScopes
    CollectionScope = root0
    EditorList <- MCLists
    TreeVersion <- MCVersions
    MaxVersion = 2
    MaxLives = 2
INVARIANTS
    TypeOK
    StaleProofsAreDead
PROPERTIES
    ImplementsRegister
