SPECIFICATION TeamSpec
CONSTANTS
    a = a
    b = b
    t1 = t1
    NoOne = NoOne
    None = None
    Wallet = {a, b}
    Token = {t1}
    URI = {u1}
    AssetScope = {}
    CollectionScope = root0
    EditorList <- MCLists
    TreeVersion = {}
    Creator <- MCCreator
    MaxVersion = 3
    MaxLives = 1
INVARIANTS
    TeamTypeOK
    RootCommitsToList
PROPERTIES
    NoTeamChangeIsLost
