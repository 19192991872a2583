\* Two assets, two sockets at a time, two changes of the context and two faults.
SPECIFICATION FairThreadSpec
CONSTANTS
    a1 = a1
    a2 = a2
    s1 = s1
    s2 = s2
    Nothing = Nothing
    Assets <- MCAssets
    Sockets <- MCSockets
    MaxAttempts = 1
    MaxChanges = 2
    MaxFaults = 2
    MaxSessions = 2
INVARIANTS
    ThreadTypeOK
    ThreadShowsItsAsset
PROPERTIES
    NoRelayForNobody
    ThreadComesBack
CHECK_DEADLOCK FALSE
