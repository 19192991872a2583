SPECIFICATION FairSpec
CONSTANTS
    None = None
    Wallet = {w1}
    Request = {r1, r2}
    Attempts = 2
    ProviderTimeout = 2
    ThinkingTimeout = 1
    RepairThinking = TRUE
    JevTimeout = 1
    Margin = 1
    DayLength = 7
    HourLength = 6
    DailyLimit = 2
    HourlyLimit = 1
    StartTimes <- MCDayStart
    MaxTime = 11
CHECK_DEADLOCK FALSE
PROPERTIES
    OnlyItsOwnLock
    EveryRequestEnds
