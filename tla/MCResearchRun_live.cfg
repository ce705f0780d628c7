CONSTANTS
    Users = {u1}
    Runs = {r1}
    Requests = {p1, p2}
    Workers = {w1}
    Nobody = Nobody
    DailyLimit = 1
    ConcurrentLimit = 1
    SendTimeout = 1
    HardLimit = 1
    RecoveryDelay = 2
    MaxRetries = 3
    MaxLost = 2
    MaxKilled = 0
SPECIFICATION FairSpec
PROPERTIES
    SentRunsResolve
CHECK_DEADLOCK FALSE
