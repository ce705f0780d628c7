CONSTANTS
    Users = {u1}
    Runs = {r1}
    Requests = {p1}
    Workers = {w1}
    Nobody = Nobody
    DailyLimit = 1
    ConcurrentLimit = 1
    SendTimeout = 1
    HardLimit = 1
    RecoveryDelay = 2
    MaxRetries = 3
    MaxLost = 1
    MaxKilled = 0
SPECIFICATION FairSpec
PROPERTIES
    CancellationCompletes
CHECK_DEADLOCK FALSE
