CONSTANTS
    Users = {u1}
    Runs = {r1, r2}
    Requests = {p1, p2, p3}
    Workers = {w1}
    Nobody = Nobody
    DailyLimit = 1
    ConcurrentLimit = 1
    SendTimeout = 1
    HardLimit = 1
    RecoveryDelay = 2
    MaxRetries = 3
    MaxLost = 0
    MaxKilled = 0
SPECIFICATION Spec
SYMMETRY Symmetries
INVARIANTS
    ConcurrencyQuota
    DailyQuota
CHECK_DEADLOCK FALSE
