CONSTANTS
    Users = {u1, u2}
    Runs = {r1}
    Requests = {p1, p2}
    Workers = {w1, w2}
    Nobody = Nobody
    DailyLimit = 1
    ConcurrentLimit = 1
    SendTimeout = 1
    HardLimit = 1
    RecoveryDelay = 2
    MaxRetries = 3
    MaxLost = 2
    MaxKilled = 1
SPECIFICATION Spec
SYMMETRY Symmetries
INVARIANTS
    TypeOK
    ExecutedAtMostOnce
    UnclaimedNotExecuted
    NoRecoveryWhileRunning
    CancellationRecorded
    RecoverableRows
    SentRunIsDeliverable
PROPERTIES
    CancelIsHonoured
    ImplementsLifecycle
CHECK_DEADLOCK FALSE
