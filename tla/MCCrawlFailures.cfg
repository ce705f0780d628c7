CONSTANTS
    Visits = {v1, v2, v3, v4}
    Cleaner = cleaner
    MaxCrashes = 1
SPECIFICATION FailuresSpec
SYMMETRY Symmetries
INVARIANTS
    AcknowledgedIsGone
    SettledOutcome
CHECK_DEADLOCK FALSE
