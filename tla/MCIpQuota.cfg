CONSTANTS
    Requests = {r1, r2, r3, r4, r5}
    Limit = 2
    MaxDay = 1
    MaxFaults = 2
SPECIFICATION Spec
SYMMETRY Symmetries
INVARIANTS
    DailyLimitPerIp
    UnitsReturned
CHECK_DEADLOCK FALSE
