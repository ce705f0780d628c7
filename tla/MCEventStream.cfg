CONSTANTS
    PageSize = 2
    MaxProgress = 1
    MaxFaults = 2
    MaxRefused = 1
    MaxCancels = 1
SPECIFICATION FairSpec
INVARIANTS
    TypeOK
    NothingSkippedOrRepeated
    ShownEndIsTrue
PROPERTIES
    ShownEndStays
    PageLearnsOutcome
