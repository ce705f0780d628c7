CONSTANTS
    Items = {1}
    MaxChunks = 2
    MaxRetries = 1
    MaxTexts = 2
    MaxByHand = 2
    MaxFaults = 2
SPECIFICATION FairSpec
INVARIANTS
    TypeOK
    RowsFollowItem
    DocumentsFollowItem
PROPERTIES
    IndexCatchesUp
CHECK_DEADLOCK FALSE
