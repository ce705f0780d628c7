CONSTANTS
    f1 = f1
    f2 = f2
    Feeds <- TwoFeeds
    Upstream <- SmallUpstream
    Nobody = Nobody
    Histories = {h1, h2}
    Refreshes = {r1}
    PageSize = 1
    Retries = 1
    Accounts = 1
    MaxStops = 1
    MaxFaults = 1
SPECIFICATION FairSpec
INVARIANTS
    GuardsDoNotStick
    HistoryHasNoHole
PROPERTIES
    CallsEnd
CHECK_DEADLOCK FALSE
