SPECIFICATION FairSpec
CONSTANTS
    Pools = {p1}
    Workers = {ws, resync}
    None = None
    ExpiryRefresh = TRUE
    MaxPulls = 2
    MaxFaults = 2
INVARIANTS TypeOK NoLostWake
PROPERTIES QuotesRestored
