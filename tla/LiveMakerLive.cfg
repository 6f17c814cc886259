SPECIFICATION FairSpec
CONSTANTS
    Pools = {p1}
    NoPool = NoPool
    Capital = 5
    Cap = 2
    CooldownRounds = 0
    OrphanSweep = TRUE
    MaxFills = 2
    MaxFaults = 1
PROPERTIES EventuallyFlat
