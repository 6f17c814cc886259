SPECIFICATION Spec
CONSTANTS
    Pools = {p1}
    NoPool = NoPool
    Capital = 5
    Cap = 2
    CooldownRounds = 1
    OrphanSweep = TRUE
    MaxFills = 1
    MaxFaults = 0
INVARIANTS NoSilentExit
