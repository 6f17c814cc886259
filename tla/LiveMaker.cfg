SPECIFICATION Spec
CONSTANTS
    Pools = {p1, p2}
    NoPool = NoPool
    Capital = 5
    Cap = 2
    CooldownRounds = 1
    OrphanSweep = TRUE
    MaxFills = 1
    MaxFaults = 1
INVARIANTS TypeOK CapitalConserved ManagedQuotes OrdersOwned OneOrderPerLeg StopLeavesNoOrder
SYMMETRY PoolSymmetry
