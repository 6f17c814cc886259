SPECIFICATION FairSpec
CONSTANTS
    Usdc0 = 3
    MaxLoss = 1
    Sustained = 3
    MaxEquity = 3
    MaxDay = 1
    MaxFaults = 1
INVARIANTS TypeOK DailyBudget KillSticks NoFalseKill
PROPERTIES LossStops
