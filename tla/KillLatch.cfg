SPECIFICATION Spec
CONSTANTS
    Usdc0 = 3
    MaxLoss = 1
    Sustained = 3
    MaxEquity = 3
    MaxDay = 0
    MaxFaults = 0
INVARIANTS LatchRefusesTrading
