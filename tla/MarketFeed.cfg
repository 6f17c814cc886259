CONSTANTS
    NumTokens = 2
    W = 2
    Bids = {b}
    Asks = {a1, a2}
    Moving = {a1}
    Movers = {2}
    MaxChanges = 1
    MaxSets = 2
    Selections = {{}, {1}, {1, 2}}
    MaxFaults = 1
SPECIFICATION FairSpec
INVARIANTS TypeOK WsReplay
PROPERTIES BooksConverge SubscriptionFollows StopReturns
CHECK_DEADLOCK FALSE
