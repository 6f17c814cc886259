SPECIFICATION FairSpec
CONSTANTS
    a = a
    b = b
    c = c
    Tokens <- MCTokens
    Touch <- MCTouch
    Scopes <- MCScopes
    Limit <- MCLimit
    MaxOrders = 1
    TouchMax = 1
    RejectLimit = 2
    NetLimit = 1
    Page = 1
    Others = 2
    MinShown = 3
    MaxFills = 2
    MaxFaults = 1
INVARIANTS TypeOK OvershootBounded
PROPERTIES BudgetFreed
