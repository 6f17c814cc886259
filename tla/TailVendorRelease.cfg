SPECIFICATION Spec
CONSTANTS
    a = a
    b = b
    c = c
    Tokens <- MCTokens
    Touch <- MCTouch
    Scopes <- MCScopes
    Limit <- MCLimit
    MaxOrders = 2
    TouchMax = 1
    RejectLimit = 2
    NetLimit = 1
    Page = 1
    Others = 2
    MinShown = 3
    MaxFills = 2
    MaxFaults = 1
PROPERTIES NoFalseRelease
