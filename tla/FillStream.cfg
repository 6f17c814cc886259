CONSTANTS
    SeenCap = 3
    Page = 1
    Reorder = 1
    MaxLegs = 2
    LegCounts = {0, 1, 2}
    MaxTrades = 4
    MaxFaults = 2
SPECIFICATION FairSpec
INVARIANTS TypeOK HandedOnce CursorSkipsNothing NoReplayByRest
PROPERTIES FillsArrive
CHECK_DEADLOCK FALSE
