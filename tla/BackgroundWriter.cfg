CONSTANTS
    Clients = {c1, c2}
    Snapshot = Snapshot
    KMaxQueue = 1
    Retention = 1
    MaxDay = 3
    MaxLines = 2
    MaxCloses = 1
    MaxFaults = 1
SPECIFICATION FairSpec
INVARIANTS TypeOK CloseDurable CrashPrefix
PROPERTIES CloseReturns LinesReachDisk ImplementsDurableLog
CHECK_DEADLOCK FALSE
