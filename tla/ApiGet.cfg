SPECIFICATION ASpec
CONSTANTS
    Threads = {t1, t2, t3}
    MaxConns = 2
    EndpointRate = 1
    EndpointCap = 3
    HostRate = 2
    HostCap = 2
    MaxTime = 1
INVARIANTS PoolBound NoSlotLeak NoLostWakeup AnswerIsOwn WindowBound
PROPERTIES SomebodyServed
CHECK_DEADLOCK FALSE
