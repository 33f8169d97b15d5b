SPECIFICATION Spec
CONSTANTS
    t1 = t1
    t2 = t2
    Threads = {t1, t2}
    Refresher = refresher
    Midnight = midnight
    None = none
    CacheTTL = 4
    RefreshBefore = 2
    StaleExtend = 3
    Latency = 1
    Period = 1
    MaxRotations = 2
    MaxFaults = 3
INVARIANTS TypeOK ServedFromCache RotationSeen
PROPERTIES BuiltOnce
