SPECIFICATION LiveSpec
CONSTANTS
    Scoped = {s1, s2}
    Direct = {d1}
    Nobody = nobody
    Slots = 1
    MaxPools = 2
    MaxCancels = 3
INVARIANTS NoHandleLost OneOpenPool
PROPERTIES RefinesLease CancellationIsKept NoWedge CancelledEnds
CHECK_DEADLOCK FALSE
