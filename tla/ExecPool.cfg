\* Two pools at most, of one to three blocks each; functions near one or two.
SPECIFICATION Spec
CONSTANTS
    Threads = {t1, t2}
    None = none
    Targets = {40, 150}
    Sizes = {10, 33, 60}
    Regions = {0, 96, 144}
    PoolSize = 48
    NearRange = 70
    MaxPools = 2
    MaxCalls = 2
INVARIANTS BlocksApart InReach
CHECK_DEADLOCK FALSE
