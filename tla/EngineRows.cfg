SPECIFICATION EnginesSpec
CONSTANTS
    Threads = {t1, t2}
    CallMax = 0
    MaxNow = 0
    Never = Never
    Tokens = {a, b}
    Shared = Shared
    MaxRows = 1
    PoolsKept = 1
    MaxPools = 4
INVARIANT
    OwnRows
