CONSTANTS
    Req = {r1, r2}
    Corr = {1, 2}
    ShardCount = 2
    Closers = {}
    Timeouts = TRUE
    None = None
SPECIFICATION FairSpec
PROPERTY EveryCallEnds
CHECK_DEADLOCK FALSE
