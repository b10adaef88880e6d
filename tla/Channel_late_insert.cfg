CONSTANTS
    Req = {r1}
    Corr = {1, 2}
    ShardCount = 2
    Closers = {}
    Timeouts = FALSE
    None = None
SPECIFICATION Spec
INVARIANT DrainLeavesNoWaiter
CHECK_DEADLOCK FALSE
