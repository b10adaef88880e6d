SPECIFICATION FairSpec
CONSTANTS
    Committer = {c1}
    Rollbacker = {b1}
    CacheOp = {o1}
    Cancels = TRUE
    Timeouts = TRUE
    Outside = TRUE
    Breaks = TRUE
    None = None
INVARIANTS AtomicCommit OneEndRequest
PROPERTIES EveryTaskEnds 
CHECK_DEADLOCK FALSE
