CONSTANTS
    Req = {r1, r2}
    Corr = {1, 2}
    ShardCount = 2
    Closers = {"pruner"}
    Timeouts = TRUE
    None = None
SPECIFICATION Spec
SYMMETRY CallSymmetry
INVARIANTS FilledExactlyOnce NoLostWakeup NoOrphanSlot
PROPERTY ImplementsCall
CHECK_DEADLOCK FALSE
