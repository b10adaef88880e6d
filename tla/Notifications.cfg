CONSTANTS
    FrameCount = 3
    Breaks = TRUE
    Aborts = TRUE
    Leaves = TRUE
    Lost = Lost
    MaxListeners = 3
SPECIFICATION MCSpec
INVARIANTS FrameInOnePlace HolderIsServed
PROPERTIES NothingAfterRemoval EarlyFrameDelivered TakenListenerTold ClosedListenerStops
CHECK_DEADLOCK FALSE
