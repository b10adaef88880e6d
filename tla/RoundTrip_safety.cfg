SPECIFICATION Spec
CONSTANTS
    Op = {o1}
    Reads = {TRUE, FALSE}
    EndpointCount = 2
    Start = 1
    ConnCount = 2
    Kinds = {"default", "preferred", "pinned"}
    Policy = "ReadOnly"
    RetryLimit = 2
    Timeouts = TRUE
    Throttled = TRUE
    Heartbeat = {"heartbeat"}
    None = None
INVARIANTS PinnedStaysPut PolicyBoundsLoop OneConnectionPerEndpoint
PROPERTY HealthyActiveKept
CHECK_DEADLOCK FALSE
