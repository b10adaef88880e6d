SPECIFICATION Spec
CONSTANTS
    Op = {o1}
    Reads = {FALSE}
    EndpointCount = 2
    Start = 1
    ConnCount = 2
    Kinds = {"default"}
    Policy = "Default"
    RetryLimit = 1
    Timeouts = FALSE
    Throttled = FALSE
    Heartbeat = {}
    None = None
INVARIANT AttemptsCarryRequest
CHECK_DEADLOCK FALSE
