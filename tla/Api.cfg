SPECIFICATION ApiSpec
CONSTANTS
    Node = {n1, n2}
    TxNode = n1
    Callers = {c1, c2}
    MaxCalls = 3
    Histories <- MCHistories
    Calls <- MCCalls
    ClientNode <- MCClientNode
    Workers = {w1, w2}
    LongBits = 2
    Elements = {a, b}
    Window = 3
    MaxAttempts = 2
    LastTick = 8
    Confs <- MCConfs
    Replies <- MCReplies
    MaxRetries = 1
    Frames <- MCFrames
    Emitters = {e1, e2}
    EachEmits = 2
    Capacity = 2
SYMMETRY CallSymmetry
INVARIANTS  QuietAnswerCurrent ServiceCacheNotOlder ResultsAsPromised ThrottleExact  NegotiatedAsSent FrameReadAsSent SeenOnce
CHECK_DEADLOCK FALSE
