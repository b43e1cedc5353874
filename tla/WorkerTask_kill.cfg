SPECIFICATION Spec
CONSTANTS
    t1 = t1
    t2 = t2
    h1 = h1
    h2 = h2
    k1 = k1
    k2 = k2
    NoTask = NoTask
    NoToken = NoToken
    NoHandler = NoHandler
    Tasks = {t1, t2}
    Handlers = {h1, h2}
    Tokens = {k1}
    Pipelined = {}
    Analysed = {}
    CancelTargets = {t1}
    ResumeTargets = {}
    MaxQueueSize = 2
    MaxCaptureRetries = 1
    HasDeadline = FALSE
    DiskFull = FALSE
    MaxCalls = 1
    MaxStops = 0
SYMMETRY HandlerSymmetry
PROPERTY CancelKillsOwnChild
CHECK_DEADLOCK FALSE
