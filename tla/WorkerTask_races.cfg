SPECIFICATION Spec
CONSTANTS
    t1 = t1
    t2 = t2
    h1 = h1
    h2 = h2
    k1 = k1
    k2 = k2
    NoTask = NoTask
    NoToken = NoToken
    NoHandler = NoHandler
    Tasks = {t1, t2}
    Handlers = {h1, h2}
    Tokens = {k1}
    Pipelined = {t1}
    Analysed = {t2}
    CancelTargets = {t1}
    ResumeTargets = {t1}
    MaxQueueSize = 2
    MaxCaptureRetries = 1
    HasDeadline = TRUE
    DiskFull = TRUE
    MaxCalls = 2
    MaxStops = 1
SYMMETRY HandlerSymmetry
INVARIANT NoQueuedTaskLost
INVARIANT RunningTaskHasRunner
PROPERTY TokenRestartsOnce
CHECK_DEADLOCK FALSE
