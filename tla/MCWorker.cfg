SPECIFICATION AllSpec
CONSTANTS
    Pids = {p1, p2}
    Leader = p1
    MaxBorn = 3
    MaxCalls = 2
    Tasks = {t1, t2}
    Handlers = {h1}
    Tokens = {k1}
    Pipelined = {t1}
    Analysed = {t2}
    CancelTargets = {t1}
    ResumeTargets = {t1}
    MaxQueueSize = 2
    MaxCaptureRetries = 1
    HasDeadline = FALSE
    DiskFull = FALSE
    MaxRequests = 2
    MaxStops = 1
    NoTask = NoTask
    NoToken = NoToken
    NoHandler = NoHandler
INVARIANTS
    
    ClosedMeansGone
PROPERTIES
    CancelEndsRun
    AcceptedTaskEnds
CHECK_DEADLOCK FALSE
