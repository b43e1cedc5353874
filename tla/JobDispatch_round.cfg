SPECIFICATION Spec
CONSTANTS
    j1 = j1
    j2 = j2
    m1 = m1
    m2 = m2
    NoJob = NoJob
    Jobs = {j1}
    Machines = {m1}
    MaxQueueSize = 1
    Unfit = FALSE
    Faults = FALSE
    MaxRounds = 1
    MaxLosses = 1
    MaxStops = 0
PROPERTY FailedResumeIsRetried
CHECK_DEADLOCK FALSE
