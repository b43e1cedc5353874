SPECIFICATION Spec
CONSTANTS
    j1 = j1
    j2 = j2
    m1 = m1
    m2 = m2
    NoJob = NoJob
    Jobs = {j1, j2}
    Machines = {m1}
    MaxQueueSize = 1
    Unfit = FALSE
    Faults = TRUE
    MaxRounds = 0
    MaxLosses = 1
    MaxStops = 1
SYMMETRY JobSymmetry
INVARIANT JobsAreTracked
CHECK_DEADLOCK FALSE
