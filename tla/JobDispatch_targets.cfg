SPECIFICATION Spec
CONSTANTS
    j1 = j1
    j2 = j2
    m1 = m1
    m2 = m2
    NoJob = NoJob
    Jobs = {j1}
    Machines = {m1, m2}
    MaxQueueSize = 1
    Unfit = FALSE
    Faults = FALSE
    MaxRounds = 1
    MaxLosses = 0
    MaxStops = 1
SYMMETRY MachineSymmetry
INVARIANT RunIsCurrent
INVARIANT OutcomeAgrees
PROPERTY FollowsLifecycle
CHECK_DEADLOCK FALSE
