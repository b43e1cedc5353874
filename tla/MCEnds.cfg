SPECIFICATION AllSpec
CONSTANTS
    j1 = j1
    m1 = m1
    NoJob = NoJob
    Steps = {"flow", "tls"}
    Jobs = {{"flow"}, {"flow", "tls"}}
    Count = 2
    Policies = {1}
    MaxQueue = 1
    MaxRequests = 3
    MaxStops = 1
    MaxFailures = 1
    Machines = {"m1", "m2"}
    Texts <- SampleTexts
    Bodies <- SampleBodies
    Workers <- SampleWorkers
    MasterMaxItems = 2
INVARIANTS
    RowsTellTheFiles
    NoExtractionLost
    RefusalsAreTheWorkers
    RowsAreUnits
PROPERTIES
    JobEnds
    CancelEnds
    UnitsStartAtRest
    ExtractionEnds
CHECK_DEADLOCK FALSE
