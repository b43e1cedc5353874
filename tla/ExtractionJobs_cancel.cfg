SPECIFICATION Spec
CONSTANTS
    Steps = {"flow", "tls"}
    Jobs <- MCJobs
    Count = 1
    Policies = {0}
    MaxQueue = 1
    MaxRequests = 2
    MaxStops = 0
    MaxFailures = 0
PROPERTIES
    CancelingEnds
CHECK_DEADLOCK FALSE
