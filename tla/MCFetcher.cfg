SPECIFICATION AllSpec
CONSTANTS
    Units = {"a", "b"}
    Plan <- TwiceA
    MaxRuns = 2
    MaxFaults = 2
    Paths = {"d1", "d2"}
    MaxAttempts = 3
    MaxAttemptFaults = 2
    MaxKills = 1
INVARIANTS
    RecordsAreTrue
    QueueIsAccounted
    CapturesAreWhole
PROPERTIES
    RunEnds
    ProfileOutlivesDriver
    LeftProfilesGo
CHECK_DEADLOCK FALSE
