SPECIFICATION AllSpec
CONSTANTS
    Networks <- CaptureNetworks
    SniSuffixes <- NameChoices
    MaxPackets = 4
    Extractors = {e1, e2}
    NoExtractor = NoExtractor
    MaxCaptures = 2
    MaxRuns = 4
    MaxDamages = 2
    Pcaps = {"p1", "p2"}
    Workers = 1
    Captures <- RetryCaptures
    MaxRetries = 2
    MaxRetryFaults = 2
    Total = 2
    Browsers = {"chrome", "firefox"}
    PageSize = 1
    MaxFetches = 2
    MaxFeedFaults = 2
    Requests = {"doc", "doc2", "img", "sub", "old"}
    Pages <- IdlePages
    Redirected <- RedirectedPages
    IdleSeconds = 1
    StallSeconds = 2
    ResourceSeconds = 2
    NavigationSeconds = 2
    BusyTime = 1
    MaxTime = 3
    Waits = 2
INVARIANTS
    CommittedStaysValid
    FilesHoldTheirConnections
    LengthsAreTrue
    SuccessIsWhole
    BookIsTrue
    CheckpointsAreReported
PROPERTIES
    DeletionLeavesResults
    KeepIsHonoured
    IdleIsQuiet
    LoadedIsComplete
CHECK_DEADLOCK FALSE
