SPECIFICATION AllSpec
CONSTANTS
    \* FirefoxPolicy: a page and its frame, two requests for one address
    Contexts = {c, f}
    Requests = {1, 2}
    Urls = {u}
    MaxNavigations = 1
    MaxResets = 1
    \* CachePolicy: a page, its frame and a service worker
    Targets = {"p", "f", "w"}
    Pages = {"p", "f"}
    FirstPage = "p"
    MaxTargets = 2
    MaxFaults = 1
    MaxCalls = 2
INVARIANTS
    BareIsReported
    ReuseIsSameGeneration
    
PROPERTIES
    PassedIsCovered
    StoppedGoesOn
CHECK_DEADLOCK FALSE
