SPECIFICATION FairSpec
CONSTANTS
    d1 = d1
    d2 = d2
    d3 = d3
    NoOne = NoOne
    Dispatcher <- MCDispatcher
    Backoff <- MCBackoff
    Concurrency = 2
    MaxAttempts = 1
    MaxOutages = 1
    MaxWait = 4
    ResetGrace = 2
    RepauseGrace = 4
    ProbeTime = 1
    ResetsIn = {0, 3}
INVARIANTS
    NobodyWaitsForNothing
PROPERTIES
    ResumesAreApart
    DispatchEnds
