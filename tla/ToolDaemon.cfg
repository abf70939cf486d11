SPECIFICATION FairSpec
CONSTANTS
    d1 = d1
    d2 = d2
    c1 = c1
    c2 = c2
    None = None
    Daemon <- MCTwoDaemons
    Client <- MCClients
    MaxOps = 2
    MaxSignals = 1
INVARIANTS
    StoppedMeansIt
PROPERTIES
    StopsWhenAsked
CHECK_DEADLOCK FALSE
