SPECIFICATION FairSpec
CONSTANTS
    s1 = s1
    s2 = s2
    f1 = f1
    NoOne = NoOne
    NoRoot = NoRoot
    Unread = Unread
    Session <- MCTwo
    File = {f1}
    FileOf <- MCSameFile
    Loading = {f1}
    Proc = {p1, p2}
    PoolSize = 1
    MaxOpens = 2
    MaxSteps = 1
    MaxEvents = 1
INVARIANTS
    NoForeignState
PROPERTIES
    SessionsArePinned
    CallsEnd
CHECK_DEADLOCK FALSE
