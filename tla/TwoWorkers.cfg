SPECIFICATION FairSpec
CONSTANTS
    root = root
    c1 = c1
    c2 = c2
    s1 = s1
    s2 = s2
    Root = root
    Stmt = {s1, s2}
    NoStmt = NoStmt
    NoProof = NoProof
    ordering <- MCOrdering
    Child <- MCTwoChildren
    FirstPlans <- MCPlain
    KillPhases = {"dispatch"}
    NonMockable = {c1}
    MaxAttempts = 2
    Concurrency = 2
    EditKinds = {"keep", "restate"}
    EditAfterKill = FALSE
    MaxRuns = 2
INVARIANTS
    PinsAreHonest
    BudgetRespected
    NoProofIsLost
PROPERTIES
    EveryRunEnds
