SPECIFICATION Spec
CONSTANTS
    root = root
    c1 = c1
    c2 = c2
    s1 = s1
    s2 = s2
    Root = root
    Stmt = {s1, s2}
    NoStmt = NoStmt
    NoProof = NoProof
    ordering <- MCOrdering
    Child <- MCOneChild
    FirstPlans <- MCMaybeProved
    KillPhases <- AllPhases
    NonMockable = {}
    MaxAttempts = 1
    Concurrency = 2
    EditKinds = {"keep", "restate", "root", "drop", "prove"}
    EditAfterKill = TRUE
    MaxRuns = 3
INVARIANTS
    BodyIsOfStatement
PROPERTIES
    KeepsLedger
