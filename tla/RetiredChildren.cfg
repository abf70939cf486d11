SPECIFICATION Spec
CONSTANTS
    c1 = c1
    c2 = c2
    Root = root
    Child = {c1, c2}
    ordering <- MCOrdering
    Wording <- MCWording
    Add = {add}
    Replace = {replace}
    NoRequest = none
    Mentions = {c1}
    Hard = {c1}
    Askers = {}
    MaxAttempts = 1
    ReviewAfter = 1
    MaxRounds = 3
    MaxAmendments = 1
    MaxRepairs = 1
    MaxReopens = 1
    KillAt = {"dispatch", "revise", "adopt"}
INVARIANTS
    DesignIsWhole
    NothingRetiredIsCited
