SPECIFICATION FairSpec
CONSTANTS
    c1 = c1
    c2 = c2
    Root = root
    Child = {c1}
    ordering <- MCOrdering
    Wording <- MCWording
    Add = {add}
    Replace = {replace}
    NoRequest = none
    Mentions = {c1}
    Hard = {c1}
    Askers = {c1}
    MaxAttempts = 2
    ReviewAfter = 2
    MaxRounds = 2
    MaxAmendments = 1
    MaxRepairs = 1
    MaxReopens = 1
    KillAt = {"dispatch", "adjudicate", "adopt", "mark"}
INVARIANTS
    ProofsAreOfThisDesign
    PinsAreHonest
    OnlyApprovedDesigns
    RefusalsAreRetried
PROPERTIES
    RunsEnd
