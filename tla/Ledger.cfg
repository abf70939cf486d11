SPECIFICATION LedgerSpec
CONSTANTS
    Name = {H, K, L}
    Prop = {"P", "Q", "E"}
    Instance <- MCInstance
    Lasting = {"P"}
    MaxIntros = 1
    MaxSteps = 4
    MaxGoals = 2
SYMMETRY MCSymmetry
INVARIANTS
    ConsumptionIsReal
    FateIsHonest
    UnusedIsUnused
CHECK_DEADLOCK FALSE
