SPECIFICATION GateSpec
CONSTANTS
    Ident <- MCIdent
    Wording <- MCWording
    Source <- MCSource
    Anchor <- MCAnchor
    Plan <- MCPlan
    Whitelist <- MCWhitelist
    Words <- MCWords
    ContractResults <- MCResults
    Mutable <- MCMutable
    Draft <- MCDraft
    Edits <- MCEdits
    MaxBody = 3
    MaxLater = 2
    MaxEdits = 2
INVARIANTS
    GatedMeansProved
    RestsOnKnown
    RecheckStandsAlone
    GatesAddUp
    DesignKeepsResults
CHECK_DEADLOCK FALSE
