SPECIFICATION FairSpec
CONSTANTS
    l1 = l1
    l2 = l2
    g1 = g1
    g2 = g2
    w1 = w1
    w2 = w2
    NoOne = NoOne
    Launch <- MCTwo
    Graph <- MCGraph
    Work <- MCWork
    GraphOf <- MCGraphOf
    WorkOf <- MCWorkOf
    Fresh = {l2}
    Recorded = {l1, l2}
    Sandbox = TRUE
    MaxRestarts = 1
INVARIANTS
    RunsAreAlone
    FinishedMeansReturned
    TerminatedMeansStopped
PROPERTIES
    SupervisionEnds
