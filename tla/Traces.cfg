SPECIFICATION FairSpec
CONSTANTS
    Caller = {c1, c2}
    Text = {"t1", "t2"}
    Script <- MCScripts
    Wrong <- MCWrong
    Proc = {"p1"}
    NoJob = NoJob
    NoText = "none"
    MaxCalls = 2
    MaxRestarts = 1
    MaxEdits = 1
INVARIANTS
    AnswersAsIfFresh
PROPERTIES
    TracesEnd
CHECK_DEADLOCK FALSE
