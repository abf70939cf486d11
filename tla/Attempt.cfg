SPECIFICATION FairSpec
CONSTANTS
    MaxAttempts = 2
    MaxRows = 2
    Sandboxed <- MCSandboxed
    Leaves <- MCLeaves
INVARIANTS AnswerIsKept ProofIsGated NoStrayWorker ChargedForItsOwn
PROPERTIES AttemptsEnd
CHECK_DEADLOCK FALSE
