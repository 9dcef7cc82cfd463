SPECIFICATION FairSpec
CONSTANTS
    Key = {k1}
    Worker = {w1}
    NoKey = NoKey
    MaxTokens = 1
    LeaderElection = TRUE
PROPERTIES
    ReconciledWhileRunning
CHECK_DEADLOCK FALSE
