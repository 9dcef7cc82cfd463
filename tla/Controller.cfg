\* Two keys and two workers; a run ends when the controller has stopped.
SPECIFICATION FairSpec
CONSTANTS
    Key = {k1, k2}
    Worker = {w1, w2}
    NoKey = NoKey
    MaxTokens = 2
    LeaderElection = TRUE
INVARIANTS
    TypeOK
    NoConcurrentReconcile
    QueueIsDirty
    NothingLost
    NoLostWakeup
    BackoffMeansRetry
PROPERTIES
    EventuallyReconciled
    EventuallyStops
    ImplementsKeyedQueue
CHECK_DEADLOCK FALSE
