\* Four callers, two slots, two successes to close.
SPECIFICATION FairSpec
CONSTANTS
    Caller = {c1, c2, c3, c4}
    FailureThreshold = 2
    SuccessThreshold = 2
    MaxHalfOpenRequests = 2
INVARIANTS
    TypeOK
    CountersFollowState
    ProbeLimit
    NeverStuck
PROPERTIES
    Recovers
    Trips
