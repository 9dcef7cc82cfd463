\* A checkpoint while a record is pending beside an applied one.
SPECIFICATION Spec
CONSTANTS
    Op = {o1, o2}
    SyncMode = "immediate"
    MaxSeq = 4
    MaxSeg = 3
INVARIANT PendingIsLogged
CHECK_DEADLOCK FALSE
