\* Every write is fsynced before it returns; a crash tears the entry being written.
SPECIFICATION Spec
CONSTANTS
    Op = {o1, o2}
    SyncMode = "immediate"
    MaxSeq = 4
    MaxSeg = 3
INVARIANT FsyncedIsReadable
CHECK_DEADLOCK FALSE
