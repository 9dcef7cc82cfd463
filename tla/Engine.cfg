\* Two workloads, any of them placeable, and two snapshots.  A process that is
\* down can start: no deadlock.
SPECIFICATION FairSpec
CONSTANTS
    Workload = {a, b}
    a = a
    b = b
    Priority <- MCPriority
    MaxVersion = 2
INVARIANTS
    TypeOK
    OnePlace
    GracefulStopKeeps
PROPERTIES
    SavedWorkStays
    VersionsRise
    RowNeverAhead
    EventuallyPlaced
