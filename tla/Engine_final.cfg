\* A workload that is preempted comes back after a graceful restart.
SPECIFICATION Spec
CONSTANTS
    Workload = {a, b}
    a = a
    b = b
    Priority <- MCPriority
    MaxVersion = 2
PROPERTY FinalSnapshotIsSaved
