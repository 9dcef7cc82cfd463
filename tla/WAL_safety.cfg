SPECIFICATION Spec
CONSTANTS
    Op = {o1, o2}
    SyncMode = "batch"
    MaxSeq = 4
    MaxSeg = 3
SYMMETRY Symmetry
INVARIANTS
    TypeOK
    SequencesRise
    MarkersMatch
    RecoveryIsComplete
PROPERTIES
    MarkerGoesLast
CHECK_DEADLOCK FALSE
