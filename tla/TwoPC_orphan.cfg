\* The recovery loop is not running; one PREPARE outlives prepareCtx.
SPECIFICATION Spec
CONSTANTS
    Participant = {p1, p2}
    Recoverer = {}
    Exec = exec
    MaxRetries = 1
INVARIANT AbortReleasesAll
CHECK_DEADLOCK FALSE
