\* A tick of the recovery loop lands while Execute still collects votes.
SPECIFICATION Spec
CONSTANTS
    Participant = {p1, p2}
    Recoverer = {r1}
    Exec = exec
    MaxRetries = 1
INVARIANT AllOrNothing
CHECK_DEADLOCK FALSE
