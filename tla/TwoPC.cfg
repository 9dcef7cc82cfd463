\* Execute and one recovery task, restarted at every tick, on three
\* participants, every failure allowed.  A run ends when the transaction is
\* settled and no recovery is due.
SPECIFICATION FairSpec
CONSTANTS
    Participant = {p1, p2, p3}
    Recoverer = {r1}
    Exec = exec
    MaxRetries = 2
INVARIANTS
    TypeOK
    CommitNeedsEveryYes
    AtomicUnlessPresumed
    SuccessIsTotal
PROPERTIES
    ImplementsUnlessPresumed
    Settles
CHECK_DEADLOCK FALSE
