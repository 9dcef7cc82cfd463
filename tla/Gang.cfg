\* Two gangs that compete for the cluster, one of them with workers that meet.
\* A run may end when both gangs have ended.
SPECIFICATION FairSpec
CONSTANTS
    Gang = {g1, g2}
    Worker = {w1, w2}
    g1 = g1
    g2 = g2
    w1 = w1
    w2 = w2
    Crew <- MCCrew
    Dim <- MCDim
    Capacity <- MCCapacity
    JobSpec <- MCJobSpec
INVARIANTS
    TypeOK
    NoOvercommit
    ResourcesFollowState
    OneOutcome
PROPERTIES
    ImplementsRendezvous
    TerminatedFreesWorkers
    FullGangLeaves
CHECK_DEADLOCK FALSE
