CONSTANTS
    Conns = {c1, c2}
SPECIFICATION FairSpec
INVARIANTS
    OneAnswer
    StatsAreExact
    NoOrphanSubscriber
    ExitIsAccounted
    HeldWorkHasAClient
PROPERTIES
    WaitingEnds
CHECK_DEADLOCK FALSE
