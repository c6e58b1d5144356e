CONSTANTS
    Daemons = {d1, d2}
    Pids = {p1, p2, p3}
    Inodes = {i1, i2}
    Stranger = Stranger
    Unknown = Unknown
    PsAnswers = FALSE
    LeaseFails = TRUE
SPECIFICATION FairSpec
INVARIANTS
    ReclaimsOnlyTheDead
PROPERTIES
    DaemonsConverge
    DisplacedDrains
    AloneServes
CHECK_DEADLOCK FALSE
