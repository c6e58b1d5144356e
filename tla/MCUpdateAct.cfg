CONSTANTS
    Daemons = {d1, d2}
    Pids = {p1, p2}
    Stranger = Stranger
    None = None
    Untold = {1, 2}
    MaxActs = 2
    MaxJobs = 3
    MaxOthers = 1
SPECIFICATION Spec
SYMMETRY Symmetry
INVARIANTS
    OneWriter
    FinalIsFinal
CHECK_DEADLOCK FALSE
