CONSTANTS
    Paths = {f, g}
    Probe = probe
    StallAfter = 2
    MaxEdits = 2
    MaxFaults = 2
    MaxBoth = 3
SPECIFICATION WatchFairSpec
INVARIANTS
    UnreadIsOwed
    FaultIsTold
PROPERTIES
    ReadAtLast
CHECK_DEADLOCK FALSE
