CONSTANTS
    Clients = {c1, c2}
    NoFile = NoFile
    Stale = 1
    Override = 0
    Cooldown = 1
    BackoffCap = 2
    MaxStreak = 1
    Oldest = 2
    MaxBooting = 1
    DiskFails = TRUE
    MaxFaults = 1
SPECIFICATION KickFairSpec
PROPERTIES
    AttemptsAreSpaced
    NeverWedged
CHECK_DEADLOCK FALSE
