CONSTANTS
    None = None
    MayRefuse = TRUE
    MaxSaves = 4
    MaxFlushes = 2
SPECIFICATION FairSpec
PROPERTIES
    KeepsItsPromise
    Lands
CHECK_DEADLOCK FALSE
