CONSTANTS
    k1 = k1
    k2 = k2
    h1 = h1
    h2 = h2
    Keys = {k1, k2}
    Periodic = {k1}
    Homes = {h1, h2}
    Wanted <- MCWanted
    Refreshed = {k1}
    MaxEntries = 1
    MaxWorld = 1
    MaxSupersedes = 1
    MaxReads = 2
SPECIFICATION FairSpec
INVARIANTS
    SupersedeHides
    LastChangeLands
PROPERTIES
    NeverGoesBack
    HeldCatchesUp
CHECK_DEADLOCK FALSE
