CONSTANTS
    a = a
    b = b
    o1 = o1
    o2 = o2
    h1 = h1
    Branches = {a, b}
    Sets = {o1, o2}
    Homes = {h1}
    Wanted <- MCWanted
    KeysKept = 1
    MaxMoves = 2
    MaxFails = 1
    MaxOut = 1
SPECIFICATION CacheSpec
INVARIANTS
    HeardIsRead
    PrIsOnItsWay
PROPERTIES
    PrBesideItsBranch
SYMMETRY BranchSymmetry
CHECK_DEADLOCK FALSE
