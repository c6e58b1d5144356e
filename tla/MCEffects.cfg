CONSTANTS
    Sessions = {s1, s2}
    Panes = {p1, p2}
    Home <- MCHome
    Lanes = {l1}
    Offers <- MCOffers
    Gone = Gone
    NoTmux = NoTmux
    MaxOwed = 1
    MaxClicks = 2
    MaxMoves = 2
SPECIFICATION FairSpec
INVARIANTS
    NoCircle
    LaneFollowsSwitch
PROPERTIES
    NoNeedlessSetup
    EffectsLand
CHECK_DEADLOCK FALSE
