CONSTANTS
    Lines = {l1, l2}
    Links = {u1, u2}
    Cap = 1
    Block = 2
    LastCount = 5
    Junk = Junk
    MaxEdits = 1
SPECIFICATION FairSpec
INVARIANTS
    OneLinkPerId
    FrameIsHeld
PROPERTIES
    FaultClears
CHECK_DEADLOCK FALSE
