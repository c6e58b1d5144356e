CONSTANTS
    s1 = s1
    s2 = s2
    Subs = {s1, s2}
    LaneOf <- MCLaneOf
    Moving = 1
    Still = 2
    None = None
    MaxWorld = 1
    MaxFeeds = 2
    MaxFaults = 1
SPECIFICATION FairSpec
INVARIANTS
    FeedsAreFollowed
    FollowersAgree
PROPERTIES
    FramesAreSpaced
    ChangesAreSent
CHECK_DEADLOCK FALSE
