CONSTANTS
    s1 = s1
    s2 = s2
    key = key
    file = file
    Sessions = {s1, s2}
    Picks <- MCPicks
    Files = {file}
    Values = {0, 1, 2}
    Unset = 0
    Editors = {s1}
    MaxSteps = 2
    MaxSessions = 1
    MaxChanges = 3
    Hands = {2}
    Clicked = {0, 1}
    MaxUpsets = 1
    MayNotSave = TRUE
SPECIFICATION HistorySpec
INVARIANTS
    NetTellsTheDifference
    StepsGoOn
PROPERTIES
    CancelRestores
CHECK_DEADLOCK FALSE
