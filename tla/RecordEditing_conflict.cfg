SPECIFICATION Spec
CONSTANTS
    Fields <- MCFields
    Values = {0, 1}
    Empty = 0
    Resets <- MCResets
    PanelField = "rank"
    MaxRev = 3
    MaxSaves = 2
INVARIANT ConflictIsShown
CHECK_DEADLOCK FALSE
