SPECIFICATION Spec
CONSTANTS
    Fields <- MCFields
    Values = {0, 1}
    Empty = 0
    Resets <- MCResets
    PanelField = "rank"
    MaxRev = 3
    MaxSaves = 2
PROPERTIES
    NoBlindOverwrite
    ClosedDraftsAreShown
    SavesEnd
CHECK_DEADLOCK FALSE
