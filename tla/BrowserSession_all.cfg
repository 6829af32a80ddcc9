SPECIFICATION Spec
CONSTANTS
    Roles <- MCRoles
    Events <- MCEvents
    Nobody = "nobody"
    MaxSession = 2
    MaxRev = 1
INVARIANTS
    AcceptedForAuthority
PROPERTIES
    DraftsSurvive
    
CHECK_DEADLOCK FALSE
