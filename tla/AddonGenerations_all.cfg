SPECIFICATION Spec
CONSTANTS
    Addons = {"rules", "sheet"}
    Deps <- MCDeps
    Section = "sheet"
    Nothing = "nothing"
    MaxRev = 3
    MaxStarts = 2
    MaxQueued = 1
INVARIANT ProvidersRunFirst
PROPERTY CopyIsKept
PROPERTY NewsIsApplied
