SPECIFICATION AdminSpec
CONSTANTS
    Installed = {"rules", "sheet"}
    Needs <- MCNeeds
    Keeper = "sheet"
    Asking = {}
    NoAddon = "nothing"
    MaxHostRev = 3
INVARIANT OneChangeAtATime
 
PROPERTY BusyEnds
