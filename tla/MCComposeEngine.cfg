SPECIFICATION Spec
CONSTANTS
    Primary = "image"
    MapsUser = TRUE
    Options <- MCOptions
    Faults = {"error", "inspect", "crash", "exit", "untag"}
    Races = FALSE
    MaxRev = 2
    MaxCalls = 3
    MaxIncidents = 3
INVARIANTS StampIsTrue
PROPERTIES UpIsCurrent AdoptNeverReplaces UnchangedIsKept FreshIsFresh
CHECK_DEADLOCK FALSE
