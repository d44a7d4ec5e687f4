SPECIFICATION Spec
CONSTANTS
    Primary = "image"
    MapsUser = TRUE
    Options <- OnePlainUp
    Faults = {}
    Races = FALSE
    MaxRev = 1
    MaxCalls = 2
    MaxIncidents = 0
PROPERTIES ReattachKeepsContainer
CHECK_DEADLOCK FALSE
