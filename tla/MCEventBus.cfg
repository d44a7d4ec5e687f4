SPECIFICATION FairSpec
CONSTANTS
    o1 = o1
    o2 = o2
    Op = {o1, o2}
    Source = {"image", "features"}
    v1 = v1
    Vertex = {v1}
    Status <- Statuses
    BuildCap = 2
    OutCap = 1
    MaxEmits <- Emits
    Builds <- Pipeline
    MaxRecords = 1
INVARIANT CloseFlushes
INVARIANT BuildEventsAreTrue
PROPERTY ImplementsEventLog
PROPERTY CloseTerminates
CHECK_DEADLOCK FALSE
