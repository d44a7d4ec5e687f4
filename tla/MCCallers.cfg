SPECIFICATION LifeSpec
CONSTANTS
    p1 = p1
    p2 = p2
    f = f
    u = u
    v = v
    s = s
    t = t
    i = i
    Caller = {p1, p2}
    Command = {f, u, s}
    Hooks <- SingleHooks
    Faults = {"exit", "cut", "start", "stop", "remove"}
    UpOptions <- RecreateUp
    AttachViews = {}
    RunSets <- RunAny
    DownOptions = {TRUE}
    MaxCalls = 3
    MaxRestarts = 1
INVARIANT MarkerIsTrue
INVARIANT PhasesInOrder
INVARIANT UpMeansDone
INVARIANT DownMeansGone
SYMMETRY SwapCallers
CHECK_DEADLOCK FALSE
