SPECIFICATION LifeFairSpec
CONSTANTS
    p1 = p1
    p2 = p2
    f = f
    u = u
    v = v
    s = s
    t = t
    i = i
    Caller = {p1}
    Command = {u, v, s, t, i}
    Hooks <- UserHooks
    Faults = {"cancel", "exit", "image", "exec", "gone", "crash"}
    UpOptions <- AnyUp
    AttachViews <- UserView
    RunSets <- RunAny
    DownOptions = {TRUE, FALSE}
    MaxCalls = 3
    MaxRestarts = 1
INVARIANT MarkedPhaseRests
PROPERTY CancelledCallsReturn
CHECK_DEADLOCK FALSE
