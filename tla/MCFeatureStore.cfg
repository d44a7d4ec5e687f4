SPECIFICATION Spec
CONSTANTS
    p1 = p1
    p2 = p2
    good = good
    bad = bad
    Proc = {p1, p2}
    Digest = {good, bad}
    Content <- Artifacts
    ExactTag = {"1.0.0"}
    FloatingTag = {"1"}
    Url = {"url"}
    Refs <- Fetched
    Faults = {"answer", "unreachable", "extract", "record", "crash"}
    MaxFetches = 3
    MaxMoves = 2
INVARIANT CacheIsWhole
INVARIANT RightContent
CHECK_DEADLOCK FALSE
