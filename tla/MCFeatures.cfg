SPECIFICATION Spec
CONSTANTS
    Ref <- Refs
    Option = {0, 1, 2}
    IdOf <- Ids
    dagErrorDepth = 3
    Kind <- Kinds
    Place <- Places
    BareId <- BareIds
    Digest = {1, 2, 3, 4, 5, 6}
    Artifact <- Artifacts
    Serves <- Names
    Outside = {}
    Configs <- Asked
    Bases <- BaseImages
    Options <- CallOptions
    Faults = {"fetch", "write", "build", "crash"}
    MaxCalls = 2
    MaxMoves = 2
INVARIANT LockIsExact
INVARIANT FrozenInstallsTheLock
INVARIANT FrozenAcceptsOwnLock
INVARIANT DependenciesFirst
INVARIANT ImageIsAsAsked
INVARIANT OrderIsSound
INVARIANT OrderIsStable
CHECK_DEADLOCK FALSE
