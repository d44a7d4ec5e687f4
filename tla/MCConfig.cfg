SPECIFICATION Spec
CONSTANTS
    Text <- MCText
    Feature = {"docker", "tools"}
    Metadata <- MCMetadata
    Published <- MCPublished
    Configs <- MCConfigs
    Variable = {"PATH", "HOME", "MODE"}
    Service <- MCService
    ImageEntrypoint <- MCEntrypoint
    ExtraMounts <- MCExtra
    Native = TRUE
    Hosts = {"", "h1", "h2"}
    Faults = {"inspect"}
    MaxChanges = 3
INVARIANT ServiceIsKept
INVARIANT BackendsAgree
INVARIANT ReattachKeepsService
INVARIANT ViewIsDefined
CHECK_DEADLOCK FALSE
