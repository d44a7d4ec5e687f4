SPECIFICATION OrchFairSpec
CONSTANTS
    db = db
    job = job
    app = app
    Service <- Three
    Plans <- GatePlans
    Version = {"v1"}
    Digest = {"d1"}
    Faults = {"start", "cancel", "run", "pull"}
    Races = FALSE
    Healthchecks = TRUE
    ExitCodes = TRUE
    HealthReported = TRUE
    ImageHealth = {}
    BuiltImages = {}
    Initial <- JobAbsent
    HealthTimeout = 1
    DownPlans = {}
    MaxCalls = 2
INVARIANT DepsStartedFirst
INVARIANT GatesHoldBeforeStart
INVARIANT UpReportIsTrue
PROPERTY CallsReturn
CHECK_DEADLOCK FALSE
