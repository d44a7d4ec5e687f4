SPECIFICATION OrchSpec
CONSTANTS
    db = db
    job = job
    app = app
    Service <- Three
    Plans <- TeardownPlans
    Version = {"v1"}
    Digest = {"d1"}
    Faults = {"list", "inspect", "remove", "network"}
    Races = FALSE
    Healthchecks = TRUE
    ExitCodes = FALSE
    HealthReported = TRUE
    ImageHealth = {}
    BuiltImages = {app}
    Initial <- FreshThree
    HealthTimeout = 0
    DownPlans <- AllDownPlans
    MaxCalls = 2
INVARIANT DownLeavesNothing
PROPERTY DependentsRemovedFirst
CHECK_DEADLOCK FALSE
