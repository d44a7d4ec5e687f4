SPECIFICATION OrchSpec
CONSTANTS
    db = db
    job = job
    app = app
    Service <- Two
    Plans <- ReusePlans
    Version = {"v1", "v2"}
    Digest = {"d1", "d2"}
    Faults = {"network", "volume", "list", "remove", "start"}
    Races = FALSE
    Healthchecks = TRUE
    ExitCodes = TRUE
    HealthReported = TRUE
    ImageHealth = {}
    BuiltImages = {}
    Initial <- ReuseInitial
    HealthTimeout = 0
    DownPlans = {}
    MaxCalls = 2
PROPERTY ReusableSurvivesUp
PROPERTY ReuseIsCurrent
CHECK_DEADLOCK FALSE
