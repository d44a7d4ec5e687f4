SPECIFICATION GraphFairSpec
CONSTANTS
    a = a
    b = b
    c = c
    Service <- MCService
    Plans <- MCPlans
INVARIANT LevelsRespectDeps
INVARIANT ReportedCycleIsACycle
INVARIANT ClosureIsLeast
PROPERTY GraphTerminates
CHECK_DEADLOCK FALSE
