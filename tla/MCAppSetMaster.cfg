SPECIFICATION Safety
CONSTANTS
    c1 = c1
    c2 = c2
    Clusters = {c1, c2}
    UserSpecs <- TwoClusterSpecs
    Leftovers <- NoLeftovers
    FirstReports = {"Running"}
    ReportLags = {0}
    PodCounts <- FirstScaled
    StepLoop = TRUE
    RetrySteps = 2
    NoApp = NoApp
    NoAdv = NoAdv
    MaxEdits = 2
    MaxTroubles = 1
INVARIANTS TypeOK RunningCoversTargets NoOrphans
PROPERTIES CreateOnlyProtected FinalizedClean NoLostUpdate
CHECK_DEADLOCK FALSE
