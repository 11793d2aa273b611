SPECIFICATION Spec
CONSTANTS
    c1 = c1
    c2 = c2
    Clusters = {c1, c2}
    UserSpecs <- TwoClusterSpecs
    Leftovers <- SomeLeftovers
    FirstReports = {"Installing", "Running"}
    ReportLags = {0, 1}
    PodCounts <- OnePodEach
    StepLoop = FALSE
    RetrySteps = 2
    NoApp = NoApp
    NoAdv = NoAdv
    MaxEdits = 3
    MaxTroubles = 2
PROPERTIES OrphansCleaned
CHECK_DEADLOCK FALSE
