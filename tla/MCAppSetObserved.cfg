SPECIFICATION Spec
CONSTANTS
    c1 = c1
    c2 = c2
    Clusters = {c1}
    UserSpecs <- OneClusterSpecs
    Leftovers <- NoLeftovers
    FirstReports = {"Installing", "Running"}
    ReportLags = {0}
    PodCounts <- OnePodEach
    StepLoop = TRUE
    RetrySteps = 2
    NoApp = NoApp
    NoAdv = NoAdv
    MaxEdits = 2
    MaxTroubles = 0
INVARIANTS RunningMeansApplied
CHECK_DEADLOCK FALSE
