SPECIFICATION Spec
CONSTANTS
    c1 = c1
    c2 = c2
    Clusters = {c1, c2}
    UserSpecs <- RetireSpecs
    Leftovers <- RetireLeftovers
    FirstReports = {"Running"}
    ReportLags = {0}
    PodCounts <- OnePodEach
    StepLoop = TRUE
    RetrySteps = 2
    NoApp = NoApp
    NoAdv = NoAdv
    MaxEdits = 1
    MaxTroubles = 1
PROPERTIES UnwantedRetired
CHECK_DEADLOCK FALSE
