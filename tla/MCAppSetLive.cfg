SPECIFICATION Spec
CONSTANTS
    c1 = c1
    c2 = c2
    Clusters = {c1}
    UserSpecs <- LiveSpecs
    Leftovers <- NoLeftovers
    FirstReports = {"Installing", "Running"}
    ReportLags = {0}
    PodCounts <- OnePodEach
    StepLoop = TRUE
    RetrySteps = 2
    NoApp = NoApp
    NoAdv = NoAdv
    MaxEdits = 2
    MaxTroubles = 2
PROPERTIES ImplementsAbs DeletionCompletes OrphansCleaned DeployedUndisturbed StatusFollows UnwantedRetired
CHECK_DEADLOCK FALSE
