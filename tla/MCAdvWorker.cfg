SPECIFICATION MCSpec
CONSTANTS
    w1 = w1
    w2 = w2
    c1 = c1
    c2 = c2
    c3 = c3
    Names = {w1, w2}
    Contents = {c1, c2, c3}
    Numbered = {c3}
    Charts <- MCCharts
    HpaKinds = {"Deployment"}
    Watching = TRUE
    MaxEdits = 1
    MaxFaults = 1
    Missing = Missing
INVARIANT TypeOK
PROPERTIES RetiresAfterFullApply StatusKeepsEdits EveryObjectComes 
CHECK_DEADLOCK FALSE
