SPECIFICATION MCSpec
CONSTANTS
    l1 = l1
    l2 = l2
    s1 = s1
    s2 = s2
    port = port
    Labels = {l1, l2}
    Specs = {s1, s2, port}
    Numbered = {port}
    Contents <- MCContents
    MaxOthers = 2
    MaxFaults = 1
    Missing = Missing
    Idle = Idle
INVARIANT TypeOK
PROPERTIES UpdatesTakeOnlyExtras PresentAgain Implements
CHECK_DEADLOCK FALSE
