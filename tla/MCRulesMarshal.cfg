SPECIFICATION Spec
CONSTANTS
    c1 = c1
    c2 = c2
    c3 = c3
    MaxInt = 127
    Documents <- MCDocuments
    Triples <- MCTriples
    Ignorables <- MCIgnorables
    Surveys <- MCSurveys
    VersionLists <- MCVersionLists
    HpaAsks <- MCHpaAsks
    Unanswered = Unanswered
INVARIANT OnlyZeroIsNil
CHECK_DEADLOCK FALSE
