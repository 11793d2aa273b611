SPECIFICATION Spec
CONSTANTS
    Clusters = {c1, c2}
    Pending = Pending
    NoAnswer = NoAnswer
    NotListed = NotListed
    Events <- MCEvents
    MaxEvents = 2
INVARIANTS TypeOK NoEventOnClosed EveryClusterHeard
PROPERTIES ComesBack ImplementsFanout
