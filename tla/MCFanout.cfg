SPECIFICATION Spec
CONSTANTS
    Clusters = {c1, c2, c3}
    ReturnOnError = FALSE
    Pending = Pending
    NoAnswer = NoAnswer
INVARIANTS TypeOK NoSendOnClosed AnswerComplete
PROPERTIES NoLateWrite Returns Implements
