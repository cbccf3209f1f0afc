CONSTANTS
    Requests <- StrictDefault
    Failures = {}
    QueryAnswers = {"ok"}
SPECIFICATION Spec
INVARIANTS
    StrictConfirms
CHECK_DEADLOCK FALSE
