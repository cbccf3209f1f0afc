CONSTANTS
    Requests <- RetriedRequest
    Reads <- MCReads
    Calls <- NoCalls
SPECIFICATION Spec
INVARIANTS
    MixedIsInconclusive
CHECK_DEADLOCK FALSE
