CONSTANTS
    Requests <- MCRequests
    Reads <- MCReads
    Calls <- MCCalls
SPECIFICATION FairSpec
INVARIANTS
    SpansAreMaximalRuns
    ReadableWasRead
    ObservationIsHonest
    CompleteUnlessError
PROPERTIES
    ScanReturns
CHECK_DEADLOCK FALSE
