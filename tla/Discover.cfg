CONSTANTS
    Slots = 2
    Scans <- MCScans
SPECIFICATION FairSpec
INVARIANTS
    ResultsInOrder
    Complete
PROPERTIES
    AllEnd
    ImplementsPool
CHECK_DEADLOCK FALSE
