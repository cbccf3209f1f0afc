CONSTANTS
    rsA = rsA
    rsB = rsB
    RackSlots = {rsA, rsB}
    NoRackSlot = NoRackSlot
    Data = {d1, d2}
    NoData = NoData
    Candidates <- MCCandidates
    Parallelisms = {0, 1, 2, 3}
    Failures = {"timeout", "short-read"}
SPECIFICATION FairSpec
INVARIANTS
    EveryCandidateReported
    VerdictIsTrue
PROPERTIES
    ImplementsPool
    WrittenOnce
    CompareReturns
CHECK_DEADLOCK FALSE
