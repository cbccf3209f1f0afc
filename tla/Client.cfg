CONSTANTS
    t1 = t1
    t2 = t2
    rsA = rsA
    rsB = rsB
    Threads <- MCThreads
    Unbounded = {}
    NoThread = NoThread
    RackSlots <- MCRackSlots
    NoRackSlot = NoRackSlot
    CandidateLists <- AutoCandidates
    PDUSizes = {0, 2}
    ReqSizes = {1, 3}
    AnswerKinds = {"ok", "s7err"}
    RefModulus = 3
    MaxConns = 2
    MaxRequests = 3
    MaxExchanges = 2
SYMMETRY Symmetry
SPECIFICATION Spec
INVARIANTS
    IInv
    NoUseAfterClose
    NoLeakedConns
    FailedConnectKeepsSession
    SnapshotConsistent
    FitsNegotiatedPDU
    CorrelatedUnlessWrapped
PROPERTIES
    Implements
