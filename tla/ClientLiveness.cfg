CONSTANTS
    t1 = t1
    t2 = t2
    rsA = rsA
    rsB = rsB
    Threads <- MCThreads
    Unbounded = {t2}
    NoThread = NoThread
    RackSlots <- MCRackSlots
    NoRackSlot = NoRackSlot
    CandidateLists <- OneCandidate
    PDUSizes = {2}
    ReqSizes = {1, 3}
    AnswerKinds = {"ok", "s7err"}
    RefModulus = 2
    MaxConns = 2
    MaxRequests = 2
    MaxExchanges = 2
SPECIFICATION FairSpec
PROPERTIES
    CallsReturn
