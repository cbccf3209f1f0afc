CONSTANTS
    PDUSizes = {0, 26, 31, 32}
    LengthLimit = 64
    Ranges <- MCRanges
    ReadAnswers = {"full", "short", "long", "noItems", "rejected", "rejectedUnsized", "s7err", "malformed"}
    WriteAnswers = {"full", "rejected", "malformed", "s7err"}
    MaxCalls = 3
SPECIFICATION Spec
INVARIANTS
    WritesPrefix
    SuccessMeansInStep
    ExchangesFit
    ReadReturnsMemory
CHECK_DEADLOCK FALSE
