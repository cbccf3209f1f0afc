CONSTANTS
    Blocks <- MCBlocks
    ChunksOf <- MCChunksOf
    MaxUploadChunks = 3
    MaxUploadRetries = 3
    Refusals = {"s7err", "badBody"}
    CanIgnore = TRUE
    RefModulus = 13
    FirstRefs = {0, 2, 4, 6, 8, 10, 12}
SPECIFICATION FairSpec
INVARIANTS
    UploadComplete
    SessionEnded
    NextCallInStep
PROPERTIES
    UploadReturns
CHECK_DEADLOCK FALSE
