CONSTANTS
    Blocks <- OneBlock
    ChunksOf <- OneChunksOf
    MaxUploadChunks = 3
    MaxUploadRetries = 3
    Refusals = {}
    CanIgnore = FALSE
    RefModulus = 13
    FirstRefs = {1}
SPECIFICATION Spec
INVARIANTS
    OnlyTransientFailures
CHECK_DEADLOCK FALSE
