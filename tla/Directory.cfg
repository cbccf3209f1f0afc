CONSTANTS
    lister = lister
    other = other
    Threads = {lister, other}
    NoThread = NoThread
    CallsOf <- MCCallsOf
    Blocks <- MCBlocks
    CPUBytes = {8, 4}
    FirstPLCs <- MCFirstPLCs
    Lengths = {19, 20, 34}
    Slacks = {2}
    FieldSets <- MCFieldSets
    AnswerKinds = {"itemErr", "short"}
    MaxCalls = 2
    MaxFaults = 2
    MaxChanges = 1
SPECIFICATION Spec
INVARIANTS
    ListingIsRegular
    InfoIsOfTheBlock
    StateIsCurrent
    IdentifyIsSound
CHECK_DEADLOCK FALSE
