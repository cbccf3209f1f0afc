CONSTANTS
    Requests <- MCRequests
    Failures = {"netTimeout", "io", "protocol", "s7", "mismatch"}
    QueryAnswers = {"ok", "bad"}
SPECIFICATION FairSpec
INVARIANTS
    EveryProbeReported
    StopsForAReason
    ConfirmedIsAnswered
PROPERTIES
    ImplementsPool
    ProbeReturns
CHECK_DEADLOCK FALSE
