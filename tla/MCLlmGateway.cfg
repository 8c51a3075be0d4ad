CONSTANTS
    Requests = {"json", "sse"}
    Streamed = {"sse"}
    Structured = {"json"}
    Routes <- MCRoutes
    Weighted = TRUE
    Weight <- MCWeight
    MaxRetriesPerRequest = 3
    MaxRetriesPerRoute = 1
    StructuredRetries = 1
    FailureThreshold = 2
    Burst = 1
SPECIFICATION Spec
INVARIANTS
    TypeOK
    AttemptsBounded
    OneStreamReachesClient
    LedgerAgrees
    CircuitAgrees
PROPERTIES
    OpenCircuitsDrain
    EveryCallEnds
CHECK_DEADLOCK FALSE
