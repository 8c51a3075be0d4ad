CONSTANTS
    w1 = w1
    w2 = w2
    c1 = c1
    c2 = c2
    c3 = c3
    Workers = {w1, w2}
    Calls = {c1,c2,c3}
    NoIntent = NoIntent
    Intents <- MCIntents
    Risk <- MCRisk
    NeedsApproval <- MCNeeds
    Idempotent <- MCIdem
    ReadLimit = 1
    MaxToolCalls = 2
    MaxLeases = 2
SPECIFICATION Spec
INVARIANTS
    TypeOK
    AtMostOnce
    ReadsBounded
    ExecutionsAreRecorded
    ApprovedBeforeExecution
    IntentsAreAuthorised
    WaitingOnOneApproval
    ChargedOnce
    ApprovalTracksCall
PROPERTIES
    ApprovedCallsStartInRunningRun
    NothingIsResurrected
CHECK_DEADLOCK FALSE
SYMMETRY Symmetry
