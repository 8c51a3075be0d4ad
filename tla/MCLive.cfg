CONSTANTS
    w1 = w1
    w2 = w2
    c1 = c1
    c2 = c2
    Workers = {w1, w2}
    Calls = {c1}
    NoIntent = NoIntent
    Intents <- MCIntents
    Risk <- MCRisk
    NeedsApproval <- MCNeeds
    Idempotent <- MCIdem
    ReadLimit = 2
    MaxToolCalls = 2
    MaxLeases = 2
    Paths = {"file"}
    Writes <- MCWrites
    Covers <- MCCovers
SPECIFICATION LiveSpec
PROPERTIES
    RecoveryAnswers
    AbandonedCallIsSettled
CHECK_DEADLOCK FALSE
