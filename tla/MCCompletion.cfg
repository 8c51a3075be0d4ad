CONSTANTS
    Checkers = {w1, w2}
    Creator = w1
    Calls <- MCCalls
    Intents <- MCCalls
    NoIntent = NoIntent
    MaxToolCalls = 0
    MaxLeases = 2
    Contents = {"v0", "v1", "gone"}
    Original = "v0"
    Gone = "gone"
    Workspaces <- MCWorkspaces
    Documents = {"v1"}
    Cited <- MCCited
    Ranges <- MCRanges
    Reports <- MCReports
    MaxEdits = 2
    MaxReads = 2
    MaxFaults = 1
SPECIFICATION Spec
INVARIANTS
    CompletionTypeOK
    AcceptedAsTested
    AcceptedRepairIsComplete
    AcceptedEvidenceStands
    AcceptedDocumentWasRead
PROPERTIES
    ImplementsAcceptance
    VerdictReached
CHECK_DEADLOCK FALSE
