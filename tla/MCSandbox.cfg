CONSTANTS
    Workers = {w1, w2}
    Data = {"a", "b"}
    ToolSets <- EitherTools
    MaxChanges = 4
    MaxFaults = 1
SPECIFICATION Spec
INVARIANTS
    SandboxTypeOK
    ReadIsCurrent
    TemporariesAreOwned
    ConfirmedMeansQuiet
PROPERTIES
    NothingUnseenIsLost
    ExecuteReturns
CHECK_DEADLOCK FALSE
