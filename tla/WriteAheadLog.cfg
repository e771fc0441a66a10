SPECIFICATION FairSpec
CONSTANTS
    Callers = {c1, c2, c3}
    NoCaller = NoCaller
    FsyncModes = {TRUE, FALSE}
    Faults = {"stream", "fdatasync", "descriptor", "header"}
    MaxCalls = 1
INVARIANTS TypeOK AckedBeforeFailureSurvives SyncedIsDurable
PROPERTY CommitReturns
CHECK_DEADLOCK FALSE
