SPECIFICATION Spec
CONSTANTS
    Callers = {c1, c2}
    NoCaller = NoCaller
    FsyncModes = {TRUE}
    Faults = {"stream", "fdatasync"}
    MaxCalls = 1
INVARIANT AckedSurvivesCrash
CHECK_DEADLOCK FALSE
