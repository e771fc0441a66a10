SPECIFICATION Spec
CONSTANTS
    Writers = {w1}
    Keys = {1}
    TableKeys = {1}
    Calls = {"put"}
    Faults = {"unlink"}
    MemtableThreshold = 1
    Fanout = 2
    Tiers = {0}
    MaxWrites = 2
    MaxSeq = 4
    MaxGen = 5
    MaxCrashes = 1
INVARIANT AckedWritesReadable
CHECK_DEADLOCK FALSE
