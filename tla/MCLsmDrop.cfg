SPECIFICATION Spec
CONSTANTS
    Writers = {w1}
    Keys = {1, 2, 3}
    TableKeys = {1, 2}
    Calls = {"put", "drop"}
    Faults = {}
    MemtableThreshold = 2
    Fanout = 2
    Tiers = {0}
    MaxWrites = 5
    MaxSeq = 1
    MaxGen = 3
    MaxCrashes = 1
INVARIANT AckedWritesSurvive
PROPERTY DropEmptiesTable
CHECK_DEADLOCK FALSE
