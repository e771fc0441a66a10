SPECIFICATION Spec
CONSTANTS
    Writers = {w1, w2}
    Keys = {1, 2}
    TableKeys = {1, 2}
    Calls = {"mutate"}
    Faults = {}
    MemtableThreshold = 2
    Fanout = 2
    Tiers = {0}
    MaxWrites = 4
    MaxSeq = 4
    MaxGen = 5
    MaxCrashes = 2
SYMMETRY WriterSymmetry
INVARIANTS TypeOK ReadsSeeLastWrite AckedWritesSurvive MutateIsAtomic TailOnlyInActive SegmentsMatchMemtables
CHECK_DEADLOCK FALSE
