SPECIFICATION Spec
CONSTANTS
    Writers = {w1}
    Keys = {1}
    TableKeys = {1}
    Calls = {"put", "remove"}
    Faults = {"sst", "manifest"}
    MemtableThreshold = 1
    Fanout = 2
    Tiers = {0, 1}
    MaxWrites = 3
    MaxSeq = 4
    MaxGen = 6
    MaxCrashes = 1
INVARIANTS ReadsSeeLastWrite ManifestFilesExist RestartKeepsOrder RunIntact
CHECK_DEADLOCK FALSE
