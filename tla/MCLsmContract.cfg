SPECIFICATION FairSpec
CONSTANTS
    Writers = {w1}
    Keys = {1, 2}
    TableKeys = {1, 2}
    Calls = {"mutate", "close"}
    Faults = {}
    MemtableThreshold = 2
    Fanout = 2
    Tiers = {0}
    MaxWrites = 4
    MaxSeq = 6
    MaxGen = 6
    MaxCrashes = 1

PROPERTIES RefinesStorageEngine FrozenGetsFlushed ShutdownCompletes RecoveryCompletes
CHECK_DEADLOCK FALSE
