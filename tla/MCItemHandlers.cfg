\* Two clients, three requests of four operations, a clock of one tick, one crash.
SPECIFICATION Spec
CONSTANTS
    None = None
    k1 = k1
    k2 = k2
    x1 = x1
    x2 = x2
    t1 = t1
    t2 = t2
    Clients = {c1, c2}
    Keys = {k1, k2}
    IndexValues = {x1, x2}
    Tokens = {t1, t2}
    Requests <- MCRequests
    Projected <- MCProjected
    InitialItems <- MCInitialItems
    CacheSize = 1
    CacheTtl = 0
    MaxRequests = 3
    MaxOps = 4
    MaxTime = 1
    MaxCrashes = 1
SYMMETRY MCSymmetry
INVARIANTS TypeOK IndexFollowsTable StreamReplaysTable StreamMissesNoChange TokenAppliedOnce
PROPERTIES TransactionsAreAllOrNothing
CHECK_DEADLOCK FALSE
