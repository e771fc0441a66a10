SPECIFICATION Spec
CONSTANTS
    Rows <- MCRows
    InitialTable <- MCInitialTable
    ReadRequestSet <- MCRequests
    kMaxReadPageBytes = 4
    kMaxReadPageItems = 2
    MaxWrites = 2
    MaxLayers = 3
    None = None
    Tombstone = Tombstone
    Missing = Missing
    Fragments <- MCFragments
    Identifiers <- MCIdentifiers
    NameMap <- MCNameMap
    ValueMap <- MCValueMap
    IndexOf <- MCIndexOf
    ConditionItems <- MCConditionItems
    MaxFragments = 4
    kMaxParserDepth = 15
    kMaxParserTokens = 15
    kMaxFunctionArgs = 2
    MaxEvalDepth = 2
    Clauses <- MCClauses
    InitialHeap <- MCHeap
    StoredItem <- MCStoredItem
    ExpressionValues <- MCExpressionValues
    MaxClauses = 3
    Writers = {w1, w2}
    Iterators = {i1}
    Limits = {1, 2}
    Retention = 1
    IteratorLifetime = 1
    Garbage = Garbage
    MaxAppends = 3
    MaxTime = 3
    MaxSteps = 1
    MaxReads = 3
    Threads = {h1, h2, h3}
    Capacity = 2
    MaxCalls = 5
INVARIANTS PagedReadIsComplete ReadFollowsKeyOrder EnginesAgree ConditionMeansWhatItSays UpdatesActByValue StoredItemUntouched IteratorsMoveForward
PROPERTIES PagesMoveOn QueueKeepsItsOrder
CHECK_DEADLOCK FALSE
