SPECIFICATION StreamSpec
CONSTANTS
    Writers = {w1, w2}
    Iterators = {i1}
    Limits = {1, 2}
    Retention = 1
    IteratorLifetime = 1
    Garbage = Garbage
    MaxAppends = 3
    MaxTime = 3
    MaxSteps = 0
    MaxReads = 3
INVARIANTS SequenceNumbersIncrease
CHECK_DEADLOCK FALSE
