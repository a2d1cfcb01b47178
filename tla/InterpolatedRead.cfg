SPECIFICATION ReadSpec
CONSTANTS
    t1 = t1
    t2 = t2
    c1 = c1
    c2 = c2
    c3 = c3
    empty = empty
    Null = Null
    Threads <- MCThreads
    Keys <- MCKeys
    Missing <- MCMissing
    Size = 3
    MaxLookups = 3
SYMMETRY Symmetry
INVARIANTS
    OnlyDoubleLoadsLeak
