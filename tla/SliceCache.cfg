SPECIFICATION FairSpec
CONSTANTS
    t1 = t1
    t2 = t2
    s1 = s1
    s2 = s2
    old = old
    new = new
    Torn = Torn
    Nobody = Nobody
    Absent = Absent
    Jxl = TRUE
    Threads <- TwoThreads
    Keys <- TwoSlices
    Values <- MCImages
    Capacities <- MCCapacities
    InitCapacity = 2
    MaxOps = 5
INVARIANTS
    LoadsAreNeeded
    CleanIsFresh
PROPERTIES
    ShrinkingAloneCausesMisses
    ImplementsMemo
    ReadsEnd
