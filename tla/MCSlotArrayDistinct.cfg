\* Two ids with homes of their own, each opened twice; late frees; two threads.
SPECIFICATION FairSpec
CONSTANTS
    t1 = t1
    t2 = t2
    Threads = {t1, t2}
    Granules = {1, 2}
    Capacity = 2
    Hash <- HashDistinct
    CountMod = 8
    MaxOpens = 2
    MaxLive = 2
    Careless = FALSE
INVARIANTS
    VerdictExact
    FindsOpenGranule
    OpenNeverFull
    DistinctInv
PROPERTY ImplementsLedger
CHECK_DEADLOCK FALSE
