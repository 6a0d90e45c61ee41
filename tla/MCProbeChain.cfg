\* Two ids with the same home.
SPECIFICATION Spec
CONSTANTS
    t1 = t1
    t2 = t2
    Threads = {t1, t2}
    Granules = {1, 2}
    Capacity = 2
    Hash <- HashSame
    CountMod = 8
    MaxOpens = 1
    MaxLive = 1
    Careless = FALSE
INVARIANT FindsOpenGranule
CHECK_DEADLOCK FALSE
