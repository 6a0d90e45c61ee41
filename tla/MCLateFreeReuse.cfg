\* An allocation outlives its granule, and the id is used again.
SPECIFICATION Spec
CONSTANTS
    t1 = t1
    t2 = t2
    Threads = {t1, t2}
    Granules = {1}
    Capacity = 1
    Hash <- HashDistinct
    CountMod = 8
    MaxOpens = 2
    MaxLive = 2
    Careless = TRUE
INVARIANT NoFalseDrainable
CHECK_DEADLOCK FALSE
