\* Three ids with the same home in two slots; late frees; two threads.
SPECIFICATION FairSpec
CONSTANTS
    t1 = t1
    t2 = t2
    Threads = {t1, t2}
    Granules = {1, 2, 3}
    Capacity = 2
    Hash <- HashSame
    CountMod = 16
    MaxOpens = 1
    MaxLive = 1
    Careless = FALSE
INVARIANTS
    TypeOK
    ExclusiveSlot
    RightSlot
    NoFalseDrainable
    SlotInv
    CountInv
PROPERTY CallsReturn
CHECK_DEADLOCK FALSE
