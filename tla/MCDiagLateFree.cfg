SPECIFICATION Spec
CONSTANTS
    t1 = t1
    t2 = t2
    Threads = {t1, t2}
    Granules = {1, 2}
    Capacity = 1
    MaxOpens = 1
    MaxLive = 1
    Careless = FALSE
    a1 = a1
    a2 = a2
    AllocIds = {a1, a2}
    FirstRecords = 1
    c1 = c1
    c2 = c2
    Cells = {c1, c2}
    Null = Null
    MaxRecords = 1
    MaxFailures = 0
INVARIANT ExtractionSafe
CHECK_DEADLOCK FALSE
