\* A sweep beside a close.
SPECIFICATION ProfilerSpec
CONSTANTS
    t1 = t1
    t2 = t2
    Threads = {t1, t2}
    Granules = {1}
    Capacity = 1
    MaxOpens = 1
    MaxLive = 1
    Careless = FALSE
    a1 = a1
    AllocIds = {a1}
    FirstRecords = 1
    c1 = c1
    c2 = c2
    Cells = {c1, c2}
    Null = Null
    MaxRecords = 1
    MaxFailures = 0
    CounterMod = 32
    CloseError <- MinusOne
    Queries = {"sweep"}
    MaxAllocs = 0
    MaxQueries = 1
    MaxResets = 0
    Limit = 1
    MaxDrain = 1
    RacingSweeps = TRUE
INVARIANT SafeSweep
CHECK_DEADLOCK FALSE
