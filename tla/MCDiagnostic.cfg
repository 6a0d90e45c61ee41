\* Two threads, two granules, two allocations, from creation to destruction; no sweep beside a close.
SPECIFICATION ProfilerSpec
CONSTANTS
    t1 = t1
    t2 = t2
    Threads = {t1, t2}
    Granules = {1, 2}
    Capacity = 2
    MaxOpens = 1
    MaxLive = 1
    Careless = FALSE
    a1 = a1
    a2 = a2
    AllocIds = {a1, a2}
    FirstRecords = 1
    c1 = c1
    c2 = c2
    Cells = {c1, c2}
    Null = Null
    MaxRecords = 1
    MaxFailures = 1
    CounterMod = 32
    CloseError <- MinusOne
    Queries = {"sweep"}
    MaxAllocs = 2
    MaxQueries = 1
    MaxResets = 1
    Limit = 1
    MaxDrain = 1
    RacingSweeps = FALSE
SYMMETRY Symmetry
INVARIANTS
    ReportIfPinned
    
    SafeSweep
    SweepBounds
    NothingLeft
    
CHECK_DEADLOCK FALSE
