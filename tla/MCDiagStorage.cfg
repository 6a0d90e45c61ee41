\* Two ids with slots of their own, opened twice; careless clients; memory runs out once.
SPECIFICATION Spec
CONSTANTS
    t1 = t1
    t2 = t2
    Threads = {t1, t2}
    Granules = {1, 2}
    Capacity = 2
    MaxOpens = 2
    MaxLive = 2
    Careless = TRUE
    a1 = a1
    a2 = a2
    AllocIds = {a1, a2}
    FirstRecords = 1
    c1 = c1
    c2 = c2
    Cells = {c1, c2}
    Null = Null
    MaxRecords = 2
    MaxFailures = 1
SYMMETRY Symmetry
INVARIANTS
    DiagTypeOK
    MemoryInv
    RecordInv
    SafeAccess
    NoLeak
    RecordsMatch
    VerdictExact
    ReportExact
PROPERTY ImplementsLedger
CHECK_DEADLOCK FALSE
