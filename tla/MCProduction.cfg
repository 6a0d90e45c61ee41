\* Two threads and two granules; a snapshot or a sweep, and a reset.
SPECIFICATION ProfilerSpec
CONSTANTS
    t1 = t1
    t2 = t2
    Threads = {t1, t2}
    Granules = {1, 2}
    Capacity = 2
    Hash <- HashDistinct
    CountMod = 8
    CounterMod = 32
    CloseError = 7
    MaxOpens = 1
    MaxLive = 1
    Careless = FALSE
    Queries = {"snapshot", "sweep"}
    MaxAllocs = 1
    MaxQueries = 1
    MaxResets = 1
SYMMETRY Symmetry
INVARIANTS
    ProfilerTypeOK
    VerdictsCounted
    OpenMatchesSlots
    PeakIsMaximum
    DrainableExact
    SnapshotDrift
    SweepBounds
PROPERTY ResetClears
CHECK_DEADLOCK FALSE
