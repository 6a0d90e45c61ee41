\* Five reports through a ring of three; the arrays of a summary start with one entry.
SPECIFICATION SummarySpec
CONSTANTS
    Reports <- Distinct
    Null = Null
    Limit = 3
    MaxDrain = 4
    Sites = {"a", "b", "c"}
    FirstCapacity = 1
    Mark = 99
INVARIANTS
    RingInv
    SummaryExact
    PinningCountExact
PROPERTY ImplementsQueue
CHECK_DEADLOCK FALSE
