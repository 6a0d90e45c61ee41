\* Two buffered reports of the same granule id.
SPECIFICATION SummarySpec
CONSTANTS
    Reports <- Reused
    Null = Null
    Limit = 3
    MaxDrain = 2
    Sites = {"a", "b", "c"}
    FirstCapacity = 1
    Mark = 99
INVARIANT PinningCountExact
CHECK_DEADLOCK FALSE
