SPECIFICATION FairSpec
CONSTANTS
    MaxResult = 4
    MaxRecords = {0, 1, 2}
    InitialMax = 2
    Stoppers = {s1}
    AddTwice = FALSE
    ClearAllowed = TRUE
INVARIANTS RecordsTracked
PROPERTIES LimitKept OldestPruned QueueFlushed
CHECK_DEADLOCK FALSE
