SPECIFICATION Spec
CONSTANTS
    MAX_ROUTINGTABLE_SLOTS = 2
    Ids <- SomeIds
    HeapInts <- AnyHeap
    MaxCalls = 4
INVARIANTS EntryUpdated
CHECK_DEADLOCK FALSE
