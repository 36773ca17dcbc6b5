SPECIFICATION FairSpec
CONSTANTS
    Stop = Stop
    Capacity = 3
    MaxEntry = 6
INVARIANTS
    TypeOK
    OrderKept
    CleanStop
PROPERTIES
    ImplementsLog
    ShutdownEnds
    EntriesSettle
CHECK_DEADLOCK FALSE
