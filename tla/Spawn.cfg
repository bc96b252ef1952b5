SPECIFICATION Spec
CONSTANTS
    Awaits = TRUE
    CAP = 2
    CHUNK = 2
    Sizes <- SmallWrites
    MaxWrites = 2
    MaxFeeds = 1
CHECK_DEADLOCK FALSE
INVARIANTS GoneIsTold OutputIsTrue
PROPERTIES ImplementsLife SpawnEnds
