SPECIFICATION Spec
CONSTANTS
    Awaits = FALSE
    CAP = 2
    CHUNK = 2
    Sizes <- SmallWrites
    MaxWrites = 3
    MaxFeeds = 1
INVARIANT OutputWhole
CHECK_DEADLOCK FALSE
