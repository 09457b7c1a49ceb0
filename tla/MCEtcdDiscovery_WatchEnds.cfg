CONSTANTS
    MaxLeases = 4
    MaxFaults = 2
SPECIFICATION DiscSpec
INVARIANTS
    WatchEndsOnlyOnCancellation
CHECK_DEADLOCK FALSE
