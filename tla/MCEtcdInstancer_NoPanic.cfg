CONSTANTS
    Keys = {k1, k2}
    Values = {v1, v2}
    Absent = Absent
    MaxRev = 3
    BatchKeyLists <- MCBatchKeyLists
SPECIFICATION Spec
INVARIANT NoPanic
CHECK_DEADLOCK FALSE
