CONSTANTS
    Keys = {k1, k2}
    Values = {v1, v2}
    Absent = Absent
    MaxRev = 3
    BatchKeyLists <- MCBatchKeyLists
SPECIFICATION Spec
INVARIANT TypeOK
INVARIANT DivergenceOnlyFromGap
INVARIANT PanicOnlyFromGap
PROPERTY CatchUp
\* etcd writes are bounded by MaxRev: every behaviour ends with all
\* goroutines blocked waiting for input, or with the process panicked.
CHECK_DEADLOCK FALSE
