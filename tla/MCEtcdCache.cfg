CONSTANTS
    Keys = {k1, k2, k3}
    Values = {v1, v2}
    Absent = Absent
    MaxBatch = 2
SPECIFICATION Spec
INVARIANT TypeOK
INVARIANT NoDuplicateKeys
PROPERTY BatchKeepsOrder
PROPERTY CacheRefinesKeyValueMap
\* A panicking UpdateByWatchEvent ends the process: that state has no successor.
CHECK_DEADLOCK FALSE
