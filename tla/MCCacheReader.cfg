\* Three keys: the least for which a delete ahead of the looked-up key
\* shifts it under the reader.  Two writes: a delete and a later put.
CONSTANTS
    Keys = {k1, k2, k3}
    Nil = Nil
    NoEntry = NoEntry
    Crash = Crash
    MaxWrites = 2
SPECIFICATION Spec
INVARIANT LookupIsCorrect
\* The writer's events are bounded: a behaviour ends with both idle.
CHECK_DEADLOCK FALSE
