CONSTANTS
    p1 = p1
    p2 = p2
    p3 = p3
    Pool <- MCPool
    Publishers = {u1, u2}
    MaxFaults = 2
    Balancers <- Kinds
    HashSample <- MCHashSample
    Width = 2
    None = None
SPECIFICATION Spec
SYMMETRY PublisherSymmetry
INVARIANTS
    TypeOK
    PoolPartition
    BalancedIndexInRange
\* The program may stop: a panic ends it, and once Close is done and the
\* pool is empty no call changes anything.
CHECK_DEADLOCK FALSE
