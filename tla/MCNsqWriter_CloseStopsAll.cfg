CONSTANTS
    p1 = p1
    p2 = p2
    p3 = p3
    Pool <- MCPool
    Publishers = {u1, u2}
    MaxFaults = 2
    Balancers = {"RoundRobin"}
    HashSample = {0}
    Width = 2
    None = None
SPECIFICATION Spec
INVARIANT CloseStopsAll
\* A panic ends the process; Close and the publishers finish.
CHECK_DEADLOCK FALSE
