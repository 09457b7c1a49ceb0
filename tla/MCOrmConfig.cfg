\* Three callers: a leader, a caller joining its flight, and one arriving
\* after the flight.  The conf directory lists up to three of: the default
\* file d, another config file t, and a non-config file x.
CONSTANTS
    Callers = {c1, c2, c3}
    None = None
    ConfigNames = {d, t}
    OtherNames = {x}
    DefaultName = d
    MaxEntries = 3
SPECIFICATION OcSpec
INVARIANT OcTypeOK
INVARIANT GetImpliesCompleteLoad
\* The program may stop: every Get has returned, or the process panicked.
CHECK_DEADLOCK FALSE
