CONSTANTS
    MaxLeases = 4
    MaxFaults = 2
SPECIFICATION Spec
PROPERTY DeregisterIsFinal
CHECK_DEADLOCK FALSE
