\* The bounds of MCEtcdRegistrar.cfg; the watch adds one goroutine.
CONSTANTS
    MaxLeases = 4
    MaxFaults = 2
SPECIFICATION DiscSpec
INVARIANTS
    DiscTypeOK
    SingleRecoveryToken
PROPERTIES
    RegistrationRestored
    DeregisterEndsWatch
\* After Deregister, or with the client's context cancelled, every goroutine
\* waits in a select for good: the program's idle state.
CHECK_DEADLOCK FALSE
