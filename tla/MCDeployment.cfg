SPECIFICATION Spec
CONSTANTS
    Batch = 4
    Deliveries = 4
    MaxFaults = 4
    Initializers <- MCInitializers
    Requested <- MCRequested
    Defaults <- MCDefaults
    MaxAttempts = 2
INVARIANTS
    TypeOK
    OwnMessages
    OneStream
    StopHonest
PROPERTIES
    Served
    AllEnd
    ReadyIsTrue
CHECK_DEADLOCK FALSE
