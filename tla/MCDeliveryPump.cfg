SPECIFICATION FairPumpSpec
CONSTANTS
    MaxRows = 3
    Captured = {2, 3}
    BatchSize = 2
    ScanLimit = 2
    Timeout = 1
    Delay <- ShortWaits
    MaxFaults = 2
    MaxDamage = 1
    Never = Never
INVARIANTS
    PumpTypeOK
    AckedIsStored
    OnceWithoutFaults
PROPERTIES
    BackoffKept
    Delivers
