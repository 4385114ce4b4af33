SPECIFICATION FairPumpSpec
CONSTANTS
    MaxRows = 3
    Captured = {3}
    BatchSize = 2
    ScanLimit = 8
    Timeout = 2
    Delay <- LongWaits
    MaxFaults = 0
    MaxDamage = 0
    Never = Never
PROPERTY Delivers
