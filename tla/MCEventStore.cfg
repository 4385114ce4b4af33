SPECIFICATION StoreSpec
CONSTANTS
    Producers = {p}
    Others = {}
    Recovery = Recovery
    Collector = Collector
    Contents = {x, y}
    Degraded = Degraded
    Keys = {k1, k2}
    ProducerOf <- MCProducerOf
    Legacy <- OldOutbox
    MaxSeq = 2
    MaxDamage = 1
    PubAcks = {1}
    None = None
    p = p
    k1 = k1
    k2 = k2
    x = x
    y = y
SYMMETRY Interchangeable
INVARIANTS
    StoreTypeOK
    SequenceAhead
    OperationBacked
    RecordedDelivers
    CursorIsHighest
PROPERTIES
    RolesApart
    SignatureTells
