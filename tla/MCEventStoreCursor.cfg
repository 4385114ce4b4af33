SPECIFICATION StoreSpec
CONSTANTS
    Producers = {p}
    Others = {}
    Recovery = Recovery
    Collector = Collector
    Contents = {x}
    Degraded = Degraded
    Keys = {}
    ProducerOf <- MCProducerOf
    Legacy <- OldOutbox
    MaxSeq = 3
    MaxDamage = 0
    PubAcks = {1}
    None = None
    p = p
    k1 = k1
    k2 = k2
    x = x
    y = y
INVARIANTS
    CursorNamesItsEvent
