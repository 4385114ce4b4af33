SPECIFICATION Spec
CONSTANTS
    Workers = {w1, w2}
    Events = {n1, n2, same2, other2, stray}
    Resources = {r1, r2}
    Shards = {s1, s2}
    Adapters = {a1}
    Contents = {c1, c2}
    Generation <- MCGeneration
    Resource <- MCResource
    Content <- MCContent
    Adapter <- MCAdapter
    Shard <- MCShard
    Policies <- Bindings
    Faults = {"crash", "drift", "adapter", "artifact"}
    Untouched = Untouched
    Torn = Untouched
    None = None
    n1 = n1
    n2 = n2
    same2 = same2
    other2 = other2
    stray = stray
    r1 = r1
    r2 = r2
    a1 = a1
    s1 = s1
    s2 = s2
    c1 = c1
    c2 = c2
INVARIANTS
    TypeOK
    OneWriter
    MarkerHeld
    ChecksHold
    NoSilentReplay
    OneDesiredPerGeneration
    LedgersAgree
    HonestLedger
PROPERTIES
    TerminalStays
    ImplementsLedger
SYMMETRY Interchangeable
VIEW ButResult
