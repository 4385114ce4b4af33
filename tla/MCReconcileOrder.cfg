SPECIFICATION Spec
CONSTANTS
    Workers = {w1}
    Events = {n1, n2}
    Resources = {r1}
    Shards = {s1, s2}
    Adapters = {a1}
    Contents = {c1, c2}
    Generation <- MCGeneration
    Resource <- MCResource
    Content <- MCContent
    Adapter <- MCAdapter
    Shard <- MCShard
    Policies <- AllAllowed
    Faults = {"crash"}
    Untouched = Untouched
    Torn = Torn
    None = None
    n1 = n1
    n2 = n2
    same2 = same2
    other2 = other2
    stray = stray
    r1 = r1
    r2 = r2
    a1 = a1
    s1 = s1
    s2 = s2
    c1 = c1
    c2 = c2
INVARIANT InResourceOrder
