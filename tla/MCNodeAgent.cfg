SPECIFICATION NodeSpec
CONSTANTS
    Workers = {agent}
    Agent = agent
    Events = {n1, n2, same2, m1}
    Resources = {r1, r2}
    Shards = {s1}
    Adapters = {a1, a2}
    Contents = {c1, c2}
    Generation <- MCGeneration
    Resource <- MCResource
    Content <- MCContent
    Adapter <- MCAdapter
    Shard <- MCShard
    Policies <- AuthorityOnly
    Faults = {"crash", "artifact", "drift"}
    MaxFlight = 1
    MaxFaults = 1
    Untouched = Untouched
    Torn = Torn
    None = None
    n1 = n1
    n2 = n2
    same2 = same2
    m1 = m1
    r1 = r1
    r2 = r2
    a1 = a1
    a2 = a2
    s1 = s1
    c1 = c1
    c2 = c2
INVARIANTS
    AgentTypeOK
    AckAfterOutcome
    AppliedIsTrue
PROPERTY GateSound
CHECK_DEADLOCK FALSE
