SPECIFICATION Spec
SYMMETRY Interchangeable
CONSTANTS
    User = {u1}
    Thread = {t1, t2}
    Key = {k1, k2, k3}
    None = None
    DailyLimit = 1
    MaxInference = 1
    MaxEntries = 2
    Ttl = 1
    MaxDay = 1
    MaxFailures = 1
INVARIANTS
    GateExact
    UsageBounded
    SpendingBounded
    CacheBounded
PROPERTIES
    ExpiredFirst
