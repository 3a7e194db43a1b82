SPECIFICATION Spec
CONSTANTS
    None = None
    User = {u1, u2}
    Estimate = {e1, e2}
    Photo = {p1, p2, p3}
    Thread = {t1, t2}
    MaxSize = 2
    Quota = 1
    Ttl = 1
    ListLimit = 1
    MaxItems = 2
    MaxRestarts = 1
SYMMETRY Symmetric
INVARIANTS
    PhotoHasHistory
    RetentionInvariant
    QuotaBounded
    LeftBehindBounded
PROPERTIES
    RowGoesFirst
