SPECIFICATION Spec
CONSTANTS
    User = {u1}
    Key = {k1}
    Batch = {}
    MaxItems = 1
    Payload = {"cut"}
    Job = {j1, j2, j3}
    Row = {}
    Handler = {h1, h2}
    None = None
    MaxOpen = 1
    MaxAttempts = 1
    Doublings = 6
    Backoff <- MCBackoff
    Expiry = 0
    Ttl = 0
    Faulty = FALSE
    MaxRestarts = 1
    MaxRetries = 0
SYMMETRY Interchangeable
INVARIANTS
    OneJobPerItem
    OpenBounded
