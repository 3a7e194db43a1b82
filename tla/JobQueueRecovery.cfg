SPECIFICATION Spec
CONSTANTS
    User = {u1}
    Key = {k1}
    Batch = {b1}
    MaxItems = 1
    Payload = {"photo"}
    Job = {j1, j2}
    Row = {r1, r2}
    Handler = {h1}
    None = None
    MaxOpen = 1
    MaxAttempts = 2
    Doublings = 6
    Backoff <- MCBackoff
    Expiry = 0
    Ttl = 0
    Faulty = TRUE
    MaxRestarts = 1
    MaxRetries = 1
SYMMETRY Interchangeable
INVARIANTS
    WorkerHoldsActive
    PayloadErased
    ResultBelongsToJob
    KeyedResultSavedOnce
    AttemptsBounded
    QueueInvariant
PROPERTIES
    ImplementsLifecycle
    ImplementsKeyedHistory
