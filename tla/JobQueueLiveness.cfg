SPECIFICATION FairSpec
CONSTANTS
    User = {u1}
    Key = {}
    Batch = {b1}
    MaxItems = 2
    Payload = {"photo"}
    Job = {j1, j2}
    Row = {}
    Handler = {h1}
    None = None
    MaxOpen = 2
    MaxAttempts = 2
    Doublings = 6
    Backoff <- MCBackoff
    Expiry = 0
    Ttl = 0
    Faulty = FALSE
    MaxRestarts = 0
    MaxRetries = 1
INVARIANT CompleteMeansEveryItem
PROPERTIES
    CompleteUndoneByPruning
    EveryJobSettles
