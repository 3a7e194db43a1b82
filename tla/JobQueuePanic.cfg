SPECIFICATION FairSpec
CONSTANTS
    User = {u1}
    Key = {}
    Batch = {}
    MaxItems = 1
    Payload = {"cut"}
    Job = {j1}
    Row = {}
    Handler = {h1}
    None = None
    MaxOpen = 1
    MaxAttempts = 2
    Doublings = 6
    Backoff <- MCBackoff
    Expiry = 0
    Ttl = 0
    Faulty = FALSE
    MaxRestarts = 0
    MaxRetries = 0
PROPERTIES
    ClaimedJobSettles
