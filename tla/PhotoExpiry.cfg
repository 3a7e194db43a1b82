SPECIFICATION FairSpec
CONSTANTS
    None = None
    User = {u1}
    Estimate = {e1, e2}
    Photo = {p1, p2}
    Thread = {t1, t2}
    MaxSize = 1
    Quota = 2
    Ttl = 1
    ListLimit = 1
    MaxItems = 2
    MaxRestarts = 1
PROPERTIES
    PhotosExpire
