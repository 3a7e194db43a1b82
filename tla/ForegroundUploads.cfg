CONSTANTS
    Photo = {1, 2, 3}
    Unusable = {3}
    Form = {f1, f2}
    Key = {k1, k2}
    None = None
    MaxChunk = 2
SPECIFICATION FairSpec
INVARIANTS
    AccountedOnce
    SavedOnce
PROPERTY RunEnds
