SPECIFICATION Spec
CONSTANTS
    Photo = {p1, p2, p3}
    Large = {p3}
    Profile = {f1}
    Link = {l1, l2}
    Links <- MCLinks
    Batch = {b1, b2}
    Click = {c1, c2}
    None = None
    MaxOpen = 2
SYMMETRY Interchangeable
ACTION_CONSTRAINTS
    PressWithBatch
    SelectionLeft
INVARIANTS
    RetryAvailable
    SelectionKept
    ReportHonest
