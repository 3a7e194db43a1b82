SPECIFICATION FairSpec
CONSTANTS
    Conn = {c1, c2, c3, c4}
    MaxConn = 2
    None = None
INVARIANTS
    HandledBounded
    CounterExact
    AnsweredCounted
PROPERTIES
    ImplementsCap
    EveryConnectionEnds
