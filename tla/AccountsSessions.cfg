SPECIFICATION Spec
CONSTANTS
    User = {u1}
    Email = {e1}
    Invite = {i1}
    Token = {s1, s2}
    Recovery = {r1, r2}
    Handler = {h1, h2}
    Command = {c1}
    None = None
    MaxActive = 1
    RecoveryLimit = 1
    OperatorEmail = e1
    MaxWrites = 2
SYMMETRY Interchangeable
INVARIANTS
    StaleSessionsBounded
    RecoveriesBounded
    RecoveryUsesBounded
