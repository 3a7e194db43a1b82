SPECIFICATION Spec
CONSTANTS
    User = {u1, u2}
    Email = {e1, e2}
    Invite = {i1, i2}
    Token = {s1}
    Recovery = {}
    Handler = {h1, h2}
    Command = {c1}
    None = None
    MaxActive = 1
    RecoveryLimit = 3
    OperatorEmail = e1
    MaxWrites = 0
SYMMETRY Interchangeable
INVARIANTS
    ActiveCapped
    InviteOneAccount
