CONSTANTS
    u1 = u1
    s1 = s1
    s2 = s2
    None = None
    Users = {u1}
    Clients = {c1}
    Sessions = {s1}
    Grants = {g1}
    Codes = {k1}
    Issues = {i1, i2, i3}
    Workers = {w1, w2}
    SessionUser <- OneSession
    Ops = {"login", "consent", "authorize", "exchange", "refresh"}
SPECIFICATION Spec
SYMMETRY Symmetry
PROPERTIES
    FamilyDeadAfterRevocation
CHECK_DEADLOCK FALSE
