CONSTANTS
    u1 = u1
    s1 = s1
    s2 = s2
    None = None
    Users = {u1}
    Clients = {c1}
    Sessions = {s1}
    Grants = {g1}
    Codes = {k1}
    Issues = {i1, i2, i3, i4}
    Workers = {w1, w2, w3}
    SessionUser <- OneSession
    Ops = {"login", "consent", "authorize", "exchange", "refresh", "revoke_token", "revoke_consent"}
SPECIFICATION Spec
SYMMETRY Symmetry
INVARIANTS
    TypeOK
    SingleUse
    OneLivePerFamily
    RotatedMeansIssued
PROPERTIES
    CascadeCoversChildren
    ImplementsChain
CHECK_DEADLOCK FALSE
