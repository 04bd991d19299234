CONSTANTS
    u1 = u1
    s1 = s1
    s2 = s2
    None = None
    Users = {u1}
    Clients = {c1}
    Sessions = {s1, s2}
    Grants = {g1}
    Codes = {k1}
    Issues = {i1, i2}
    Workers = {w1, w2}
    SessionUser <- TwoSessions
    Ops = {"login", "consent", "authorize", "exchange", "refresh", "revoke_session", "suspend", "reactivate", "password_change", "client_credentials", "disable", "enable", "change_scopes", "change_redirects", "expire", "revoke_access"}
SPECIFICATION Spec
SYMMETRY Symmetry
PROPERTIES
    RevocationsComplete
    StaleChecksHarmless
CHECK_DEADLOCK FALSE
