CONSTANTS
    u1 = u1
    s1 = s1
    s2 = s2
    None = None
    Users = {u1}
    Clients = {c1}
    Sessions = {s1}
    Grants = {g1}
    Codes = {k1}
    Issues = {i1, i2}
    Workers = {w1, w2}
    SessionUser <- OneSession
    Ops = {"login", "consent", "authorize", "exchange", "refresh", "revoke_token", "suspend", "revoke_consent", "disable"}
    \* One user is enough for every order of locks.
    Admin = admin
    Groups = {admin, team}
    Statuses = {"active", "suspended"}
    DirectoryOps = {"status", "scim_patch", "upsert", "remove", "scim_replace",
                    "scim_add", "scim_delete", "break_glass", "bootstrap",
                    "create_user", "create_group", "scim_create"}
SPECIFICATION ProgressSpec
PROPERTIES
    StragglersBounded
    EveryRequestEnds
CHECK_DEADLOCK FALSE
