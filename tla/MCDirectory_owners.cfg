\* Every operation of the directory, two at a time, on the owner group and on
\* one that SCIM may manage.
SPECIFICATION Spec
CONSTANTS
    None = None
    Users = {u1, u2}
    Admin = admin
    Groups = {admin, g1}
    Statuses = {"active", "suspended", "locked"}
    Workers = {w1, w2}
    Ops = {"status", "scim_patch", "upsert", "remove", "scim_replace",
           "scim_add", "scim_delete", "break_glass", "bootstrap",
           "create_user", "create_group", "scim_create"}
SYMMETRY Symmetry
INVARIANTS TypeOK OwnerKept
PROPERTY BootstrapOnlyWhenEmpty
