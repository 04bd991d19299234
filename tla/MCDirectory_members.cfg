SPECIFICATION Spec
CONSTANTS
    None = None
    Users = {u1, u2}
    Admin = admin
    Groups = {admin, g1}
    Statuses = {"active", "suspended"}
    Workers = {w1, w2}
    Ops = {"scim_add", "create_user", "scim_create"}
PROPERTY AddKeepsMembers
