\* A sign-in with a passkey while the passkey is revoked.
CONSTANTS
    p1 = p1
    p2 = p2
    a1 = a1
    Old = Old
    Totps = {t1}
    Passkeys = {p1, p2}
    CredOf <- SameAuthenticator
    Requests = {r1, r2}
    CodeCount = 2
    Ops = {"login", "revoke"}
SPECIFICATION FactorsSpec
PROPERTIES
    RevokedStays
CHECK_DEADLOCK FALSE
