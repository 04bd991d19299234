CONSTANTS
    \* A TOTP secret and a passkey enrolled twice, two requests at a time.
    x1 = x1
    x2 = x2
    a1 = a1
    Old = Old
    Totps = {t1}
    Passkeys = {x1, x2}
    CredOf <- SameAuthenticator
    Requests = {r1, r2}
    CodeCount = 2
    Ops = {"login", "reauthenticate", "start_totp", "confirm_totp", "start_webauthn", "finish_webauthn", "revoke", "regenerate"}
    \* Two attempts at a time, and a clock that moves within a window or past its end.
    Sources = {s1}
    Workers = {r1, r2}
    Surfaces = {"login", "reauth", "recovery", "bootstrap"}
    Limit = 2
    Window <- Windows
    Block <- Blocks
    MaxTime = 2
    \* Two replicas that start, an operator, and changes of the KEK.
    Nobody = Nobody
    Kids = {k1, x1, x2}
    EnvKey = k1
    Keks = {e1, e2}
    e1 = e1
    Mails = {m1}
    Replicas = {r1, r2}
    Commands = {c1}
    Deployments <- Environments
    \* Two tabs, and one upset at a time between any two of their steps.
    Null = Null
    Tabs = {r1, r2}
    AuthorizeRequests <- Asked
    Details <- Forms
    FrontEnds = {"bundled", "verbatim"}
    Modes = {"always_required"}
    SessionAcrs = {"password", "password+totp"}
    MarkerTtl = 1
    MaxUpsets = 1
    MaxLogins = 2
    MaxApprovals = 2
SPECIFICATION ServicesSpec
SYMMETRY Symmetry
INVARIANTS
    OneUse
    FactorsHold
    GuessesBounded
    KeysHold
    KekHolds
    CodesDeserved
PROPERTIES
    AskedAgainExcused
CHECK_DEADLOCK FALSE
