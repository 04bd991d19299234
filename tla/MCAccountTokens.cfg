\* Two requests about one user, two links, and an address to move to.
CONSTANTS
    None = None
    Emails = {e1, e2}
    Tokens = {t1, t2}
    Sessions = {s1}
    Workers = {w1, w2}
SPECIFICATION FairSpec
INVARIANTS
    TypeOK
    TokenOnce
PROPERTIES
    VerifiedMeansOwned
    RedeemedWell
    RequestsFinish
CHECK_DEADLOCK FALSE
