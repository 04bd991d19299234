CONSTANTS
    \* Three operations that name each other in every way.
    N = 3
    MaxOps = 3
    Shapes <- SomeShapes
    Limits = {0, 2, 4}
    \* Requests of up to two operations on one user and one group.
    m1 = m1
    m2 = m2
    m3 = m3
    u1 = u1
    u2 = u2
    u3 = u3
    x1 = x1
    g1 = g1
    f1 = f1
    n1 = n1
    Bad = Bad
    Nil = Nil
    Mails = {m1, m2, m3}
    TakenMails = {m3}
    TakenIds = {"taken"}
    Known = {u1, u2, u3}
    MemberLimit = 2
    PatchLimit = 2
    UserOps <- SomeUserOps
    GroupOps <- SomeGroupOps
    UserPuts <- SomeUserPuts
    GroupPuts <- SomeGroupPuts
    \* Every reader, with up to three parameters.
    Sampled <- Sample
    MaxPairs = 3
    \* Three rows, pages of one.
    MaxRow = 3
    MaxTime = 1
    PageSizes = {1}
    Retention = 0
    Batch = 1
    Paths = {a, b, c, d}
    \* Two archives, two artifacts, and one write by somebody else.
    Expected <- OneOfEach
    MaxWrites = 1
    Artifacts <- TwoArtifacts
    Secret = {"openid_static_config"}
    Manual = {"openid_static_config"}
    Requirements <- SomeRequirements
    EnvNames = {"kek", "key id", "key", "issuer"}
    MaxEdits = 1
    \* A root known by a symbolic link, and one change of the file system.
    SuppliedRoot <- Alias
    CanonicalRoot <- Repo
    Trees <- SomeTrees
    Arguments <- SomeArguments
    MaxSwaps = 1
    \* Two requests go wrong.
    MaxFaults = 2
SPECIFICATION InterfacesSpec
INVARIANTS
    BulkAnswers
    ReadAsWritten
    AssetsJudged
    PathsConfined
    WalkCleansUp
PROPERTIES
    PatchMeaning
    WalksHold
    EvidenceHolds
    JobEnds
CHECK_DEADLOCK FALSE
