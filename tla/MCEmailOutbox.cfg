\* Two jobs and two mails in one batch: claims race, split, go stale and are lost.
CONSTANTS
    Messages = {1, 2}
    Jobs = {j1, j2}
    BatchSize = 2
    MaxAttempts = 2
    MaxCrashes = 1
SPECIFICATION FairSpec
INVARIANTS
    TypeOK
    ClaimExclusive
    ResendExcused
    FateDeserved
PROPERTIES
    TerminalStays
    Settles
CHECK_DEADLOCK FALSE
