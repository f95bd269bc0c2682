SPECIFICATION FairSpec
CONSTANTS
    Tasks = {t1}
    Threaded = {t1}
    Workers = {w1, w2}
    NoTask = NoTask
    NoWorker = NoWorker
    Runs = {r1, r2}
    TaskMaxAttempts = 2
    MaxClaims = 2
INVARIANTS
    TypeOK
    AtMostOneOwner
    RetryBudget
PROPERTIES
    ImplementsLease
    LostClaimsAreReaped
CHECK_DEADLOCK FALSE
