SPECIFICATION FairSpec
CONSTANTS
    Specs = {s1, s2}
    NoSpec = NoSpec
    Batches = {b1, b2}
    NoBatch = NoBatch
    Runs = {r1}
    NoRun = NoRun
    TaskMaxAttempts = 2
    MaxExits = 1
INVARIANTS
    TypeOK
    PaidWorkReachable
    BoughtOnce
PROPERTIES
    ReceiptBeforeForget
    ParkedEnds
CHECK_DEADLOCK FALSE
