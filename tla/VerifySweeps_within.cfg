SPECIFICATION FairSpec
CONSTANTS
    Workers = {w1, w2}
    NoCycle = NoCycle
    Cycles = {k1, k2, k3}
    Postings = 3
    Texts = {1, 2}
    TextOf <- MCTextOf
    Cap = 1
    Straddle = FALSE
    MaxFaults = 1
INVARIANTS
    TypeOK
    SelectAlone
    PaidOnce
PROPERTY NoneStarves
CHECK_DEADLOCK FALSE
