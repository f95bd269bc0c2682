SPECIFICATION FairSpec
CONSTANTS
    Interval = 2
    Day = 2
    RetryMax = 3
    GiveUp = 3
    Workers = 2
    MaxUpsets = 1
    MaxPulls = 4
INVARIANTS
    TypeOK
    BacklogBounded
PROPERTIES
    OffAfterARun
    DarkIsDropped
    NeverForgotten
CHECK_DEADLOCK FALSE
