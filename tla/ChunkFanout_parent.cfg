SPECIFICATION FairSpec
CONSTANTS
    Chunks = {c1, c2, c3}
    Units = 2
    ParentRuns = {p1}
    NoRun = NoRun
    TaskMaxAttempts = 2
INVARIANTS
    TypeOK
    EndedIsComplete
PROPERTY WaitingEnds
CHECK_DEADLOCK FALSE
