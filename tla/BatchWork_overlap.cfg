SPECIFICATION Spec
CONSTANTS
    Specs = {s1, s2}
    NoSpec = NoSpec
    Batches = {b1, b2}
    NoBatch = NoBatch
    Runs = {r1, r2}
    NoRun = NoRun
    TaskMaxAttempts = 2
    MaxExits = 0
SYMMETRY BatchSymmetry
INVARIANT ConsumedOnce
CHECK_DEADLOCK FALSE
