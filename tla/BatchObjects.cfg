SPECIFICATION FairSpec
CONSTANTS
    Rows = {1, 2}
    Keys = {"k"}
    Values = {"v", "w"}
    NoValue = "none"
    KeyOf <- MCKeyOf
    Written <- MCWritten
    CHUNK = 1
    Workers = {"w1", "w2"}
    MaxMishaps = 1
    MaxSlips = 1
INVARIANTS TypeOK ReferencePreserved OldImagesCanRead DoneIsComplete
PROPERTY GetsDone
CHECK_DEADLOCK FALSE
