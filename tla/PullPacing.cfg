SPECIFICATION FairSpec
CONSTANTS
    Workers = {"w1", "w2"}
    NoWorker = "none"
    Addresses = {"a", "b"}
    AddressOf <- MCAddressOf
    Pulls = {1, 3}
    Chores = {2}
    Weight <- MCWeight
    Ceiling = 2
    Floor = 3
    RefusedMin = 1
    Cap = 2
    Requeue = 1
    Blocked = {"b"}
    MaxMishaps = 1
INVARIANT TypeOK
PROPERTIES AsksAreSpaced AllEnd
CHECK_DEADLOCK FALSE
