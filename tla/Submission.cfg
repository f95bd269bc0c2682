SPECIFICATION FairSpec
CONSTANTS
    Jobs = {"j1", "j2"}
    Requests = 3
    Models = {"main", "dear", "cheap"}
    Primary = "main"
    Chain <- MCChain
    Providers = {"a", "b"}
    ProviderOf <- MCProviderOf
    Price <- MCPrice
    Settings <- MCSettings
    MaxCrashes = 1
INVARIANTS TypeOK SentOnce WithinItsCheck
PROPERTY ChainsEnd
CHECK_DEADLOCK FALSE
