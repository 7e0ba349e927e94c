SPECIFICATION FairSpec
CONSTANTS
    Kinds = {"host", "auth"}
    Clients = {k1, k2}
    NumPolicies = 2
    MaxValue = 1
    MaxRequests = 1
INVARIANTS TypeOK InStep OnlyChosen
PROPERTIES Answered LoopsEnd
CHECK_DEADLOCK FALSE
