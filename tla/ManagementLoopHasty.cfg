SPECIFICATION Spec
CONSTANTS
    Kinds = {"host", "auth"}
    Clients = {k1, k2}
    NumPolicies = 2
    MaxValue = 1
    MaxRequests = 1
INVARIANTS CloseIsHeard
CHECK_DEADLOCK FALSE
