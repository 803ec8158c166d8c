CONSTANTS
    Attempts = {p1, p2}
    RequestIds = {n1}
    MaxNonce = 1
    MaxCrashes = 0
    MaxLosses = 0
    MaxOrphans = 0
    renewed = TRUE
    None = None

SPECIFICATION RelaySpec
CHECK_DEADLOCK FALSE

INVARIANTS
    FailedMeansNeverBroadcast
