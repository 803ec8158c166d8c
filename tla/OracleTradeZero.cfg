CONSTANTS
    Handlers = {h1}
    Trades = {0, 1}
    Requests = {"r1"}
    NoHandler = NoHandler
    maxAttempts = 1
    manualApprovalEnabled = FALSE
    BATCH_SIZE = 2
    Holdable = {1}
    MaxRows = 1
    MaxCrashes = 0
    MaxReorgs = 0
SPECIFICATION Spec
PROPERTIES
    AbsentMeansAbsent
