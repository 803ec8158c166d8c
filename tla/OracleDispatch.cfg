CONSTANTS
    Handlers = {h1, h2}
    Trades = {1, 2}
    Requests = {"r1"}
    NoHandler = NoHandler
    maxAttempts = 2
    manualApprovalEnabled = TRUE
    BATCH_SIZE = 2
    Holdable = {1}
    MaxRows = 2
    MaxCrashes = 1
    MaxReorgs = 1
SPECIFICATION Spec
INVARIANTS
    OneExposedSend
    FailedIsUnsent
    ConfirmedIsFinal
    ApprovedBeforeSend
