CONSTANTS
    Processes = {p1, p2}
    Names = {n1, n2}
    None = None
SPECIFICATION Spec
SYMMETRY Symmetry
CHECK_DEADLOCK FALSE
INVARIANTS
    OneSignaturePerNonce
    OneTransactionPerKey
    TerminalStatusIsChainTruth
    
PROPERTIES
    DeliveredForGood
    SessionsEndForGood
