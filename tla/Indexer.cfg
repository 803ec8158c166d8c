CONSTANTS
    a1 = a1
    a2 = a2
    a3 = a3
    oracle = oracle
    treasury = treasury
    relayer = relayer
    buyer = buyer
    supplier = supplier
    x = x
    NoAddress = NoAddress
    Accounts <- MCAccounts
    InitialOracle = oracle
    treasuryAddress = treasury
    InitialRelayer = relayer
    InitialAdmins <- MCAdmins
    InitialRequiredApprovals = 2
    governanceTimelock = 1
    GOVERNANCE_PROPOSAL_TTL = 1
    MAX_ADMINS = 4
    Buyers = {buyer}
    Suppliers = {supplier}
    Quotes <- MCQuotes
    STANDARD_INSPECTION_WINDOW = 2
    PACKAGED_LOCAL_INSPECTION_WINDOW = 1
    LOCK_TIMEOUT = 1
    IN_TRANSIT_TIMEOUT = 1
    DISPUTE_PROPOSAL_TTL = 1
    MaxTime = 3
    MaxTrades = 2
    MaxGovernanceProposals = 1
    Scopes = {"GLOBAL", "CLAIMS", "TRADE"}
    MaxDisputeProposals = 2
    PROPOSAL_TTL = 1
    MaxLag = 2
    MaxFaults = 1
SPECIFICATION MCSpec
SYMMETRY MCSymmetry
CHECK_DEADLOCK FALSE
INVARIANTS
    TablesReachChain
    OverviewRebuildable
    FrozenTradeNeverWedged
PROPERTIES
    FrozenTradeClosedByQuorum
    PausedFundsStandStill
    QuarantineHoldsCheckpoint
