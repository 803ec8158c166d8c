CONSTANTS
    a1 = a1
    a2 = a2
    a3 = a3
    a4 = a4
    oracle = oracle
    treasury = treasury
    relayer = relayer
    x = x
    y = y
    NoAddress = NoAddress
    InitialOracle = oracle
    treasuryAddress = treasury
    InitialRelayer = relayer
    governanceTimelock = 1
    GOVERNANCE_PROPOSAL_TTL = 1
    MAX_ADMINS = 4
    Accounts <- FourAdminAccounts
    InitialAdmins <- FourAdmins
    InitialRequiredApprovals = 2
    MaxTime = 3
    MaxTrades = 1
    Scopes = {"GLOBAL", "CLAIMS", "TRADE"}
    MaxGovernanceProposals = 1
SPECIFICATION GovernanceSpec
SYMMETRY FourAdminSymmetry
CHECK_DEADLOCK FALSE
INVARIANTS
    DisabledOracleKeepsPause
    UnpauseApprovalsCounted
    UnpauseNeverWedged
PROPERTIES
    PauseLiftedByQuorum
