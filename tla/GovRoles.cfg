CONSTANTS
    a1 = a1
    a2 = a2
    a3 = a3
    a4 = a4
    oracle = oracle
    treasury = treasury
    relayer = relayer
    x = x
    y = y
    NoAddress = NoAddress
    InitialOracle = oracle
    treasuryAddress = treasury
    InitialRelayer = relayer
    governanceTimelock = 1
    GOVERNANCE_PROPOSAL_TTL = 2
    MAX_ADMINS = 4
    Accounts <- ThreeAdminAccounts
    InitialAdmins <- ThreeAdmins
    InitialRequiredApprovals = 2
    MaxTime = 4
    MaxTrades = 0
    Scopes = {}
    MaxGovernanceProposals = 2
SPECIFICATION GovernanceSpec
SYMMETRY ThreeAdminSymmetry
CHECK_DEADLOCK FALSE
INVARIANTS
    RoleSeparation
    QuorumMargin
    FastTrackOnlyWhileDisabled
PROPERTIES
    AuthorityChangedByQuorum
    DisabledOracleIsReplaced
