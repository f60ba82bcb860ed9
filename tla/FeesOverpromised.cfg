SPECIFICATION LibSpec
CONSTANTS
    LedgerGaps = {1}
    MaxNow = 6
    U64_MAX = 1000
    ShareHolders = {a, b}
    FeeAmounts = {0, 1, 2}
    ACC_PRECISION = 1000000
    FEE_I128_MAX = 1000000000
    Ledgers = {1}
    MaxEpoch = 3
    MaxShares = 2
    Providers = {p, q}
    Assets = {xlm, usdc}
    RewardAmounts = {0, 1}
    ClaimLists <- MCClaimLists
    MAX_REWARD_BATCH = 3
    MaxBuckets = 3
    u1 = u1
    u2 = u2
    Subjects = {u1, u2}
    Trust <- MCTrust
    RL_WINDOW = 3
    RL_MAX = 2
    ESTABLISHED_SECS = 3
    ESTABLISHED_TRUST = 60
    MaxActions = 6
    m1 = m1
    m2 = m2
    m3 = m3
    Signers = {m1, m2, m3}
    MSConfigs <- MCSignerLists
    Payloads = {"PAUSE"}
    MAX_SIGNERS = 20
    DEFAULT_PROPOSAL_TIMEOUT_SECS = 2
    MaxProposals = 2
    OldStakers = {u1, u2, m1}
    OldStakes <- MCOldStakes
    AddressRank <- MCAddressRank
    MigrationBatches = {0, 1, 2, 5}
    TopUps = {1, 2}
    DepositLock = 9
    Versions = {2, 3, 4, 5}
    Layouts = {1, 2, 3}
    FirstVersion = 2
    StrategyNames = {"spam"}
    StrategyConfigs <- MCStrategies
    Balances = {0, 1, 2, 3, 7, 100}
    I128_LIMIT = 500000
    MaxBatches = 4
    MaxTopUps = 3
INVARIANTS
    FeesCovered
CHECK_DEADLOCK FALSE
