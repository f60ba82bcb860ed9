SPECIFICATION MCVaultSpec
CONSTANTS
    Signers = {s1, s2}
    MSConfigs <- MCConfigs
    Payloads <- MCPayloads
    MAX_SIGNERS = 20
    DEFAULT_PROPOSAL_TIMEOUT_SECS = 2
    MaxProposals = 1
    LedgerGaps = {1}
    MaxNow = 3
    U64_MAX = 1000
    RL_WINDOW = 1
    RL_MAX = 1
    ESTABLISHED_SECS = 30
    ESTABLISHED_TRUST = 60
    Stakers = {a, b}
    Amounts = {1, 2}
    InitialWallet = 2
    I128_MAX = 1000000
    LARGE_WITHDRAWAL_THRESHOLD = 100
    LARGE_WITHDRAWAL_TIMELOCK_SECS = 1
    MAX_WITHDRAWAL_COOLDOWN_SECS = 2
    MinStakes = {2}
    MinDurations = {3}
    Cooldowns = {2, 3}
    PauseInputs = {TRUE}
    Governances = {}
    LastInputAt = 2
    SlashTiers <- MCTiers
    SlashCooldowns = {0}
    AppealWindows = {1}
    InitAppealWindows = {0, 1}
    InitSlashCooldown = 2
    BatchSizes = {2}
    MAX_APPEAL_WINDOW_SECS = 3
    MAX_BATCH_SIZE = 2
    MaxSlashes = 2
    NoUser = NoUser
    QueueSizes = {0}
    ProcessLimits = {1}
    DEFAULT_MAX_UNSTAKE_QUEUE_SIZE = 2
    MaxTickets = 2
    EmAdmins = {adm1, adm2}
    adm1 = adm1
    adm2 = adm2
    s1 = s1
    s2 = s2
    EmConfigs <- MCEntConfigs
    EmCooldowns = {2}
    InitEmCooldown = 1
    GRACE_PERIOD_SECS = 1
    SECS_PER_WEEK = 1
    MAX_LOCK_MULTIPLIER_BPS = 1000000
    InitLockTiers <- MCDefaultTiers
    TierInputs <- MCTierInputs
SYMMETRY StakerSymmetry
INVARIANTS
    BooksExact
    SlashesSound
    PowerIsBestTier
PROPERTIES
    ParamsByMultisig
    SlashesByRule
    EntitlementsFair
    EmergenciesByRule
CHECK_DEADLOCK FALSE
