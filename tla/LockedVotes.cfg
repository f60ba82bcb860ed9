SPECIFICATION EntSpec
CONSTANTS
    Signers = {}
    MSConfigs = {}
    Payloads = {}
    MAX_SIGNERS = 20
    DEFAULT_PROPOSAL_TIMEOUT_SECS = 2
    MaxProposals = 0
    LedgerGaps = {1}
    MaxNow = 4
    U64_MAX = 1000
    RL_WINDOW = 1
    RL_MAX = 1
    ESTABLISHED_SECS = 30
    ESTABLISHED_TRUST = 60
    Stakers = {a}
    Amounts = {1, 2}
    InitialWallet = 2
    I128_MAX = 1000000
    LARGE_WITHDRAWAL_THRESHOLD = 100
    LARGE_WITHDRAWAL_TIMELOCK_SECS = 1
    MAX_WITHDRAWAL_COOLDOWN_SECS = 2
    MinStakes = {2}
    MinDurations = {3}
    Cooldowns = {}
    PauseInputs = {}
    Governances = {}
    LastInputAt = 2
    GRACE_PERIOD_SECS = 1
    SECS_PER_WEEK = 1
    MAX_LOCK_MULTIPLIER_BPS = 1000000
    InitLockTiers <- MCDefaultTiers
    TierInputs <- MCTierInputs
    EmAdmins = {adm1, adm2}
    adm1 = adm1
    adm2 = adm2
    EmCooldowns = {2}
    InitEmCooldown = 1
    EmConfigs <- MCEntConfigs
INVARIANTS
    LockedVotesNothing
CHECK_DEADLOCK FALSE
