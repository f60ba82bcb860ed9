SPECIFICATION SlashSpec
CONSTANTS
    Signers = {}
    MSConfigs = {}
    Payloads = {}
    MAX_SIGNERS = 20
    DEFAULT_PROPOSAL_TIMEOUT_SECS = 2
    MaxProposals = 0
    LedgerGaps = {1}
    MaxNow = 3
    U64_MAX = 1000
    RL_WINDOW = 1
    RL_MAX = 1
    ESTABLISHED_SECS = 30
    ESTABLISHED_TRUST = 60
    Stakers = {a, b}
    Amounts = {7}
    InitialWallet = 7
    I128_MAX = 1000000
    LARGE_WITHDRAWAL_THRESHOLD = 100
    LARGE_WITHDRAWAL_TIMELOCK_SECS = 1
    MAX_WITHDRAWAL_COOLDOWN_SECS = 2
    MinStakes = {}
    MinDurations = {}
    Cooldowns = {}
    PauseInputs = {}
    Governances = {}
    LastInputAt = 1
    SlashTiers <- MCTiers
    SlashCooldowns = {0}
    AppealWindows = {1}
    InitAppealWindows = {0}
    InitSlashCooldown = 2
    BatchSizes = {}
    MAX_APPEAL_WINDOW_SECS = 3
    MAX_BATCH_SIZE = 2
    MaxSlashes = 2
INVARIANTS
    ReversalsFunded
CHECK_DEADLOCK FALSE
