SPECIFICATION FairQueueSpec
CONSTANTS
    Signers = {}
    MSConfigs = {}
    Payloads = {}
    MAX_SIGNERS = 20
    DEFAULT_PROPOSAL_TIMEOUT_SECS = 2
    MaxProposals = 0
    LedgerGaps = {1}
    MaxNow = 3
    U64_MAX = 1000
    RL_WINDOW = 1
    RL_MAX = 2
    ESTABLISHED_SECS = 30
    ESTABLISHED_TRUST = 60
    Stakers = {a, b}
    Amounts = {1}
    InitialWallet = 1
    I128_MAX = 100
    LARGE_WITHDRAWAL_THRESHOLD = 5
    LARGE_WITHDRAWAL_TIMELOCK_SECS = 1
    MAX_WITHDRAWAL_COOLDOWN_SECS = 2
    MinStakes = {}
    MinDurations = {}
    Cooldowns = {}
    PauseInputs = {}
    Governances = {}
    LastInputAt = 2
    NoUser = NoUser
    QueueSizes = {}
    ProcessLimits = {2}
    DEFAULT_MAX_UNSTAKE_QUEUE_SIZE = 2
    MaxTickets = 3
PROPERTIES
    RetriesSucceed
CHECK_DEADLOCK FALSE
