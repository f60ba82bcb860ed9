SPECIFICATION FairQueueSpec
CONSTANTS
    Signers = {}
    MSConfigs = {}
    Payloads = {}
    MAX_SIGNERS = 20
    DEFAULT_PROPOSAL_TIMEOUT_SECS = 2
    MaxProposals = 0
    LedgerGaps = {1}
    MaxNow = 3
    U64_MAX = 1000
    RL_WINDOW = 1
    RL_MAX = 1
    ESTABLISHED_SECS = 30
    ESTABLISHED_TRUST = 60
    Stakers = {a, b}
    Amounts = {0, 1, 2}
    InitialWallet = 2
    I128_MAX = 100
    LARGE_WITHDRAWAL_THRESHOLD = 2
    LARGE_WITHDRAWAL_TIMELOCK_SECS = 1
    MAX_WITHDRAWAL_COOLDOWN_SECS = 2
    MinStakes = {}
    MinDurations = {0, 1}
    Cooldowns = {}
    PauseInputs = {}
    Governances = {}
    LastInputAt = 2
    NoUser = NoUser
    QueueSizes = {0}
    ProcessLimits = {2}
    DEFAULT_MAX_UNSTAKE_QUEUE_SIZE = 2
    MaxTickets = 3
INVARIANTS
    CoreTypeOK
    QueueConsistent
PROPERTIES
    LockHonoured
    LargeNeedsOwnRequest
    PayoutsLimited
    FirstComeFirstServed
    LeavesOnlyPaid
    QueueProgress
CHECK_DEADLOCK FALSE
