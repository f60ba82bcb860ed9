SPECIFICATION MCSignalsSpec
CONSTANTS
    a1 = a1
    a2 = a2
    p1 = p1
    p2 = p2
    g1 = g1
    g2 = g2
    x1 = x1
    x2 = x2
    x3 = x3
    r1 = r1
    r2 = r2
    r3 = r3
    Areas <- MCAreas
    LedgerGaps = {1, 3}
    MaxNow = 6
    U64_MAX = 1000
    Coins = {x1, x2, x3}
    Pairs <- MCPairs
    FeedPrices = {0, 10, 20}
    PriceSources = {q1, q2}
    ConfidenceInputs = {0, 1}
    BpsInputs = {0, 4000}
    WindowInputs = {2}
    ReportInputs <- MCReports
    ConvertAmounts = {0, 3}
    FeedAdmins = {a1, a2}
    PauseDurations <- MCPauseDurations
    CANONICAL_DECIMALS = 1
    PRECISION_UNITS = 10
    DEFAULT_STALENESS_WINDOW_SECS = 3
    CONVERSION_CACHE_SECS = 2
    BUCKET_SIZE = 1
    MAX_BUCKETS = 2
    U32_MODULUS = 8192
    MAX_PRICE_AGE_LEDGERS = 0
    ORACLE_DEAD_THRESHOLD_LEDGERS = 1
    PENDING_ADMIN_EXPIRY_LEDGERS = 2
    MaxQuotes = 2
    Reporters = {r1, r2, r3}
    RoundPrices = {0, 10, 30}
    SECONDS_PER_WEEK = 2
    JUDGED_AFTER = 1
    MaxSubmissions = 3
    Operators = {a1, a2}
    SignerInputs <- MCSigners
    CriticalPayloads <- MCPayloads
    DelayInputs <- MCDelays
    BreakerInputs <- MCBreakers
    TradeReports <- MCTradeReports
    MAX_FEE_BPS = 20
    MAX_RISK_PERCENTAGE = 20
    ADMIN_TRANSFER_LEDGERS = 1
    MAX_ACTIVE_PROPOSALS = 2
    MAX_SIGNER_COUNT = 2
    BREAKER_WINDOW = 2
    PRICE_WINDOW = 1
    MaxApprovals = 2
    Providers = {p1, p2}
    Followers = {a1, p1}
    AddressRank <- MCAddressRank
    SignalTags = {g1, g2}
    StakeInputs = {0, 1, 4}
    MedianInputs <- MCMedians
    GOLD_TIER_STAKE = 4
    DEFAULT_MINIMUM_STAKE = 2
    MIN_CLOSED_SIGNALS = 0
    INDEX_CAPACITY = 2
    MAX_LEADERBOARD_LIMIT = 2
    MIN_SIGNALS_FOR_TRUST_SCORE = 1
    MAX_TENURE_DAYS = 2
    VERIFIED_SIGNALS = 1
    MAX_TAGS_PER_PROVIDER = 1
    MAX_ADMIN_TAGS = 1
    STATS_DAY = 2
    STATS_WEEK = 3
    SignalInputs <- MCSignalInputs
    PriceEdits = {0, 5}
    LifeEdits = {0, 3}
    TradeInputs <- MCTrades
    OutcomeInputs <- MCOutcomes
    CollabInputs <- MCCollabs
    ContestInputs <- MCContests
    LimitInputs = {0, 2}
    Nonces = {n1}
    MAX_EXPIRY_SECONDS = 3
    WARNING_WINDOW = 0
    EDIT_WINDOW = 1
    ARCHIVE_THRESHOLD = 1
    CLEANUP_BATCH = 2
    MAX_UPDATES_PER_SIGNAL = 1
    UPDATE_COOLDOWN = 0
    MAX_SIGNAL_TAGS = 2
    RANDOMNESS_DELAY = 1
    MaxSignals = 4
    DepositInputs <- MCDeposits
    MinimumInputs <- MCMinimums
    VoterStakes = {1, 3}
    RewardInputs = {0, 2}
    VOTE_POWER_DIVISOR = 1
    VOTE_WINDOW_SECS = 2
    APPEAL_WINDOW_SECS = 2
    DISPUTE_THRESHOLD_BPS = 6000
    SCORE_DELTA = 5
    HISTORY_KEPT = 1
    MaxAttempts = 2
    ScheduleInputs <- MCSchedules
    VariableInputs <- MCVariables
    PresetInputs <- MCPresets
    OverrideInputs <- MCOverrides
    ComboInputs <- MCCombos
    ComboAmounts = {0, 5}
    SyncPrices = {1}
    Chains = {b1, b2}
    SourceSignals = {e1, e2}
    MAX_SCHEDULE_AHEAD = 2
    MAX_PROVIDER_SCHEDULES = 1
    TEMPLATE_LIFE = 2
    MAX_TEMPLATES_PER_PROVIDER = 1
    MAX_COMPONENTS = 3
    WEIGHT_TOTAL = 10
    MAX_MIGRATION_BATCH = 2
    MAX_PAGE = 2
    DEFAULT_PAGE = 1
    SCAN_PAGE = 1
    CHURN_WINDOW = 2
    MaxSchedules = 4
    MaxTemplates = 2
    MaxCombos = 1
PROPERTIES
    RegistryBooks
    OracleSound
    ReadersSeeAll
    FeeByProposal
CHECK_DEADLOCK FALSE
