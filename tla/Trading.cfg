SPECIFICATION MCTradingSpec
CONSTANTS
    c1 = c1
    c2 = c2
    k1 = k1
    k2 = k2
    s1 = s1
    s2 = s2
    o1 = o1
    o2 = o2
    Areas <- MCAreas
    LedgerGaps = {1}
    MaxNow = 4
    U64_MAX = 1000
    CopyUsers = {c1, c2}
    Tokens = {k1, k2}
    Oracles = {o1, o2}
    TradeAmounts = {0, 1, 3}
    NoPct = NoPct
    TradePcts = {NoPct, 2000, 2001}
    Balances = {0, 2}
    SettingInputs = {0, 1, 3}
    Hashes = {h1, h2}
    MAX_POSITIONS_PER_USER = 3
    CIRCUIT_BREAKER_DURATION_LEDGERS = 2
    TRADE_TIMEOUT_LEDGERS = 2
    TX_HASH_TTL_SECS = 2
    TxLifetimes = {0}
    DaySeconds = 2
    LimitPrices = {1, 2}
    QueueInputs <- MCQueueInputs
    BatchInputs <- MCBatchInputs
    MAX_BATCH_SIZE = 3
    MaxQueued = 2
    MaxOrders = 2
    Signals = {s1}
    Prices = {1, 2, 4}
    PlanInputs <- MCPlanInputs
    TrailBps = {5000}
    Executors = {c1, c2}
    Routes = {r1}
    FillInputs <- MCFillInputs
    BoundInputs <- MCBoundInputs
    TierInputs <- MCTierInputs
    FairnessWindows = {0, 1}
    DebtInputs = {0, 1, 5, 7}
    MAX_ORACLE_PRICE_AGE_SECS = 1
    MaxSettlements = 3
    Holders = {c1, c2}
    Assets = {k1, k2}
    Tags = {s1, s2}
    PositionInputs <- MCPositionInputs
    PnlInputs <- MCPnlInputs
    CapInputs = {0, 3}
    BatchSizes = {1, 2}
    DayLengths = {0, 1}
    SECONDS_PER_DAY = 2
    MAX_SUBSCRIPTION_DAYS = 3
    MAX_POSITIONS_PER_TAG = 2
    HistoryLimits = {1}
    MAX_TRADE_HISTORY_LIMIT = 2
    MaxPositions = 4
    Watched = {s1, s2}
    Goals <- MCGoals
    Deltas = {1, 2}
    Ranks = {1, 11}
    WATCHLIST_CAP = 1
    EarlyAdopterCap = 1
INVARIANTS
    SimulationFaithful
    TradeBooks
    ListsExact
PROPERTIES
    LotsConsumedInOrder
CHECK_DEADLOCK FALSE
