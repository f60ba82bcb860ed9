SPECIFICATION MCFeesSpec
CONSTANTS
    t1 = t1
    t2 = t2
    k1 = k1
    k2 = k2
    LedgerGaps = {1}
    MaxNow = 4
    U64_MAX = 1000
    Traders = {t1, t2}
    FeeTokens = {k1, k2}
    FeeRateInputs = {0, 1, 100}
    BurnRateInputs = {0, 10000}
    CongestionConfigs <- MCCongestionConfigs
    Multipliers = {10000, 20000}
    OptimizationConfigs <- MCOptimizationConfigs
    NetworkScores = {5000}
    DiscountTiers <- MCDiscountTiers
    CacheSlots = 2
    LEDGERS_PER_MONTH_APPROX = 3
    SILVER_TIER_VOLUME_USD = 500
    GOLD_TIER_VOLUME_USD = 1000
    MaxVersion = 3
    TradeAmounts = {90, 700}
    FirstWallet = 12
    FirstPending = 3
    WithdrawAmounts = {2, 5}
    InsuranceAmounts = {1, 3}
    InsuranceCaps = {0, 2}
    ClaimIds = {"claim1", "claim2"}
    FailedIds = {"failed1"}
    Forecasts <- MCForecasts
    ShareInputs = {1000, 10000}
    Waterfalls <- MCWaterfalls
    ConversionRates = {0, 1, 2}
    RATE_PRECISION = 1
    FEE_DAY = 2
    EarningAmounts = {1, 3}
    SplitInputs <- MCSplitInputs
    MaxEarnings = 7
    OrderUsers = {t1, t2}
    OrderAssets = {t1}
    Ticks = {1, 2, 4}
    NoCount = NoCount
    SECS_PER_MINUTE = 2
    TwapInputs <- MCTwapInputs
    PRICE_HISTORY_CAP = 2
    CondInputs <- MCCondInputs
    QueueTriggers = {"StopLoss", "TakeProfit", "Rebalance"}
    DrainLimits = {1, 3}
    SignalBatches <- MCSignalBatches
    IcebergInputs <- MCIcebergInputs
    MIN_VISIBLE_AMOUNT = 1
    FillAmounts = {1, 2}
    MaxWaiting = 2
    PlanUsers = {t1, t2}
    PlanAssets = {k1}
    PlanPrices = {0, 4, 11, 25}
    PLAN_DAY = 2
    Frequencies <- MCFrequencies
    NoEnd = NoEnd
    Durations = {1, NoEnd}
    PlanAmounts = {0, 3}
    PlanBalances = {0, 5}
    PRECISION = 1000
    GridInputs <- MCGridInputs
    ExitInputs <- MCExitInputs
    ExitSizes = {0, 5}
    EscrowIds = {"trade1", "trade2"}
    EscrowAmounts = {1, 2}
    PositionSignals = {1}
    MaxPlans = 2
    Areas <- MCAreas
INVARIANTS
    FeesSound
    OrdersSound
    HoldingsSound
PROPERTIES
    WithdrawalsWait
CHECK_DEADLOCK FALSE
