SPECIFICATION MCBridgeSpec
CONSTANTS
    c1 = c1
    w1 = w1
    LedgerGaps = {1, 2}
    MaxNow = 4
    U64_MAX = 1000
    BridgeUsers = {u1}
    Validators = {x1, x2}
    RequiredSignatures = 2
    MaxTransferAmount = 3
    DailyTransferLimit = 4
    WithdrawDelay = 1
    Chains = {c1}
    WrappedAssets = {w1, w2}
    SourceTxs <- MCSourceTxs
    TransferAmounts = {2, 3}
    Deployments = {d1, d2}
    FirstDeployment = d1
    Buffers = {20}
    Thresholds = {9000}
    RouteLimits <- MCRouteLimits
    DAY_SECONDS = 2
    MaxTransfers = 3
    SignerPool = {s1, s2, s3}
    ValidatorPool = {v1, v2, v3}
    s1 = s1
    s2 = s2
    FirstSigners <- MCFirstSigners
    FirstRequired = 2
    FirstValidators <- MCFirstValidators
    FirstMinSignatures = 2
    NewCounts = {1, 3}
    PROPOSAL_EXPIRY_SECONDS = 1
    MaxBridgeProposals = 2
    TargetChains = {t1, t2}
    MESSAGE_TIMEOUT = 2
    MaxMessages = 3
    MonitoredIds = {m1, m2}
    SourceChain = c1
    REQUIRED_CONFIRMATIONS = 2
    VerificationMethod = "BlockConfirmations"
    REORG_DEPTH_LIMIT = 4
    SourceBlocks = {1, 3}
    MonitorAmounts = {4}
    Signatures = {g1, g2}
    FeeConfigs <- MCFeeConfigs
    ChainMultipliers = {15000}
    BRIDGE_MAX_CAPACITY = 2
    BreakerConfigs <- MCBreakerConfigs
    SECONDS_PER_DAY = 2
    ON_TIME_SECONDS = 1
    SERIES_LIMIT = 2
    Providers = {p1, p2}
    PoolKinds <- MCPoolKinds
    PoolAmounts = {1, 2, 5}
    MaxPools = 1
    Areas <- MCAreas
INVARIANTS
    BridgeBooks
    QuorumReachable
    CrossChainSound
PROPERTIES
    ShareValueNeverFalls
CHECK_DEADLOCK FALSE
