SPECIFICATION MCGovSpec
CONSTANTS
    LedgerGaps = {1}
    MaxNow = 5
    U64_MAX = 1000
    a1 = a1
    a2 = a2
    a3 = a3
    a4 = a4
    a5 = a5
    Accounts = {a1, a2, a3, a4, a5}
    FirstAdmin = a1
    Operators = {a1, a2}
    PauseTargets = {"vault"}
    TrialDurations = {1}
    DelayDefaults <- MCDelayDefaults
    TimelockBounds <- MCTimelockBounds
    NewDelays = {2, 9}
    CapabilityGrants <- MCCapabilityGrants
    Extensions = {1}
    DELAY_FLOOR = 1
    DELAY_CEILING = 3
    ADMIN_ACTION_DELAY = 2
    MaxQueued = 2
    Recipients <- MCRecipients
    TOTAL_SUPPLY = 20
    TokenAmounts = {2}
    Volumes = {4}
    RewardConfigs <- MCRewardConfigs
    CustomVestings <- MCCustomVestings
    TEAM_CLIFF_DURATION = 1
    TEAM_VESTING_DURATION = 3
    EARLY_INVESTOR_VESTING_DURATION = 2
    Assets = {"xlm"}
    Categories = {"ops"}
    AssetAmounts = {3}
    BudgetTerms <- MCBudgetTerms
    Caps = {2}
    SpendAmounts = {1}
    Schedules <- MCSchedules
    TargetShares = {6000}
    PriceMaps <- MCPriceMaps
    MaxSpends = 3
    DAY = 1
    TierActions <- MCTierActions
    GraceDays <- MCGraceDays
    MaxDecayDays <- MCMaxDecayDays
    StaleDays <- MCStaleDays
    BadgeVotes = 2
    BadgeSuccesses = 1
    MAX_REPUTATION_USERS = 100
    RewardPools = {7}
    Actions <- MCActions
    Configs <- MCConfigs
    DefaultConfig <- MCDefaultConfig
    DEFAULT_DEPOSIT_AMOUNT = 1
    DEFAULT_MIN_PARTICIPATION_BPS = 1500
    EXECUTION_WINDOW = 2
    STUCK_GRACE_PERIOD = 1
    Quadratic = {FALSE, TRUE}
    Delegates = {a4, a5}
    Voters = {a3, a4}
    ReputationConfigs <- MCReputationConfigs
    MaxProposals = 1
    Formations <- MCFormations
    Decisions <- MCDecisions
    ElectionTerms <- MCElectionTerms
    Ratings = {9000}
    MaxCommittees = 2
    MaxDecisions = 1
    MaxRequests = 1
    PoolTerms <- MCPoolTerms
    Requests = {3, 8}
    Commitments = {800000, 1500000}
    Calibrations <- MCCalibrations
    DECAY_SCALE = 1000
    CONVICTION_PRECISION = 100
    MaxPools = 1
    MaxConvictionProposals = 2
    CREDIT_PRECISION = 1
    QVConfigs <- MCQVConfigs
    VotesDesired = {1, 2}
    StashAssets = {"xlm"}
    StashAmounts = {1, 2}
    MaxDeposits = 4
    MaxMoved = 4
    Areas <- MCAreas
INVARIANTS
    GovernanceBooks
    TalliesFromSnapshots
PROPERTIES
    MoneyMovesByRule
    DelaysHonoured
    KeepsPromise
CHECK_DEADLOCK FALSE
