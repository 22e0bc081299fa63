CHECK_DEADLOCK FALSE
CONSTANTS
    TokenTx <- MCTokenTx
    TokenData <- TokenTable
    Account = {"A", "B"}
    TokenName = {"T"}
    TokenBlocks <- MCTokenBlocks
    Branches <- MCBranches
    MaxTokenHeight = 3
    TreasurySet = TRUE
    SeedIP = {"h1", "h2"}
    HostOf <- MCHostOf
    Wallet = {"w1", "w2"}
    SeedCaller = {1, 2}
    MaxSeedCalls = 3
    Difficulty <- MCDifficulty
    BlockTimeTarget = 1
    StuckWait = 20
    TimeoutWait = 40
    Reward <- MCReward
    NetworkFee <- MCNetworkFee
    HasTreasury = TRUE
    Worker = {"w1", "w2"}
    PayId = {"p1", "p2"}
    PayerOf <- MCPayerOf
    FeeOf <- MCFeeOf
    SnapshotCoin = {"s1", "s2"}
    CoinOwner <- MCCoinOwner
    MaxBlockTxs = 2
    TemplateTTL = 2
    MaxTries = 2
    MaxBlockSubmissionsPerMinute = 1
    Minute = 4
    Delays = {1, 3, 21}
    Drifts <- MCDrifts
    Budgets <- MCBudgets
    SyncNode = {1, 2, 3}
    Links <- MCLinks
    HeightSenders = {3}
    EventBuffer = 2
    MaxBatch = 2
    SyncBudgets <- MCSyncBudgets
SPECIFICATION Spec
INVARIANT SameTipSameLedger
