SPECIFICATION NodeSpec
CONSTANTS
    FeeBits = 10
    MaxBlockWeight = 72
    Reward = 600
    NrdEnabled = TRUE
    Hash <- MCHash
    Pools <- MCPools
    RewardKeys = {1024, 2048}
    GenesisKey = 1
    Maturity = 1
    HfInterval = 1
    MaxHeight = 3
    Txs <- MCTxs
    AcceptFeeBase = 1
    KeyHighBit = 32768
INVARIANTS NoInflation  AggregatesAdd TargetFollows CyclesExact  KeysFit
CHECK_DEADLOCK FALSE
