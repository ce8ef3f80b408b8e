SPECIFICATION Spec
CONSTANTS
    Members = {1, 2}
    Markets = {1}
    Entries = {0, 2, 3}
    Scale = 2
    Prices = {100, 110}
    Holdings = {0, 1}
    InitialPoints = 6
    MinStake = 1
    StakeNum = 1
    StakeDen = 2
    QuorumNum = 66
    QuorumDen = 100
    MinProbability = 5500
    Notional = 105
    Horizon = 2
    RakeBps = 2500
    Precision = 4
    BuyThreshold = 30000
    ComputeConsensus <- MCComputeConsensus
    SettleParimutuel <- MCSettleParimutuel
    RakeOf <- MCRakeOf
    ResolveOutcome <- MCResolveOutcome
    MarketScore <- MCMarketScore
INVARIANT CancelReturnsTheLock
