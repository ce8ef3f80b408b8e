SPECIFICATION Spec
CONSTANTS
    Members = {1}
    Markets = {k1, k2}
    Entries = {0, 1}
    Scale = 1
    Prices = {100, 110}
    Holdings = {0, 1}
    InitialPoints = 3
    MinStake = 1
    StakeNum = 1
    StakeDen = 1
    QuorumNum = 66
    QuorumDen = 100
    MinProbability = 5500
    Notional = 105
    Horizon = 2
    RakeBps = 2500
    Precision = 4
    BuyThreshold = 30000
    ComputeConsensus <- MCComputeConsensus
    SettleParimutuel <- MCSettleParimutuel
    RakeOf <- MCRakeOf
    ResolveOutcome <- MCResolveOutcome
    MarketScore <- MCMarketScore
INVARIANTS
    NoOverdraft
    PointsConserved
    ScoresAgreeWithHits
SYMMETRY MarketSymmetry
