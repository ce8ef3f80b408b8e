SPECIFICATION SessionsSpec
CONSTANTS
    Slots = {s1, s2}
    Allocations <- MCAllocations
    Managed = {k1}
    MaxCommits = 5
    Members = {1, 2}
    Markets = {k1, k2}
    Entries = {0, 1}
    Scale = 1
    Prices = {100, 110}
    Holdings = {1}
    InitialPoints = 1
    MinStake = 1
    StakeNum = 1
    StakeDen = 1
    QuorumNum = 66
    QuorumDen = 100
    MinProbability = 5500
    Notional = 105
    Horizon = 2
    RakeBps = 0
    Precision = 4
    BuyThreshold = 30000
    ComputeConsensus <- MCComputeConsensus
    SettleParimutuel <- MCSettleParimutuel
    RakeOf <- MCRakeOf
    ResolveOutcome <- MCResolveOutcome
    MarketScore <- MCMarketScore
INVARIANTS
    SessionsTypeOK
    EscrowUnlessReplacedTwice
    NoOverdraftByOthers
    HandedOutOnce
    ConservedUnlessStale
    OneDecisionOnTheBook
PROPERTIES
    FreshCommitsAreSerial
    FrozenUnlessStale
SYMMETRY SlotSymmetry
CHECK_DEADLOCK FALSE
