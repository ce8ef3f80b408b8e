-------------------------- MODULE MCMarketLifecycle --------------------------
(* MarketLifecycle and the leaderboard with the algorithms of Consensus.     *)
EXTENDS Scoring, TLC

CONSTANTS RakeBps, Precision, BuyThreshold

MCSellThreshold == -BuyThreshold

Algorithms == INSTANCE Consensus WITH SellThreshold <- MCSellThreshold

MCComputeConsensus(book) == Algorithms!ConsensusOf(book)
MCSettleParimutuel(book, w) == Algorithms!SettlementOf(book, w)
MCRakeOf(book, w) == Algorithms!Rake(book, w)
MCResolveOutcome(reference_price, resolution_price) ==
    Algorithms!OutcomeOf(reference_price, resolution_price)

MCMarketScore(allocation, w) == Algorithms!BrierScore(allocation, w)

\* Markets are interchangeable; members are not, their ids break ties.
MarketSymmetry == Permutations(Markets)
=============================================================================
