----------------------------- MODULE MCSessions -----------------------------
(* Sessions with the algorithms of Consensus, for TLC.                       *)
EXTENDS Sessions, MCMarketLifecycle

\* Everything on BUY or on SELL; a market judged HOLD then has no winner.
MCAllocations == {allocation \in [Outcomes -> Entries] : Stake(allocation) = 1 /\ allocation["HOLD"] = 0}

SlotSymmetry == Permutations(Slots)
=============================================================================
