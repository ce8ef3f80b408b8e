------------------------------- MODULE Scoring -------------------------------
(* services/scoring.py: the leaderboard, computed from the markets, the bets  *)
(* and the ledger of MarketLifecycle. It changes nothing.                     *)
(*                                                                            *)
(* Brier scores are in units of 0.000001, hit rates in units of 0.0001.       *)
EXTENDS MarketLifecycle

CONSTANT MarketScore(_, _)      \* consensus.brier_score of an allocation and a winner

\* The settled markets that count for a member.
Participated(m) ==
    {k \in Markets : status[k] = "SETTLED" /\ winner[k] # None /\ Stake(bets[k][m]) > 0}

\* max(ALL_OUTCOMES, key=...): the largest share, the first listed on a tie.
Top(allocation) ==
    CHOOSE o \in Outcomes :
        \A p \in Outcomes \ {o} :
            \/ allocation[o] > allocation[p]
            \/ allocation[o] = allocation[p] /\ Rank[o] < Rank[p]

\* What the leaderboard relies on of the score: it tells a hit, which costs at most
\* two thirds, from a miss, which costs at least a half and at most 2.
ASSUME ScoreAssumption ==
    \A allocation \in [Outcomes -> {Stored(e) : e \in Entries}], w \in Outcomes :
        Stake(allocation) > 0 =>
            /\ MarketScore(allocation, w) \in Nat
            /\ Top(allocation) = w => 3 * MarketScore(allocation, w) <= 2000001
            /\ Top(allocation) # w =>
                   MarketScore(allocation, w) >= 500000 /\ MarketScore(allocation, w) <= 2000000

Hits(m) == {k \in Participated(m) : Top(bets[k][m]) = winner[k]}

HitRate(m) ==
    IF Participated(m) = {} THEN 0
    ELSE HalfEven(10000 * Cardinality(Hits(m)), Cardinality(Participated(m)))

BrierTotal(m) == SumFunction([k \in Participated(m) |-> MarketScore(bets[k][m], winner[k])])

BrierOverAllSettled(m) ==                                \* wrong: markets without a bet count too
    IF Participated(m) = {} THEN 9000000
    ELSE HalfEven(BrierTotal(m), Cardinality({k \in Markets : status[k] = "SETTLED"}))

\* The mean score; without one a member is ranked as if it were 9.
Brier(m) ==
    IF Participated(m) = {} THEN 9000000
    ELSE HalfEven(BrierTotal(m), Cardinality(Participated(m)))

ProfitWithoutRefunds(m) ==                               \* wrong: CANCEL_REFUND is not listed
    SumFunction([k \in Markets |-> payout[k][m] - locked[k][m]])

\* The sum of the member's BET_LOCK, BET_REFUND, CANCEL_REFUND and PAYOUT entries.
NetProfit(m) == SumFunction([k \in Markets |-> payout[k][m] + refund[k][m] - locked[k][m]])

RanksBefore(m, n) ==
    \/ NetProfit(m) > NetProfit(n)
    \/ NetProfit(m) = NetProfit(n) /\ Brier(m) < Brier(n)

\* scores.sort is stable: members that tie stay as the query of the members, which
\* asks for no order, returned them.
Leaderboards ==
    {board \in [1..Cardinality(joined) -> joined] :
        \A i, j \in DOMAIN board :
            i < j => board[i] # board[j] /\ ~RanksBefore(board[j], board[i])}

-----------------------------------------------------------------------------

\* Nobody stands above a member who holds more points: the profit, summed over
\* the entry types that leaderboard lists, and the balance, summed over all
\* entries, move together however markets end (scoring.py:71-87, 128).
BoardFollowsThePoints ==
    \A board \in Leaderboards : \A i, j \in DOMAIN board :
        i < j => balance[board[i]] >= balance[board[j]]

\* Hits and Brier score tell one story over any mix of markets: a market that is
\* no hit costs at least 0.5 and at most 2, a hit at most two thirds, as no more
\* can be lost with the largest share on the winner. A hit rate of 1 is shown for
\* hits alone, or for one miss among 20 000 markets (scoring.py:93-126).
ScoresAgreeWithHits ==
    \A m \in joined :
        LET played == Cardinality(Participated(m))
            missed == played - Cardinality(Hits(m))
        IN  played > 0 =>
                /\ 2 * played * (Brier(m) + 1) >= 1000000 * missed
                /\ 3 * played * (Brier(m) - 1) <= 2000000 * (played - missed) + 6000000 * missed
                /\ missed = 0 => HitRate(m) = 10000
                /\ HitRate(m) = 10000 => 20000 * missed <= played
=============================================================================
