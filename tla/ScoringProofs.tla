---------------------------- MODULE ScoringProofs ----------------------------
(* Theorems about the leaderboard: the order follows the points, and hits and *)
(* scores agree, for any members, markets and settings, over any history of   *)
(* MarketLifecycle.                                                           *)
EXTENDS Scoring, MarketLifecycleProofs

-----------------------------------------------------------------------------
(* Profit and balance                                                        *)

\* What a market has brought a member so far.
Net(k, m) == payout[k][m] + refund[k][m] - locked[k][m]

\* A balance is the grant and the profit: the entry types that leaderboard lists,
\* and the grant, are all there are.
ProfitIsTheBalance ==
    \A m \in Members :
        balance[m] = (IF m \in joined THEN InitialPoints ELSE 0) + NetProfit(m)

\* A profit is a whole amount.
LEMMA ProfitIsInteger ==
    ASSUME TypeOK, NEW m \in Members
    PROVE  NetProfit(m) \in Int
<1> DEFINE net == [k \in Markets |-> Net(k, m)]
<1>1. net \in [Markets -> Int]
  BY DEF TypeOK, Net
<1>2. NetProfit(m) = SumFunction(net)
  BY DEF NetProfit, Net
<1> HIDE DEF net
<1>. QED BY <1>1, <1>2, SumFunctionIsInteger, SettingsAssumption

\* A profit moves by as much as the one market that moves.
LEMMA ProfitMoves ==
    ASSUME TypeOK, TypeOK', NEW k \in Markets, NEW m \in Members,
           \A j \in Markets \ {k} : Net(j, m)' = Net(j, m)
    PROVE  NetProfit(m)' = NetProfit(m) + Net(k, m)' - Net(k, m)
<1> DEFINE before == [j \in Markets |-> Net(j, m)]
           after == [j \in Markets |-> Net(j, m)']
<1>1. before \in [Markets -> Int] /\ after \in [Markets -> Int]
  BY DEF TypeOK, Net
<1>2. NetProfit(m) = SumFunction(before) /\ NetProfit(m)' = SumFunction(after)
  BY DEF NetProfit, Net
<1>3. \A j \in Markets \ {k} : after[j] = before[j]
  OBVIOUS
<1>4. after[k] = Net(k, m)' /\ before[k] = Net(k, m)
  OBVIOUS
<1> HIDE DEF before, after
<1>5. SumFunction(after) = SumFunction(before) + after[k] - before[k]
  BY <1>1, <1>3, SumChanged, SettingsAssumption
<1>. QED BY <1>2, <1>4, <1>5

\* Where the balances move with one market, they stay the grants and the profits.
LEMMA MovingTogether ==
    ASSUME TypeOK, TypeOK', ProfitIsTheBalance, NEW k \in Markets, joined' = joined,
           \A m \in Members : /\ \A j \in Markets \ {k} : Net(j, m)' = Net(j, m)
                              /\ balance'[m] = balance[m] + Net(k, m)' - Net(k, m)
    PROVE  ProfitIsTheBalance'
<1> SUFFICES ASSUME NEW m \in Members
             PROVE  balance'[m] = (IF m \in joined' THEN InitialPoints ELSE 0) + NetProfit(m)'
  BY DEF ProfitIsTheBalance
<1>1. NetProfit(m)' = NetProfit(m) + Net(k, m)' - Net(k, m)
  BY ProfitMoves
<1>2. balance'[m] = balance[m] + Net(k, m)' - Net(k, m)
  OBVIOUS
<1>3. balance[m] = (IF m \in joined THEN InitialPoints ELSE 0) + NetProfit(m)
  BY DEF ProfitIsTheBalance
<1>4. NetProfit(m) \in Int /\ InitialPoints \in Int
  BY ProfitIsInteger, SettingsAssumption
<1>5. Net(k, m) \in Int /\ Net(k, m)' \in Int
  BY DEF TypeOK, Net
<1>. QED BY <1>1, <1>2, <1>3, <1>4, <1>5

\* Where the ledger stands still and nobody joins, so does the rest.
LEMMA StandingStill ==
    ASSUME ProfitIsTheBalance, UNCHANGED <<ledgerVars, joined>>
    PROVE  ProfitIsTheBalance'
BY DEF ProfitIsTheBalance, NetProfit, ledgerVars

\* A payout moves a balance and the profit alike.
LEMMA PayingMoves ==
    ASSUME TypeOK, TypeOK', ProfitIsTheBalance, NEW k \in Markets, NEW w \in Outcomes,
           PayOut(k, w), UNCHANGED <<locked, refund, joined>>
    PROVE  ProfitIsTheBalance'
<1>1. Owed(k, w) \in [Members -> Nat]
  BY OwedIsNatural
<1>2. ASSUME NEW m \in Members
      PROVE  /\ \A j \in Markets \ {k} : Net(j, m)' = Net(j, m)
             /\ balance'[m] = balance[m] + Net(k, m)' - Net(k, m)
  <2>1. \A j \in Markets \ {k} : Net(j, m)' = Net(j, m)
    BY DEF PayOut, Net, TypeOK
  <2>2. payout'[k][m] = payout[k][m] + Owed(k, w)[m] /\ balance'[m] = balance[m] + Owed(k, w)[m]
    BY DEF PayOut, TypeOK
  <2>3. payout[k][m] \in Int /\ refund[k][m] \in Int /\ locked[k][m] \in Int
        /\ balance[m] \in Int /\ Owed(k, w)[m] \in Int
    BY <1>1 DEF TypeOK
  <2>4. Net(k, m)' = payout'[k][m] + refund[k][m] - locked[k][m]
        /\ Net(k, m) = payout[k][m] + refund[k][m] - locked[k][m]
    BY DEF Net
  <2>5. balance'[m] = balance[m] + Net(k, m)' - Net(k, m)
    BY <2>2, <2>3, <2>4
  <2>. QED BY <2>1, <2>5
<1>. QED BY <1>2, MovingTogether

\* Every step keeps the balances and the profits together.
LEMMA ProfitStep ==
    ASSUME TypeOK, TypeOK', ProfitIsTheBalance, [Next]_vars
    PROVE  ProfitIsTheBalance'
<1>1. CASE Open \/ Close \/ Decide \/ Reject \/ Approve \/ Resolve \/ Advance \/ UNCHANGED vars
  BY <1>1, StandingStill
  DEF Open, CreateMarket, Close, CloseMarket, Decide, BuildDecision, Reject, RejectDecision,
      Approve, ExecuteDecision, Resolve, ResolveMarket, Advance, vars
<1>2. ASSUME NEW k \in Markets, NEW price, NEW later, NEW held, TickClose(k, price, later, held)
      PROVE  ProfitIsTheBalance'
  BY <1>2, StandingStill DEF TickClose
<1>3. ASSUME NEW m \in Members, CreateMember(m)
      PROVE  ProfitIsTheBalance'
  <2> SUFFICES ASSUME NEW n \in Members
               PROVE  balance'[n] = (IF n \in joined' THEN InitialPoints ELSE 0) + NetProfit(n)'
    BY DEF ProfitIsTheBalance
  <2>1. NetProfit(n)' = NetProfit(n) /\ NetProfit(n) \in Int /\ InitialPoints \in Int
    BY <1>3, ProfitIsInteger, SettingsAssumption DEF CreateMember, NetProfit
  <2>2. balance[n] = (IF n \in joined THEN InitialPoints ELSE 0) + NetProfit(n)
    BY DEF ProfitIsTheBalance
  <2>3. n \in Members /\ balance \in [Members -> Int]
    BY DEF TypeOK
  <2>. QED BY <1>3, <2>1, <2>2, <2>3 DEF CreateMember
<1>4. ASSUME NEW k \in Markets, NEW m \in Members, NEW allocation \in [Outcomes -> Entries],
             PlaceAllocation(k, m, allocation)
      PROVE  ProfitIsTheBalance'
  <2> DEFINE lock == Relocked(k, m, Stake(allocation))
  <2>1. /\ locked' = [locked EXCEPT ![k] = [@ EXCEPT ![m] = lock]]
        /\ balance' = [balance EXCEPT ![m] = @ + locked[k][m] - lock]
        /\ UNCHANGED <<payout, refund, joined>>
    BY <1>4 DEF PlaceAllocation
  <2> HIDE DEF lock
  <2>2. ASSUME NEW n \in Members
        PROVE  /\ \A j \in Markets \ {k} : Net(j, n)' = Net(j, n)
               /\ balance'[n] = balance[n] + Net(k, n)' - Net(k, n)
    <3>1. \A j \in Markets \ {k} : Net(j, n)' = Net(j, n)
      BY <2>1 DEF Net, TypeOK
    <3>2. balance'[n] = balance[n] + locked[k][n] - locked'[k][n]
      BY <2>1 DEF TypeOK
    <3>3. payout[k][n] \in Int /\ refund[k][n] \in Int /\ locked[k][n] \in Int
          /\ locked'[k][n] \in Int /\ balance[n] \in Int
      BY DEF TypeOK
    <3>4. Net(k, n)' = payout[k][n] + refund[k][n] - locked'[k][n]
          /\ Net(k, n) = payout[k][n] + refund[k][n] - locked[k][n]
      BY <2>1 DEF Net
    <3>5. balance'[n] = balance[n] + Net(k, n)' - Net(k, n)
      BY <3>2, <3>3, <3>4
    <3>. QED BY <3>1, <3>5
  <2>. QED BY <2>1, <2>2, MovingTogether
<1>5. ASSUME NEW k \in Markets, SettleMarket(k)
      PROVE  ProfitIsTheBalance'
  <2>1. winner[k] \in Outcomes
    BY <1>5 DEF SettleMarket, TypeOK
  <2>. QED BY <1>5, <2>1, PayingMoves DEF SettleMarket
<1>6. ASSUME NEW k \in Markets, NEW price \in Prices, TickResolve(k, price)
      PROVE  ProfitIsTheBalance'
  <2>1. ResolveOutcome(reference[k], price) \in Outcomes
    BY <1>6, AlgorithmsAssumption DEF TickResolve, Judgeable, TypeOK
  <2>. QED BY <1>6, <2>1, PayingMoves DEF TickResolve
<1>7. ASSUME NEW k \in Markets, CancelMarket(k)
      PROVE  ProfitIsTheBalance'
  <2> DEFINE due == [m \in Members |-> IF refund[k][m] = 0 THEN Stake(bets[k][m]) ELSE 0]
  <2>1. /\ refund' = [refund EXCEPT ![k] = [m \in Members |-> @[m] + due[m]]]
        /\ balance' = [m \in Members |-> balance[m] + due[m]]
        /\ UNCHANGED <<locked, payout, joined>>
    BY <1>7 DEF CancelMarket
  <2>2. \A m \in Members : due[m] \in Int
    BY StakeIsNatural DEF TypeOK
  <2> HIDE DEF due
  <2>3. ASSUME NEW m \in Members
        PROVE  /\ \A j \in Markets \ {k} : Net(j, m)' = Net(j, m)
               /\ balance'[m] = balance[m] + Net(k, m)' - Net(k, m)
    <3>1. \A j \in Markets \ {k} : Net(j, m)' = Net(j, m)
      BY <2>1 DEF Net, TypeOK
    <3>2. refund'[k][m] = refund[k][m] + due[m] /\ balance'[m] = balance[m] + due[m]
      BY <2>1 DEF TypeOK
    <3>3. payout[k][m] \in Int /\ refund[k][m] \in Int /\ locked[k][m] \in Int
          /\ balance[m] \in Int /\ due[m] \in Int
      BY <2>2 DEF TypeOK
    <3>4. Net(k, m)' = payout[k][m] + refund'[k][m] - locked[k][m]
          /\ Net(k, m) = payout[k][m] + refund[k][m] - locked[k][m]
      BY <2>1 DEF Net
    <3>5. balance'[m] = balance[m] + Net(k, m)' - Net(k, m)
      BY <3>2, <3>3, <3>4
    <3>. QED BY <3>1, <3>5
  <2>. QED BY <2>1, <2>3, MovingTogether
<1>. QED BY <1>1, <1>2, <1>3, <1>4, <1>5, <1>6, <1>7
     DEF Next, Register, Bet, Settle, Cancel, Tick

\* Before anybody joins there is neither.
LEMMA ProfitInit == Init => ProfitIsTheBalance
<1> SUFFICES ASSUME Init, NEW m \in Members
             PROVE  balance[m] = (IF m \in joined THEN InitialPoints ELSE 0) + NetProfit(m)
  BY DEF ProfitIsTheBalance
<1> DEFINE net == [k \in Markets |-> Net(k, m)]
<1>1. \A k \in Markets : net[k] = 0
  BY DEF Init, NoPoints, Net
<1>2. NetProfit(m) = SumFunctionOnSet(net, Markets)
  BY DEF NetProfit, Net, SumFunction
<1> HIDE DEF net
<1>3. SumFunctionOnSet(net, Markets) = 0 * Cardinality(Markets)
  BY <1>1, SumOfEqual, SettingsAssumption
<1>4. Cardinality(Markets) \in Nat
  BY FS_CardinalityType, SettingsAssumption
<1>. QED BY <1>2, <1>3, <1>4 DEF Init, NoPoints

\* So every balance is the grant and the profit, whatever happened.
THEOREM ProfitTheorem == Spec => []ProfitIsTheBalance
<1>1. TypeOK /\ TypeOK' /\ ProfitIsTheBalance /\ [Next]_vars => ProfitIsTheBalance'
  BY ProfitStep
<1>. QED BY <1>1, ProfitInit, TypeCorrect, PTL DEF Spec

\* No member stands above one who holds more points, on any order of the board that
\* the sort may produce.
THEOREM BoardTheorem == Spec => []BoardFollowsThePoints
<1>1. TypeOK /\ ProfitIsTheBalance => BoardFollowsThePoints
  <2> SUFFICES ASSUME TypeOK, ProfitIsTheBalance,
                      NEW board \in Leaderboards, NEW i \in DOMAIN board, NEW j \in DOMAIN board, i < j
               PROVE  balance[board[i]] >= balance[board[j]]
    BY DEF BoardFollowsThePoints
  <2> DEFINE m == board[i]
             n == board[j]
  <2>1. m \in joined /\ n \in joined /\ ~RanksBefore(n, m)
    BY DEF Leaderboards
  <2>2. m \in Members /\ n \in Members
    BY <2>1 DEF TypeOK
  <2> HIDE DEF m, n
  <2>3. NetProfit(m) \in Int /\ NetProfit(n) \in Int /\ InitialPoints \in Int
    BY <2>2, ProfitIsInteger, SettingsAssumption
  <2>4. NetProfit(m) >= NetProfit(n)
    BY <2>1, <2>3 DEF RanksBefore
  <2>5. balance[m] = InitialPoints + NetProfit(m) /\ balance[n] = InitialPoints + NetProfit(n)
    BY <2>1, <2>2 DEF ProfitIsTheBalance
  <2>6. balance[m] >= balance[n]
    BY <2>3, <2>4, <2>5
  <2>. QED BY <2>6 DEF m, n
<1>. QED BY <1>1, ProfitTheorem, TypeCorrect, PTL

-----------------------------------------------------------------------------
(* Hits and scores                                                           *)

\* What the markets a member took part in cost it: hits at most two thirds, the
\* others at least a half and at most 2.
LEMMA MarketScores ==
    ASSUME TypeOK, NEW m \in Members
    PROVE  /\ IsFiniteSet(Participated(m)) /\ Hits(m) \subseteq Participated(m)
           /\ \A k \in Participated(m) : MarketScore(bets[k][m], winner[k]) \in Nat
           /\ \A k \in Hits(m) : 3 * MarketScore(bets[k][m], winner[k]) <= 2000001
           /\ \A k \in Participated(m) \ Hits(m) :
                  /\ MarketScore(bets[k][m], winner[k]) >= 500000
                  /\ MarketScore(bets[k][m], winner[k]) <= 2000000
<1>1. Participated(m) \subseteq Markets
  BY DEF Participated
<1>2. IsFiniteSet(Participated(m)) /\ Hits(m) \subseteq Participated(m)
  BY <1>1, FS_Subset, SettingsAssumption DEF Hits
<1>3. ASSUME NEW k \in Participated(m)
      PROVE  LET score == MarketScore(bets[k][m], winner[k])
             IN  /\ score \in Nat
                 /\ k \in Hits(m) => 3 * score <= 2000001
                 /\ k \notin Hits(m) => score >= 500000 /\ score <= 2000000
  <2> DEFINE allocation == bets[k][m]
             w == winner[k]
             score == MarketScore(allocation, w)
  <2>1. allocation \in [Outcomes -> {Stored(e) : e \in Entries}]
    BY <1>1 DEF TypeOK, Books
  <2>2. w \in Outcomes /\ Stake(allocation) > 0
    BY <1>1 DEF TypeOK, Participated
  <2>3. k \in Hits(m) <=> Top(allocation) = w
    BY DEF Hits
  <2> HIDE DEF allocation, w
  <2>4. /\ score \in Nat
        /\ Top(allocation) = w => 3 * score <= 2000001
        /\ Top(allocation) # w => score >= 500000 /\ score <= 2000000
    BY <2>1, <2>2, ScoreAssumption, SMT
  <2> HIDE DEF score
  <2>. QED BY <2>3, <2>4, SMT DEF score, allocation, w
<1>. QED BY <1>2, <1>3, SMT

\* And what they cost together, whatever the mix.
LEMMA TotalScore ==
    ASSUME TypeOK, NEW m \in Members
    PROVE  LET played == Cardinality(Participated(m))
               hits   == Cardinality(Hits(m))
           IN  /\ played \in Nat /\ hits \in Nat /\ hits <= played /\ BrierTotal(m) \in Nat
               /\ BrierTotal(m) >= 500000 * (played - hits)
               /\ 3 * BrierTotal(m) <= 2000001 * hits + 6000000 * (played - hits)
<1> DEFINE P == Participated(m)
           H == Hits(m)
           M == P \ H
           f == [k \in P |-> MarketScore(bets[k][m], winner[k])]
           thrice == [k \in P |-> 3 * f[k]]
           less == [k \in P |-> (-1) * f[k]]
<1>1. IsFiniteSet(P) /\ H \subseteq P
      /\ \A k \in P : /\ f[k] \in Nat
                      /\ k \in H => 3 * f[k] <= 2000001
                      /\ k \notin H => f[k] >= 500000 /\ f[k] <= 2000000
  BY MarketScores, SMT
<1>2. BrierTotal(m) = SumFunctionOnSet(f, P)
  BY DEF BrierTotal, SumFunction
<1> HIDE DEF P, H, f
<1>3. IsFiniteSet(P) /\ H \subseteq P
  BY <1>1, SMT
<1>4. IsFiniteSet(H) /\ IsFiniteSet(M) /\ M \subseteq P /\ Cardinality(P) \in Nat
      /\ Cardinality(H) \in Nat /\ Cardinality(M) \in Nat
      /\ Cardinality(M) = Cardinality(P) - Cardinality(H)
  <2>1. P \cap H = H /\ M \subseteq P /\ H \subseteq P
    BY <1>3
  <2>2. IsFiniteSet(H) /\ IsFiniteSet(M)
    BY <1>3, <2>1, FS_Subset
  <2>3. Cardinality(P) \in Nat /\ Cardinality(H) \in Nat /\ Cardinality(M) \in Nat
    BY <1>3, <2>2, FS_CardinalityType
  <2>4. Cardinality(M) = Cardinality(P) - Cardinality(H)
    BY <1>3, <2>1, FS_Difference
  <2>. QED BY <2>1, <2>2, <2>3, <2>4
<1> DEFINE total == SumFunctionOnSet(f, P)
           good == SumFunctionOnSet(f, H)
           bad == SumFunctionOnSet(f, M)
<1>5. total \in Nat /\ good \in Nat /\ bad \in Nat
  BY <1>1, <1>3, <1>4, SumOfNaturals, SMT
<1>6. total = good + bad
  <2>1. \A k \in P : f[k] \in Int
    BY <1>1, SMT
  <2>. QED BY <1>3, <2>1, SumOfParts
<1>7. 3 * good <= 2000001 * Cardinality(H)
  <2>1. \A k \in H : f[k] \in Int /\ thrice[k] = 3 * f[k] /\ thrice[k] \in Int /\ thrice[k] <= 2000001
    BY <1>1, SMT
  <2> HIDE DEF thrice
  <2>2. SumFunctionOnSet(thrice, H) = 3 * good
    BY <1>4, <2>1, SumScaled
  <2>3. SumFunctionOnSet(thrice, H) <= 2000001 * Cardinality(H)
    BY <1>4, <2>1, SumAtMost, SMT
  <2>. QED BY <2>2, <2>3
<1>8. bad <= 2000000 * Cardinality(M)
  <2>1. \A k \in M : f[k] \in Int /\ f[k] <= 2000000
    BY <1>1, SMT
  <2>. QED BY <1>4, <2>1, SumAtMost, SMT
<1>9. bad >= 500000 * Cardinality(M)
  <2>1. \A k \in M : f[k] \in Int /\ less[k] = (-1) * f[k] /\ less[k] \in Int /\ less[k] <= -500000
    BY <1>1, SMT
  <2> HIDE DEF less
  <2>2. SumFunctionOnSet(less, M) = (-1) * bad
    BY <1>4, <2>1, SumScaled
  <2>3. SumFunctionOnSet(less, M) <= (-500000) * Cardinality(M)
    BY <1>4, <2>1, SumAtMost, SMT
  <2>. QED BY <1>4, <1>5, <2>2, <2>3, SMT
<1> DEFINE played == Cardinality(P)
           hits == Cardinality(H)
           missed == Cardinality(M)
<1> HIDE DEF total, good, bad, played, hits, missed
<1>10. /\ played \in Nat /\ hits \in Nat /\ hits <= played /\ total \in Nat
       /\ total >= 500000 * (played - hits)
       /\ 3 * total <= 2000001 * hits + 6000000 * (played - hits)
  BY <1>4, <1>5, <1>6, <1>7, <1>8, <1>9, SMT DEF played, hits, missed
<1>. QED BY <1>2, <1>10, SMT DEF played, hits, total, P, H

\* What ScoresAgreeWithHits says of one member.
Agrees(m) ==
    LET played == Cardinality(Participated(m))
        missed == played - Cardinality(Hits(m))
    IN  played > 0 =>
            /\ 2 * played * (Brier(m) + 1) >= 1000000 * missed
            /\ 3 * played * (Brier(m) - 1) <= 2000000 * (played - missed) + 6000000 * missed
            /\ missed = 0 => HitRate(m) = 10000
            /\ HitRate(m) = 10000 => 20000 * missed <= played

\* Hits and mean score tell one story, and a hit rate of 1 hides at most one miss
\* in 20 000, for any number of markets.
THEOREM ScoresTheorem == Spec => []ScoresAgreeWithHits
<1>1. ASSUME TypeOK, NEW m \in Members, Cardinality(Participated(m)) > 0
      PROVE  Agrees(m)
  <2> DEFINE n == Cardinality(Participated(m))
             h == Cardinality(Hits(m))
             total == BrierTotal(m)
             mean == Brier(m)
             rate == HitRate(m)
  <2>1. /\ n \in Nat /\ h \in Nat /\ h <= n /\ total \in Nat
        /\ total >= 500000 * (n - h)
        /\ 3 * total <= 2000001 * h + 6000000 * (n - h)
    BY <1>1, TotalScore, SMT
  <2>2. Participated(m) # {}
    BY <1>1, FS_EmptySet
  <2>3. mean = HalfEven(total, n) /\ rate = HalfEven(10000 * h, n)
    BY <2>2, SMT DEF Brier, HitRate
  <2>4. n > 0
    BY <1>1
  <2> HIDE DEF n, h, total, mean, rate
  <2>5. mean \in Nat /\ 2 * (n * mean) <= 2 * total + n /\ 2 * (n * mean) >= 2 * total - n
    BY <2>1, <2>3, <2>4, HalfEvenBounds, SMT
  <2>6. rate \in Nat /\ 2 * (n * rate) <= 2 * (10000 * h) + n /\ 2 * (n * rate) >= 2 * (10000 * h) - n
    <3>1. 10000 * h \in Nat /\ n \in Nat \ {0}
      BY <2>1, <2>4
    <3> DEFINE x == 10000 * h
    <3>2. x \in Nat /\ rate = HalfEven(x, n)
      BY <2>3, <3>1
    <3> HIDE DEF x
    <3>3. HalfEven(x, n) \in Nat /\ 2 * (n * HalfEven(x, n)) <= 2 * x + n
          /\ 2 * (n * HalfEven(x, n)) >= 2 * x - n
      BY <3>1, <3>2, HalfEvenBounds
    <3>4. rate \in Nat /\ 2 * (n * rate) <= 2 * x + n /\ 2 * (n * rate) >= 2 * x - n
      BY <3>2, <3>3
    <3>. QED BY <3>4 DEF x
  <2>7. 2 * n * (mean + 1) = 2 * (n * mean) + 2 * n /\ 3 * n * (mean - 1) = 3 * (n * mean) - 3 * n
    BY <2>1, <2>5, SMT
  <2> DEFINE y == n * mean
  <2>8. y \in Int /\ 2 * y <= 2 * total + n /\ 2 * y >= 2 * total - n
        /\ 2 * n * (mean + 1) = 2 * y + 2 * n /\ 3 * n * (mean - 1) = 3 * y - 3 * n
    BY <2>1, <2>5, <2>7, SMT
  <2> HIDE DEF y
  <2>9. 2 * n * (mean + 1) >= 1000000 * (n - h)
    BY <2>1, <2>8, SMT
  <2>10. 3 * n * (mean - 1) <= 2000000 * h + 6000000 * (n - h)
    BY <2>1, <2>8, SMT
  <2>11. h = n => rate = 10000
    <3> SUFFICES ASSUME h = n PROVE rate = 10000
      OBVIOUS
    <3>1. ~(rate >= 10001)
      <4> SUFFICES ASSUME rate >= 10001 PROVE FALSE
        OBVIOUS
      <4>1. n * rate >= n * 10001
        BY <2>1, <2>6, SMT
      <4>. QED BY <2>1, <2>4, <2>6, <4>1, SMT
    <3>2. ~(rate <= 9999)
      <4> SUFFICES ASSUME rate <= 9999 PROVE FALSE
        OBVIOUS
      <4>1. n * rate <= n * 9999
        BY <2>1, <2>6, SMT
      <4>. QED BY <2>1, <2>4, <2>6, <4>1, SMT
    <3>. QED BY <2>6, <3>1, <3>2
  <2>12. rate = 10000 => 20000 * (n - h) <= n
    BY <2>1, <2>6, SMT
  <2> DEFINE missed == n - h
  <2>13. missed \in Nat /\ n - missed = h /\ n - h = missed /\ (missed = 0 => h = n)
    BY <2>1
  <2>. QED BY <2>9, <2>10, <2>11, <2>12, <2>13, SMT DEF Agrees, n, h, mean, rate
<1>2. ASSUME TypeOK PROVE ScoresAgreeWithHits
  <2>1. ASSUME NEW m \in joined PROVE Agrees(m)
    <3>1. m \in Members
      BY <1>2 DEF TypeOK
    <3>2. CASE Cardinality(Participated(m)) > 0
      BY <1>1, <1>2, <3>1, <3>2
    <3>3. CASE ~(Cardinality(Participated(m)) > 0)
      BY <3>3, SMT DEF Agrees
    <3>. QED BY <3>2, <3>3
  <2>. QED BY <2>1, SMT DEF ScoresAgreeWithHits, Agrees
<1>. QED BY <1>2, TypeCorrect, PTL

-----------------------------------------------------------------------------
(* The sort                                                                  *)

\* A mean score is a whole number of units.
LEMMA BrierIsNatural ==
    ASSUME TypeOK, NEW m \in Members
    PROVE  Brier(m) \in Nat
<1>1. CASE Participated(m) = {}
  BY <1>1, SMT DEF Brier
<1>2. CASE Participated(m) # {}
  <2> DEFINE n == Cardinality(Participated(m))
             total == BrierTotal(m)
  <2>1. Brier(m) = HalfEven(total, n)
    BY <1>2, SMT DEF Brier
  <2>2. n \in Nat /\ total \in Nat
    BY TotalScore, SMT
  <2>3. IsFiniteSet(Participated(m))
    <3>1. Participated(m) \subseteq Markets
      BY DEF Participated
    <3>. QED BY <3>1, FS_Subset, SettingsAssumption
  <2>4. n # 0
    BY <1>2, <2>3, FS_EmptySet
  <2> HIDE DEF n, total
  <2>. QED BY <2>1, <2>2, <2>4, HalfEvenBounds
<1>. QED BY <1>1, <1>2

\* Nobody ranks before itself, and who ranks before one ranks before all behind it.
LEMMA RankingIsAnOrder ==
    ASSUME TypeOK
    PROVE  /\ \A m \in Members : ~RanksBefore(m, m)
           /\ \A l, m, n \in Members : RanksBefore(l, m) /\ RanksBefore(m, n) => RanksBefore(l, n)
<1>1. \A m \in Members : NetProfit(m) \in Int /\ Brier(m) \in Int
  BY ProfitIsInteger, BrierIsNatural
<1>. QED BY <1>1 DEF RanksBefore

\* Of any members one ranks before none of the others.
LEMMA SomeoneIsLast ==
    ASSUME TypeOK, NEW T \in SUBSET Members, T # {}
    PROVE  \E x \in T : \A y \in T : ~RanksBefore(x, y)
<1> DEFINE Good == {S \in SUBSET Members : S # {} => \E x \in S : \A y \in S : ~RanksBefore(x, y)}
<1>1. ASSUME NEW S \in SUBSET Members, \A x \in S : S \ {x} \in Good
      PROVE  S \in Good
  <2> SUFFICES ASSUME S # {} PROVE \E x \in S : \A y \in S : ~RanksBefore(x, y)
    OBVIOUS
  <2>1. PICK x \in S : TRUE
    OBVIOUS
  <2>2. CASE S = {x}
    BY <2>2, RankingIsAnOrder
  <2>3. CASE S # {x}
    <3>1. PICK y \in S \ {x} : \A z \in S \ {x} : ~RanksBefore(y, z)
      BY <1>1, <2>1, <2>3
    <3>2. CASE ~RanksBefore(y, x)
      BY <3>1, <3>2
    <3>3. CASE RanksBefore(y, x)
      <4>1. \A z \in S : ~RanksBefore(x, z)
        BY <2>1, <3>1, <3>3, RankingIsAnOrder
      <4>. QED BY <2>1, <4>1
    <3>. QED BY <3>2, <3>3
  <2>. QED BY <2>2, <2>3
<1>2. IsFiniteSet(Members)
  BY SettingsAssumption
<1>3. T \in Good
  <2> HIDE DEF Good
  <2>. QED BY <1>1, <1>2, SubsetInduction
<1>. QED BY <1>3

\* A board of some members: everyone has a place, and nobody ranks before one above.
IsBoard(board, T) ==
    /\ board \in [1..Cardinality(T) -> T]
    /\ \A i, j \in 1..Cardinality(T) :
           i < j => board[i] # board[j] /\ ~RanksBefore(board[j], board[i])

\* The sort has a result: BoardTheorem is about at least one board.
LEMMA SomeBoard ==
    ASSUME TypeOK
    PROVE  Leaderboards # {}
<1> DEFINE Good == {S \in SUBSET Members : \E board : IsBoard(board, S)}
<1>1. IsFiniteSet(Members) /\ joined \subseteq Members
  BY SettingsAssumption DEF TypeOK
<1>2. ASSUME NEW S \in SUBSET Members, \A x \in S : S \ {x} \in Good
      PROVE  S \in Good
  <2>1. CASE S = {}
    <3>1. IsBoard([i \in 1..0 |-> i], S)
      BY <2>1, FS_EmptySet DEF IsBoard
    <3>. QED BY <3>1
  <2>2. CASE S # {}
    <3>1. PICK x \in S : \A y \in S : ~RanksBefore(x, y)
      BY <2>2, SomeoneIsLast
    <3>2. PICK above : IsBoard(above, S \ {x})
      BY <1>2, <3>1
    <3> DEFINE n == Cardinality(S \ {x})
               board == [i \in 1..n + 1 |-> IF i = n + 1 THEN x ELSE above[i]]
    <3>3. Cardinality(S) = n + 1 /\ n \in Nat
      <4>1. IsFiniteSet(S) /\ IsFiniteSet(S \ {x})
        BY <1>1, FS_Subset
      <4>2. n = Cardinality(S) - 1
        BY <4>1, FS_RemoveElement
      <4>. QED BY <4>1, <4>2, FS_CardinalityType
    <3>4. above \in [1..n -> S \ {x}]
          /\ \A i, j \in 1..n : i < j => above[i] # above[j] /\ ~RanksBefore(above[j], above[i])
      BY <3>2 DEF IsBoard
    <3> HIDE DEF n
    <3>5. board \in [1..n + 1 -> S]
      BY <3>1, <3>3, <3>4
    <3>6. ASSUME NEW i \in 1..n + 1, NEW j \in 1..n + 1, i < j
          PROVE  board[i] # board[j] /\ ~RanksBefore(board[j], board[i])
      <4>1. i \in 1..n /\ board[i] = above[i]
        BY <3>3, <3>6
      <4>2. CASE j = n + 1
        BY <3>1, <3>4, <4>1, <4>2
      <4>3. CASE j # n + 1
        <5>1. j \in 1..n /\ board[j] = above[j]
          BY <3>3, <4>3
        <5> HIDE DEF board
        <5>. QED BY <3>4, <3>6, <4>1, <5>1
      <4>. QED BY <4>2, <4>3
    <3>7. IsBoard(board, S)
      BY <3>3, <3>5, <3>6 DEF IsBoard
    <3>. QED BY <3>7
  <2>. QED BY <2>1, <2>2
<1>3. joined \in Good
  <2> HIDE DEF Good
  <2>. QED BY <1>1, <1>2, SubsetInduction
<1>4. PICK board : IsBoard(board, joined)
  BY <1>3
<1>5. board \in Leaderboards
  BY <1>4 DEF IsBoard, Leaderboards
<1>. QED BY <1>5

=============================================================================
