------------------------ MODULE MarketLifecycleProofs ------------------------
(* What MarketLifecycle keeps for any members, markets, settings and         *)
(* algorithms that meet its two assumptions.                                 *)
EXTENDS MarketLifecycle, ArithmeticTheorems, FiniteSetTheorems, TLAPS

-----------------------------------------------------------------------------
(* Arithmetic of the columns                                                 *)

\* A rounded amount is a whole number of cents.
LEMMA StoredIsNatural ==
    ASSUME NEW amount \in Nat
    PROVE  Stored(amount) \in Nat
BY SettingsAssumption DEF Stored, HalfUp

\* Rounding takes no amount above a whole number of cents it did not exceed.
LEMMA StoredFits ==
    ASSUME NEW amount \in Nat, NEW cents \in Nat, amount <= cents * Scale
    PROVE  Stored(amount) <= cents
<1> DEFINE n == 2 * amount + Scale
           d == 2 * Scale
<1>1. n \in Nat /\ d \in Nat /\ d > 0
  BY SettingsAssumption
<1>2. Stored(amount) = n \div d
  BY DEF Stored, HalfUp
<1>3. n < (cents + 1) * d
  BY SettingsAssumption
<1>4. n \div d < cents + 1
  BY <1>1, <1>3
<1>. QED BY <1>1, <1>2, <1>4

\* An amount of whole cents is kept as it is.
LEMMA StoredCents ==
    ASSUME Scale = 1, NEW amount \in Nat
    PROVE  Stored(amount) = amount
BY DEF Stored, HalfUp

-----------------------------------------------------------------------------
(* Types                                                                     *)

\* A well typed book has whole stakes, and so whole totals.
LEMMA StakeIsNatural ==
    ASSUME NEW book \in Books, NEW m \in Members
    PROVE  Stake(book[m]) \in Nat
<1>1. \A o \in Outcomes : book[m][o] \in {Stored(e) : e \in Entries}
  BY DEF Books
<1>2. \A e \in Entries : Stored(e) \in Nat
  BY StoredIsNatural, SettingsAssumption
<1>. QED BY <1>1, <1>2 DEF Stake, Outcomes

\* The rows that a request leaves make a well typed book.
LEMMA RowsAreTyped ==
    ASSUME TypeOK, NEW k \in Markets, NEW m \in Members,
           NEW allocation \in [Outcomes -> Entries]
    PROVE  [bets EXCEPT ![k] = [@ EXCEPT ![m] = Rows(k, m, allocation)]] \in [Markets -> Books]
<1> DEFINE rows == Rows(k, m, allocation)
           book == [bets[k] EXCEPT ![m] = rows]
<1>1. rows \in [Outcomes -> {Stored(e) : e \in Entries}]
  BY DEF Rows
<1>2. bets \in [Markets -> Books]
  BY DEF TypeOK
<1> HIDE DEF rows
<1>3. book \in Books
  BY <1>1, <1>2 DEF Books
<1> HIDE DEF book
<1>4. [bets EXCEPT ![k] = book] \in [Markets -> Books]
  BY <1>2, <1>3
<1>. QED BY <1>4 DEF book, rows

\* An allocation's total is whole, and so is what it locks.
LEMMA TotalIsNatural ==
    ASSUME NEW allocation \in [Outcomes -> Entries]
    PROVE  Stake(allocation) \in Nat /\ Stored(Stake(allocation)) \in Nat
<1>1. \A o \in Outcomes : allocation[o] \in Nat
  BY SettingsAssumption
<1>2. Stake(allocation) \in Nat
  BY <1>1 DEF Stake, Outcomes
<1>. QED BY <1>2, StoredIsNatural

\* What build_decision writes is a decision.
LEMMA DecisionIsTyped ==
    ASSUME TypeOK, NEW book \in Books, NEW price, NEW held
    PROVE  DecisionFor(ComputeConsensus(book), price, held) \in Decisions
<1>1. ComputeConsensus(book) \in
          [total : Nat, participants : Nat, leader : Outcomes \cup {None}, probability : Nat]
  BY AlgorithmsAssumption
<1>2. Cardinality(joined) \in Nat
  BY SettingsAssumption, FS_Subset, FS_CardinalityType DEF TypeOK
<1>. QED BY <1>1, <1>2 DEF DecisionFor, Decisions, DecisionStatuses, Outcomes

\* A new status leaves a decision a decision.
LEMMA DecisionStatusIsTyped ==
    ASSUME NEW d \in Decisions, NEW s \in DecisionStatuses
    PROVE  [d EXCEPT !.status = s] \in Decisions
BY DEF Decisions

\* The settlement of a well typed book owes whole points.
LEMMA OwedIsNatural ==
    ASSUME TypeOK, NEW k \in Markets, NEW w \in Outcomes
    PROVE  Owed(k, w) \in [Members -> Nat]
<1>1. SettleParimutuel(bets[k], w) \in [Members -> Nat]
  BY AlgorithmsAssumption DEF TypeOK
<1>. QED BY <1>1 DEF Owed

\* Paying out keeps the accounts typed.
LEMMA PayOutIsTyped ==
    ASSUME TypeOK, NEW k \in Markets, NEW w \in Outcomes, PayOut(k, w)
    PROVE  balance' \in [Members -> Int] /\ payout' \in [Markets -> [Members -> Nat]]
BY OwedIsNatural DEF PayOut, TypeOK

\* Every step of the program keeps the types.
LEMMA TypeStep == TypeOK /\ [Next]_vars => TypeOK'
<1> SUFFICES ASSUME TypeOK, [Next]_vars
             PROVE  TypeOK'
  OBVIOUS
<1> USE DEF ledgerVars, marketVars
<1>1. CASE Register
  BY <1>1, SettingsAssumption DEF Register, CreateMember, TypeOK
<1>2. CASE Open
  BY <1>2 DEF Open, CreateMarket, TypeOK, MarketStatuses
<1>3. ASSUME NEW k \in Markets, NEW m \in Members, NEW allocation \in [Outcomes -> Entries],
             PlaceAllocation(k, m, allocation)
      PROVE  TypeOK'
  <2>1. Stored(Stake(allocation)) \in Nat
    BY TotalIsNatural
  <2>2. Stake(bets[k][m]) \in Nat
    BY StakeIsNatural DEF TypeOK
  <2>3. locked[k][m] \in Int /\ Relocked(k, m, Stake(allocation)) \in Int
    BY <2>1, <2>2 DEF Relocked, TypeOK
  <2>4. locked' \in [Markets -> [Members -> Int]] /\ balance' \in [Members -> Int]
    BY <1>3, <2>3 DEF PlaceAllocation, TypeOK
  <2>5. bets' \in [Markets -> Books]
    BY <1>3, RowsAreTyped DEF PlaceAllocation
  <2>. QED BY <1>3, <2>4, <2>5 DEF PlaceAllocation, TypeOK
<1>4. CASE Close
  BY <1>4 DEF Close, CloseMarket, TypeOK, MarketStatuses
<1>5. ASSUME NEW k \in Markets, NEW price \in Prices, NEW held \in Holdings,
             BuildDecision(k, price, held)
      PROVE  TypeOK'
  <2>1. decision' \in [Markets -> Decisions]
    BY <1>5, DecisionIsTyped DEF BuildDecision, TypeOK
  <2>. QED BY <1>5, <2>1 DEF BuildDecision, TypeOK, MarketStatuses
<1>6. ASSUME NEW k \in Markets, RejectDecision(k)
      PROVE  TypeOK'
  <2>1. decision' \in [Markets -> Decisions]
    BY <1>6, DecisionStatusIsTyped DEF RejectDecision, TypeOK, DecisionStatuses
  <2>. QED BY <1>6, <2>1 DEF RejectDecision, TypeOK
<1>7. ASSUME NEW k \in Markets, ExecuteDecision(k)
      PROVE  TypeOK'
  <2>1. decision' \in [Markets -> Decisions]
    BY <1>7, DecisionStatusIsTyped DEF ExecuteDecision, TypeOK, DecisionStatuses
  <2>. QED BY <1>7, <2>1 DEF ExecuteDecision, TypeOK, MarketStatuses
<1>8. CASE Resolve
  BY <1>8, AlgorithmsAssumption DEF Resolve, ResolveMarket, Judgeable, TypeOK, MarketStatuses
<1>9. ASSUME NEW k \in Markets, SettleMarket(k)
      PROVE  TypeOK'
  <2>1. winner[k] \in Outcomes
    BY <1>9 DEF SettleMarket, TypeOK
  <2>. QED BY <1>9, <2>1, PayOutIsTyped DEF SettleMarket, TypeOK, MarketStatuses
<1>10. ASSUME NEW k \in Markets, CancelMarket(k)
       PROVE  TypeOK'
  <2>1. \A m \in Members : Stake(bets[k][m]) \in Nat
    BY StakeIsNatural DEF TypeOK
  <2>. QED BY <1>10, <2>1 DEF CancelMarket, TypeOK, MarketStatuses
<1>11. ASSUME NEW k \in Markets, NEW price \in Prices, NEW later \in Prices,
              NEW held \in Holdings, TickClose(k, price, later, held)
       PROVE  TypeOK'
  <2>1. decision' \in [Markets -> Decisions]
    BY <1>11, DecisionIsTyped DEF TickClose, TypeOK
  <2>. QED BY <1>11, <2>1 DEF TickClose, TypeOK, MarketStatuses
<1>12. ASSUME NEW k \in Markets, NEW price \in Prices, TickResolve(k, price)
       PROVE  TypeOK'
  <2>1. ResolveOutcome(reference[k], price) \in Outcomes
    BY <1>12, AlgorithmsAssumption DEF TickResolve, Judgeable, TypeOK
  <2>2. balance' \in [Members -> Int] /\ payout' \in [Markets -> [Members -> Nat]]
    BY <1>12, <2>1, PayOutIsTyped DEF TickResolve
  <2>. QED BY <1>12, <2>1, <2>2 DEF TickResolve, TypeOK, MarketStatuses
<1>13. CASE Advance
  BY <1>13, SettingsAssumption DEF Advance, TypeOK
<1>14. CASE UNCHANGED vars
  BY <1>14 DEF vars, TypeOK
<1>. QED
  BY <1>1, <1>2, <1>3, <1>4, <1>5, <1>6, <1>7, <1>8, <1>9, <1>10, <1>11, <1>12, <1>13, <1>14
  DEF Next, Bet, Decide, Reject, Approve, Settle, Cancel, Tick

\* Every row, entry and column holds a value of its kind in every state.
THEOREM TypeCorrect == Spec => []TypeOK
<1>1. Init => TypeOK
  <2>1. Stored(0) = 0
    BY SettingsAssumption DEF Stored, HalfUp
  <2>2. NoStakes \in [Outcomes -> {Stored(e) : e \in Entries}]
    BY <2>1, SettingsAssumption DEF NoStakes
  <2>. QED BY <2>2, SettingsAssumption
       DEF Init, TypeOK, NoPoints, NoDecision, Decisions, Books
<1>2. TypeOK /\ [Next]_vars => TypeOK'
  BY TypeStep
<1>. QED BY <1>1, <1>2, PTL DEF Spec

-----------------------------------------------------------------------------
(* The ledger and the book                                                   *)

\* With amounts of whole cents, a request's rows add up to what it locks.
LEMMA RowsAddUp ==
    ASSUME Scale = 1, NEW k \in Markets, NEW m \in Members,
           NEW allocation \in [Outcomes -> Entries]
    PROVE  Stake(Rows(k, m, allocation)) = Stored(Stake(allocation))
<1>1. \A o \in Outcomes : allocation[o] \in Nat
  BY SettingsAssumption
<1>2. \A o \in Outcomes : Rows(k, m, allocation)[o] = allocation[o]
  BY <1>1, StoredCents DEF Rows
<1>3. Stake(Rows(k, m, allocation)) = Stake(allocation)
  BY <1>2 DEF Stake, Outcomes
<1>. QED BY <1>3, TotalIsNatural, StoredCents

\* Only a bet moves stakes or locks, and it moves both alike.
LEMMA EscrowStep ==
    ASSUME Scale = 1, TypeOK, EscrowMatchesBets, [Next]_vars
    PROVE  EscrowMatchesBets'
<1> USE DEF ledgerVars, marketVars
<1>1. ASSUME NEW k \in Markets, NEW m \in Members, NEW allocation \in [Outcomes -> Entries],
             PlaceAllocation(k, m, allocation)
      PROVE  EscrowMatchesBets'
  <2> SUFFICES ASSUME NEW j \in Markets, NEW n \in Members
               PROVE  locked'[j][n] = Stake(bets'[j][n])
    BY DEF EscrowMatchesBets
  <2>1. CASE j = k /\ n = m
    <3>1. locked'[k][m] = Relocked(k, m, Stake(allocation))
      BY <1>1 DEF PlaceAllocation, TypeOK
    <3>2. bets'[k][m] = Rows(k, m, allocation)
      BY <1>1 DEF PlaceAllocation, TypeOK, Books
    <3>3. locked[k][m] = Stake(bets[k][m]) /\ locked[k][m] \in Int
      BY DEF EscrowMatchesBets, TypeOK
    <3>4. Relocked(k, m, Stake(allocation)) = Stored(Stake(allocation))
      BY <3>3, TotalIsNatural DEF Relocked
    <3>. QED BY <2>1, <3>1, <3>2, <3>4, RowsAddUp
  <2>2. CASE ~(j = k /\ n = m)
    <3>1. locked'[j][n] = locked[j][n] /\ bets'[j][n] = bets[j][n]
      BY <1>1, <2>2 DEF PlaceAllocation, TypeOK, Books
    <3>. QED BY <3>1 DEF EscrowMatchesBets
  <2>. QED BY <2>1, <2>2
<1>2. ASSUME UNCHANGED <<bets, locked>>
      PROVE  EscrowMatchesBets'
  BY <1>2 DEF EscrowMatchesBets
<1>3. CASE Register \/ Open \/ Close \/ Decide \/ Reject \/ Approve
  BY <1>2, <1>3 DEF Register, Open, Close, Decide, Reject, Approve, CreateMember, CreateMarket,
     CloseMarket, BuildDecision, RejectDecision, ExecuteDecision
<1>4. CASE Resolve \/ Settle \/ Cancel \/ Tick \/ Advance
  BY <1>2, <1>4 DEF Resolve, Settle, Cancel, Tick, Advance, ResolveMarket, SettleMarket,
     CancelMarket, TickClose, TickResolve
<1>5. CASE UNCHANGED vars
  BY <1>2, <1>5 DEF vars
<1>. QED BY <1>1, <1>3, <1>4, <1>5 DEF Next, Bet

\* What the ledger holds back from a member in a market is always what its
\* rows have at stake, as long as requests are in whole cents.
THEOREM EscrowTheorem == ASSUME Scale = 1 PROVE Spec => []EscrowMatchesBets
<1>1. Init => EscrowMatchesBets
  BY DEF Init, EscrowMatchesBets, NoPoints, NoStakes, Stake, Outcomes
<1>2. TypeOK /\ EscrowMatchesBets /\ [Next]_vars => EscrowMatchesBets'
  BY EscrowStep
<1>. QED BY <1>1, <1>2, TypeCorrect, PTL DEF Spec

-----------------------------------------------------------------------------
(* Balances                                                                  *)

\* A bet leaves the balance where the previous stake and the new one put it.
LEMMA BetKeepsSolvent ==
    ASSUME TypeOK, NoOverdraft, NEW k \in Markets, NEW m \in Members,
           NEW allocation \in [Outcomes -> Entries], PlaceAllocation(k, m, allocation)
    PROVE  NoOverdraft'
<1> DEFINE stored == Stored(Stake(allocation))
           stake  == Stake(bets[k][m])
<1>1. stored \in Nat /\ Stake(allocation) \in Nat /\ stake \in Nat
  BY TotalIsNatural, StakeIsNatural DEF TypeOK
<1>2. balance[m] \in Nat /\ locked[k][m] \in Int
  BY DEF TypeOK, NoOverdraft
<1>3. Available(k, m) = balance[m] + stake
  BY DEF Available
<1>4. stored <= balance[m] + stake
  BY <1>1, <1>2, <1>3, StoredFits DEF PlaceAllocation
<1>5. Relocked(k, m, Stake(allocation)) = locked[k][m] - stake + stored
  BY DEF Relocked
<1>6. balance'[m] = balance[m] + locked[k][m] - Relocked(k, m, Stake(allocation))
  BY DEF PlaceAllocation, TypeOK
<1> HIDE DEF stored, stake
<1>7. balance'[m] >= 0
  BY <1>1, <1>2, <1>4, <1>5, <1>6
<1>8. \A n \in Members \ {m} : balance'[n] = balance[n]
  BY DEF PlaceAllocation, TypeOK
<1>. QED BY <1>7, <1>8 DEF NoOverdraft

\* A payment only adds to balances.
LEMMA PayOutKeepsSolvent ==
    ASSUME TypeOK, NoOverdraft, NEW k \in Markets, NEW w \in Outcomes, PayOut(k, w)
    PROVE  NoOverdraft'
<1>1. \A m \in Members : Owed(k, w)[m] \in Nat
  BY OwedIsNatural
<1>. QED BY <1>1 DEF PayOut, NoOverdraft, TypeOK

\* Every step keeps the balances from falling below zero.
LEMMA SolventStep ==
    ASSUME TypeOK, NoOverdraft, [Next]_vars
    PROVE  NoOverdraft'
<1> USE DEF ledgerVars, marketVars
<1>1. CASE Register
  BY <1>1, SettingsAssumption DEF Register, CreateMember, NoOverdraft, TypeOK
<1>2. CASE Bet
  BY <1>2, BetKeepsSolvent DEF Bet
<1>3. ASSUME NEW k \in Markets, SettleMarket(k)
      PROVE  NoOverdraft'
  <2>1. winner[k] \in Outcomes
    BY <1>3 DEF SettleMarket, TypeOK
  <2>. QED BY <1>3, <2>1, PayOutKeepsSolvent DEF SettleMarket
<1>4. ASSUME NEW k \in Markets, CancelMarket(k)
      PROVE  NoOverdraft'
  <2>1. \A m \in Members : Stake(bets[k][m]) \in Nat
    BY StakeIsNatural DEF TypeOK
  <2>. QED BY <1>4, <2>1 DEF CancelMarket, NoOverdraft, TypeOK
<1>5. ASSUME NEW k \in Markets, NEW price \in Prices, TickResolve(k, price)
      PROVE  NoOverdraft'
  <2>1. ResolveOutcome(reference[k], price) \in Outcomes
    BY <1>5, AlgorithmsAssumption DEF TickResolve, Judgeable, TypeOK
  <2>. QED BY <1>5, <2>1, PayOutKeepsSolvent DEF TickResolve
<1>6. ASSUME UNCHANGED balance
      PROVE  NoOverdraft'
  BY <1>6 DEF NoOverdraft
<1>7. ASSUME NEW k \in Markets, NEW price \in Prices, NEW later \in Prices,
             NEW held \in Holdings, TickClose(k, price, later, held)
      PROVE  NoOverdraft'
  BY <1>6, <1>7 DEF TickClose
<1>8. CASE Open \/ Close \/ Decide \/ Reject \/ Approve \/ Resolve \/ Advance
  BY <1>6, <1>8 DEF Open, Close, Decide, Reject, Approve, Resolve, Advance, CreateMarket,
     CloseMarket, BuildDecision, RejectDecision, ExecuteDecision, ResolveMarket
<1>9. CASE UNCHANGED vars
  BY <1>6, <1>9 DEF vars
<1>. QED BY <1>1, <1>2, <1>3, <1>4, <1>5, <1>7, <1>8, <1>9 DEF Next, Settle, Cancel, Tick

\* No member's balance is ever negative, however many markets it bets on, at
\* any precision of the requests.
THEOREM OverdraftTheorem == Spec => []NoOverdraft
<1>1. Init => NoOverdraft
  BY DEF Init, NoOverdraft, NoPoints
<1>2. TypeOK /\ NoOverdraft /\ [Next]_vars => NoOverdraft'
  BY SolventStep
<1>. QED BY <1>1, <1>2, TypeCorrect, PTL DEF Spec

-----------------------------------------------------------------------------
(* One settlement a market                                                   *)

Unpaid(k) == payout[k] = NoPoints /\ refund[k] = NoPoints

Stakes(k) == [m \in Members |-> Stake(bets[k][m])]

\* SettledOnce says what a final market paid in total; a step preserves only
\* the stronger statement of which function of the frozen book was paid.
PaidByTheBook(k) ==
    /\ status[k] = "SETTLED" =>
           /\ winner[k] \in Outcomes
           /\ payout[k] = SettleParimutuel(bets[k], winner[k])
           /\ refund[k] = NoPoints
    /\ status[k] = "CANCELLED" => payout[k] = NoPoints /\ refund[k] = Stakes(k)
    /\ status[k] \notin {"SETTLED", "CANCELLED"} => Unpaid(k)

SettlementInv == \A k \in Markets \ late : PaidByTheBook(k)

\* Paying an unpaid market pays exactly its settlement.
LEMMA PayOutOfUnpaid ==
    ASSUME TypeOK, NEW k \in Markets, NEW w \in Outcomes, Unpaid(k), PayOut(k, w)
    PROVE  payout'[k] = SettleParimutuel(bets[k], w)
<1>1. SettleParimutuel(bets[k], w) \in [Members -> Nat]
  BY AlgorithmsAssumption DEF TypeOK
<1>2. \A m \in Members : payout[k][m] = 0
  BY DEF Unpaid, NoPoints
<1>3. payout'[k] = [m \in Members |-> payout[k][m] + Owed(k, w)[m]]
  BY DEF PayOut, TypeOK
<1>4. \A m \in Members : payout[k][m] + Owed(k, w)[m] = SettleParimutuel(bets[k], w)[m]
  BY <1>1, <1>2 DEF Owed
<1>. QED BY <1>1, <1>3, <1>4

\* A step that leaves a market alone, or moves it between two states in which
\* nothing is paid, keeps the invariant for it.
LEMMA NothingPaid ==
    ASSUME NEW k \in Markets, PaidByTheBook(k),
           payout'[k] = payout[k], refund'[k] = refund[k],
           \/ status'[k] = status[k] /\ winner'[k] = winner[k] /\ bets'[k] = bets[k]
           \/ {status[k], status'[k]} \cap {"SETTLED", "CANCELLED"} = {}
    PROVE  PaidByTheBook(k)'
BY DEF PaidByTheBook, Unpaid, Stakes

\* A settling step pays the market that is settled and no other.
LEMMA SettlingStep ==
    ASSUME TypeOK, SettlementInv, NEW k \in Markets, NEW w \in Outcomes,
           status[k] \notin {"SETTLED", "CANCELLED"}, PayOut(k, w),
           status' = [status EXCEPT ![k] = "SETTLED"],
           winner' = [winner EXCEPT ![k] = w], UNCHANGED <<refund, bets, late>>
    PROVE  SettlementInv'
<1> SUFFICES ASSUME NEW j \in Markets \ late
             PROVE  PaidByTheBook(j)'
  BY DEF SettlementInv
<1>1. PaidByTheBook(j)
  BY DEF SettlementInv
<1>2. CASE j = k
  <2>1. Unpaid(k)
    BY <1>1, <1>2 DEF PaidByTheBook
  <2>2. payout'[k] = SettleParimutuel(bets[k], w)
    BY <2>1, PayOutOfUnpaid
  <2>3. status'[k] = "SETTLED" /\ winner'[k] = w
    BY DEF TypeOK
  <2>. QED BY <1>2, <2>1, <2>2, <2>3 DEF PaidByTheBook, Unpaid
<1>3. CASE j # k
  <2>1. payout'[j] = payout[j] /\ status'[j] = status[j] /\ winner'[j] = winner[j]
    BY <1>3 DEF PayOut, TypeOK
  <2>. QED BY <1>1, <2>1, NothingPaid
<1>. QED BY <1>2, <1>3

\* Cancelling gives an unpaid market's members their stakes.
LEMMA CancellingStep ==
    ASSUME TypeOK, SettlementInv, NEW k \in Markets, CancelMarket(k)
    PROVE  SettlementInv'
<1> SUFFICES ASSUME NEW j \in Markets \ late
             PROVE  PaidByTheBook(j)'
  BY DEF SettlementInv, CancelMarket
<1>1. PaidByTheBook(j)
  BY DEF SettlementInv
<1>2. bets' = bets /\ payout' = payout /\ winner' = winner
  BY DEF CancelMarket
<1>3. CASE j = k
  <2>1. Unpaid(k)
    BY <1>1, <1>3 DEF PaidByTheBook, CancelMarket, Cancellable
  <2>2. \A m \in Members : refund[k][m] = 0 /\ Stake(bets[k][m]) \in Nat
    BY <2>1, StakeIsNatural DEF Unpaid, NoPoints, TypeOK
  <2>3. refund'[k] = Stakes(k)
    BY <2>2 DEF CancelMarket, Stakes, TypeOK
  <2>4. status'[k] = "CANCELLED"
    BY DEF CancelMarket, TypeOK
  <2>. QED BY <1>2, <1>3, <2>1, <2>3, <2>4 DEF PaidByTheBook, Unpaid, Stakes
<1>4. CASE j # k
  <2>1. refund'[j] = refund[j] /\ status'[j] = status[j]
    BY <1>4 DEF CancelMarket, TypeOK
  <2>. QED BY <1>1, <1>2, <2>1, NothingPaid
<1>. QED BY <1>3, <1>4

\* Every step keeps each market that was not approved late paid by the book.
LEMMA SettlementStep ==
    ASSUME TypeOK, SettlementInv, [Next]_vars
    PROVE  SettlementInv'
<1> USE DEF ledgerVars, marketVars
<1> DEFINE Same(j) == /\ payout'[j] = payout[j] /\ refund'[j] = refund[j]
                      /\ \/ /\ status'[j] = status[j] /\ winner'[j] = winner[j]
                            /\ bets'[j] = bets[j]
                         \/ {status[j], status'[j]} \cap {"SETTLED", "CANCELLED"} = {}
<1>1. ASSUME late \subseteq late', \A j \in Markets \ late' : Same(j)
      PROVE  SettlementInv'
  BY <1>1, NothingPaid DEF SettlementInv
<1>2. CASE Register \/ Reject \/ Advance \/ UNCHANGED vars
  BY <1>1, <1>2 DEF Register, Reject, Advance, CreateMember, RejectDecision, vars
<1>3. ASSUME NEW k \in Markets, NEW closes, NEW resolves, CreateMarket(k, closes, resolves)
      PROVE  SettlementInv'
  BY <1>1, <1>3 DEF CreateMarket, TypeOK, None
<1>4. ASSUME NEW k \in Markets, NEW m \in Members, NEW allocation, PlaceAllocation(k, m, allocation)
      PROVE  SettlementInv'
  BY <1>1, <1>4 DEF PlaceAllocation, Accepting, TypeOK
<1>5. ASSUME NEW k \in Markets, NEW price, CloseMarket(k, price)
      PROVE  SettlementInv'
  BY <1>1, <1>5 DEF CloseMarket, TypeOK
<1>6. ASSUME NEW k \in Markets, NEW price, NEW held, BuildDecision(k, price, held)
      PROVE  SettlementInv'
  BY <1>1, <1>6 DEF BuildDecision, TypeOK
<1>7. ASSUME NEW k \in Markets, ExecuteDecision(k)
      PROVE  SettlementInv'
  <2>1. late \subseteq late' /\ (k \in late' \/ status[k] = "DECIDED")
    BY <1>7 DEF ExecuteDecision
  <2>2. status' = [status EXCEPT ![k] = "EXECUTED"]
    BY <1>7 DEF ExecuteDecision
  <2>3. UNCHANGED <<payout, refund, winner, bets>>
    BY <1>7 DEF ExecuteDecision
  <2>4. \A j \in Markets \ late' : Same(j)
    BY <2>1, <2>2, <2>3 DEF TypeOK
  <2>. QED BY <1>1, <2>1, <2>4
<1>8. ASSUME NEW k \in Markets, NEW price, ResolveMarket(k, price)
      PROVE  SettlementInv'
  BY <1>1, <1>8 DEF ResolveMarket, Judgeable, TypeOK
<1>9. ASSUME NEW k \in Markets, SettleMarket(k)
      PROVE  SettlementInv'
  <2>1. winner[k] \in Outcomes /\ winner' = [winner EXCEPT ![k] = winner[k]]
    BY <1>9 DEF SettleMarket, TypeOK
  <2>. QED BY <1>9, <2>1, SettlingStep DEF SettleMarket
<1>10. ASSUME NEW k \in Markets, CancelMarket(k)
       PROVE  SettlementInv'
  BY <1>10, CancellingStep
<1>11. ASSUME NEW k \in Markets, NEW price, NEW later, NEW held, TickClose(k, price, later, held)
       PROVE  SettlementInv'
  BY <1>1, <1>11 DEF TickClose, TypeOK
<1>12. ASSUME NEW k \in Markets, NEW price \in Prices, TickResolve(k, price)
       PROVE  SettlementInv'
  <2>1. ResolveOutcome(reference[k], price) \in Outcomes
    BY <1>12, AlgorithmsAssumption DEF TickResolve, Judgeable, TypeOK
  <2>2. status[k] \notin {"SETTLED", "CANCELLED"}
    BY <1>12 DEF TickResolve, Judgeable
  <2>. QED BY <1>12, <2>1, <2>2, SettlingStep DEF TickResolve
<1>. QED
  BY <1>2, <1>3, <1>4, <1>5, <1>6, <1>7, <1>8, <1>9, <1>10, <1>11, <1>12
  DEF Next, Open, Bet, Close, Decide, Approve, Resolve, Settle, Cancel, Tick

\* What is paid by the book is paid once: a settlement adds up to the pool less
\* the rake, a cancellation to what was locked.
LEMMA PaidOnce ==
    ASSUME TypeOK, EscrowMatchesBets, SettlementInv
    PROVE  SettledOnce
<1> SUFFICES ASSUME NEW k \in Markets \ late
             PROVE  /\ status[k] = "SETTLED" =>
                           Disbursed(k) = PoolOf(bets[k]) - RakeOf(bets[k], winner[k])
                    /\ status[k] = "CANCELLED" =>
                           \A m \in Members : refund[k][m] = locked[k][m] /\ payout[k][m] = 0
                    /\ status[k] \notin {"SETTLED", "CANCELLED"} =>
                           \A m \in Members : refund[k][m] = 0 /\ payout[k][m] = 0
  BY DEF SettledOnce
<1>1. PaidByTheBook(k)
  BY DEF SettlementInv
<1>2. ASSUME status[k] = "SETTLED"
      PROVE  Disbursed(k) = PoolOf(bets[k]) - RakeOf(bets[k], winner[k])
  <2>1. winner[k] \in Outcomes /\ payout[k] = SettleParimutuel(bets[k], winner[k])
    BY <1>1, <1>2 DEF PaidByTheBook
  <2>2. payout[k] \in [Members -> Nat]
    BY DEF TypeOK
  <2>3. \A m \in Members : payout[k][m] + refund[k][m] = payout[k][m]
    BY <1>1, <1>2, <2>2 DEF PaidByTheBook, NoPoints
  <2>4. [m \in Members |-> payout[k][m] + refund[k][m]] = payout[k]
    BY <2>2, <2>3
  <2>5. SumFunction(payout[k]) = PoolOf(bets[k]) - RakeOf(bets[k], winner[k])
    BY <2>1, AlgorithmsAssumption DEF TypeOK
  <2>. QED BY <2>4, <2>5 DEF Disbursed
<1>3. ASSUME status[k] = "CANCELLED", NEW m \in Members
      PROVE  refund[k][m] = locked[k][m] /\ payout[k][m] = 0
  BY <1>1, <1>3 DEF PaidByTheBook, NoPoints, Stakes, EscrowMatchesBets
<1>4. ASSUME status[k] \notin {"SETTLED", "CANCELLED"}, NEW m \in Members
      PROVE  refund[k][m] = 0 /\ payout[k][m] = 0
  BY <1>1, <1>4 DEF PaidByTheBook, Unpaid, NoPoints
<1>. QED BY <1>2, <1>3, <1>4

\* Unless its decision is approved after it left DECIDED, a market hands out
\* its pool exactly once, as winnings or as refunds.
THEOREM SettledOnceTheorem == ASSUME Scale = 1 PROVE Spec => []SettledOnce
<1>1. Init => SettlementInv
  BY DEF Init, SettlementInv, PaidByTheBook, Unpaid, None
<1>2. TypeOK /\ SettlementInv /\ [Next]_vars => SettlementInv'
  BY SettlementStep
<1>3. TypeOK /\ EscrowMatchesBets /\ SettlementInv => SettledOnce
  BY PaidOnce
<1>. QED BY <1>1, <1>2, <1>3, TypeCorrect, EscrowTheorem, PTL DEF Spec

-----------------------------------------------------------------------------
(* Conservation                                                              *)

\* A pool is a whole number of points.
LEMMA PoolIsNatural ==
    ASSUME NEW book \in Books
    PROVE  PoolOf(book) \in Nat
<1> DEFINE stakes == [m \in Members |-> Stake(book[m])]
<1>1. \A m \in Members : stakes[m] \in Nat
  BY StakeIsNatural
<1>2. SumFunctionOnSet(stakes, Members) \in Nat
  BY <1>1, SumOfNaturals, SettingsAssumption
<1>. QED BY <1>2 DEF PoolOf, SumFunction

\* A pool moves by as much as the stake of the one member who bets.
LEMMA PoolMoves ==
    ASSUME NEW old \in Books, NEW new \in Books, NEW m \in Members,
           \A n \in Members \ {m} : new[n] = old[n]
    PROVE  PoolOf(new) = PoolOf(old) + Stake(new[m]) - Stake(old[m])
<1> DEFINE before == [n \in Members |-> Stake(old[n])]
           after  == [n \in Members |-> Stake(new[n])]
<1>1. before \in [Members -> Int] /\ after \in [Members -> Int]
  BY StakeIsNatural
<1>2. \A n \in Members \ {m} : after[n] = before[n]
  OBVIOUS
<1>3. after[m] = Stake(new[m]) /\ before[m] = Stake(old[m])
  OBVIOUS
<1> HIDE DEF before, after
<1>4. SumFunction(after) = SumFunction(before) + after[m] - before[m]
  BY <1>1, <1>2, SumChanged, SettingsAssumption
<1>. QED BY <1>3, <1>4 DEF PoolOf, before, after

\* While no decision was approved late, what a market holds is a whole amount.
LEMMA OutstandingIsInteger ==
    ASSUME TypeOK, SettlementInv, late = {}
    PROVE  [k \in Markets |-> Outstanding(k)] \in [Markets -> Int]
<1>1. ASSUME NEW k \in Markets
      PROVE  Outstanding(k) \in Int
  <2>1. bets[k] \in Books /\ PaidByTheBook(k)
    BY <1>1 DEF TypeOK, SettlementInv
  <2>2. PoolOf(bets[k]) \in Nat
    BY <2>1, PoolIsNatural
  <2>3. status[k] = "SETTLED" => RakeOf(bets[k], winner[k]) \in Nat
    BY <2>1, AlgorithmsAssumption DEF PaidByTheBook
  <2>. QED BY <2>2, <2>3 DEF Outstanding
<1>. QED BY <1>1

\* What leaves one market arrives in the balances, and no other market moves.
LEMMA Transfer ==
    ASSUME TypeOK, TypeOK', SettlementInv, SettlementInv', late = {}, late' = {},
           PointsConserved, joined' = joined, NEW k \in Markets,
           \A j \in Markets \ {k} : Outstanding(j)' = Outstanding(j),
           SumFunction(balance') + Outstanding(k)' = SumFunction(balance) + Outstanding(k)
    PROVE  PointsConserved'
<1> DEFINE held  == [j \in Markets |-> Outstanding(j)]
           holds == [j \in Markets |-> Outstanding(j)']
<1>1. held \in [Markets -> Int]
  BY OutstandingIsInteger
<1>2. holds \in [Markets -> Int]
  <2>1. \A j \in Markets : Outstanding(j) \in Int
    <3> HIDE DEF held
    <3>. QED BY OutstandingIsInteger
  <2>2. bets'[k] \in Books /\ PaidByTheBook(k)'
    BY DEF TypeOK, SettlementInv
  <2>3. PoolOf(bets'[k]) \in Nat
    BY <2>2, PoolIsNatural
  <2>4. status'[k] = "SETTLED" => RakeOf(bets'[k], winner'[k]) \in Nat
    BY <2>2, AlgorithmsAssumption DEF PaidByTheBook
  <2>5. Outstanding(k)' \in Int
    BY <2>3, <2>4 DEF Outstanding
  <2>. QED BY <2>1, <2>5
<1>3. \A j \in Markets \ {k} : holds[j] = held[j]
  OBVIOUS
<1>4. holds[k] = Outstanding(k)' /\ held[k] = Outstanding(k)
  OBVIOUS
<1>5. SumFunction(balance) + SumFunction(held) = InitialPoints * Cardinality(joined)
  BY DEF PointsConserved
<1>6. SumFunction(balance) \in Int /\ SumFunction(balance') \in Int
  BY SumFunctionIsInteger, SettingsAssumption DEF TypeOK
<1> HIDE DEF held, holds
<1>7. SumFunction(holds) = SumFunction(held) + holds[k] - held[k]
  BY <1>1, <1>2, <1>3, SumChanged, SettingsAssumption
<1>8. SumFunction(held) \in Int /\ holds[k] \in Int /\ held[k] \in Int
  BY <1>1, <1>2, SumFunctionIsInteger, SettingsAssumption
<1>9. SumFunction(balance') + SumFunction(holds) = InitialPoints * Cardinality(joined)
  <2>1. SumFunction(balance') + holds[k] = SumFunction(balance) + held[k]
    BY <1>4
  <2>. QED BY <1>5, <1>6, <1>7, <1>8, <2>1
<1>. QED BY <1>9 DEF PointsConserved, holds

\* What one member adds to a pool that is still open is what its balance loses.
LEMMA StakingConserves ==
    ASSUME TypeOK, TypeOK', SettlementInv, SettlementInv', late = {}, PointsConserved,
           NEW k \in Markets, NEW m \in Members, status[k] \notin {"SETTLED", "CANCELLED"},
           \A j \in Markets \ {k} : bets'[j] = bets[j],
           \A n \in Members \ {m} : bets'[k][n] = bets[k][n] /\ balance'[n] = balance[n],
           balance'[m] = balance[m] + Stake(bets[k][m]) - Stake(bets'[k][m]),
           UNCHANGED <<late, joined, status, winner>>
    PROVE  PointsConserved'
<1>1. bets[k] \in Books /\ bets'[k] \in Books
  BY DEF TypeOK
<1>2. balance \in [Members -> Int] /\ balance' \in [Members -> Int]
  BY DEF TypeOK
<1>3. SumFunction(balance') = SumFunction(balance) + balance'[m] - balance[m]
  BY <1>2, SumChanged, SettingsAssumption
<1>4. PoolOf(bets'[k]) = PoolOf(bets[k]) + Stake(bets'[k][m]) - Stake(bets[k][m])
  BY <1>1, PoolMoves
<1>5. Outstanding(k) = PoolOf(bets[k]) /\ Outstanding(k)' = PoolOf(bets'[k])
  BY DEF Outstanding
<1>6. \A j \in Markets \ {k} : Outstanding(j)' = Outstanding(j)
  BY DEF Outstanding
<1>7. SumFunction(balance') + Outstanding(k)' = SumFunction(balance) + Outstanding(k)
  <2>1. SumFunction(balance) \in Int /\ PoolOf(bets[k]) \in Int
    BY <1>1, <1>2, SumFunctionIsInteger, PoolIsNatural, SettingsAssumption
  <2>2. Stake(bets[k][m]) \in Int /\ Stake(bets'[k][m]) \in Int /\ balance[m] \in Int
    BY <1>1, <1>2, StakeIsNatural
  <2>. QED BY <1>3, <1>4, <1>5, <2>1, <2>2
<1>. QED BY <1>6, <1>7, Transfer

\* A bet moves as much into the pool as out of the balance.
LEMMA BetConserves ==
    ASSUME Scale = 1, TypeOK, TypeOK', EscrowMatchesBets, EscrowMatchesBets',
           SettlementInv, SettlementInv', late = {}, PointsConserved,
           NEW k \in Markets, NEW m \in Members, NEW allocation \in [Outcomes -> Entries],
           PlaceAllocation(k, m, allocation)
    PROVE  PointsConserved'
<1>1. UNCHANGED <<late, joined, status, winner>> /\ status[k] = "OPEN"
  BY DEF PlaceAllocation, Accepting, marketVars
<1>2. \A j \in Markets \ {k} : bets'[j] = bets[j]
  BY DEF PlaceAllocation, TypeOK
<1>3. \A n \in Members \ {m} : bets'[k][n] = bets[k][n] /\ balance'[n] = balance[n]
  BY DEF PlaceAllocation, TypeOK, Books
<1>4. balance'[m] = balance[m] + Stake(bets[k][m]) - Stake(bets'[k][m])
  <2>1. balance'[m] = balance[m] + locked[k][m] - Relocked(k, m, Stake(allocation))
    BY DEF PlaceAllocation, TypeOK
  <2>2. locked'[k][m] = Relocked(k, m, Stake(allocation))
    BY DEF PlaceAllocation, TypeOK
  <2>. QED BY <2>1, <2>2 DEF EscrowMatchesBets
<1>. QED BY <1>1, <1>2, <1>3, <1>4, StakingConserves

\* Paying every member its due out of a pool takes it out of the market.
LEMMA HandingOutConserves ==
    ASSUME TypeOK, TypeOK', SettlementInv, SettlementInv', late = {}, late' = {},
           PointsConserved, joined' = joined, bets' = bets, NEW k \in Markets,
           NEW due \in [Members -> Int],
           balance' = [m \in Members |-> balance[m] + due[m]],
           \A j \in Markets \ {k} : status'[j] = status[j] /\ winner'[j] = winner[j],
           Outstanding(k)' = Outstanding(k) - SumFunction(due)
    PROVE  PointsConserved'
<1>1. balance \in [Members -> Int] /\ balance' \in [Members -> Int]
  BY DEF TypeOK
<1>2. SumFunction(balance') = SumFunction(balance) + SumFunction(due)
  BY <1>1, SumAdded, SettingsAssumption
<1>3. \A j \in Markets \ {k} : Outstanding(j)' = Outstanding(j)
  BY DEF Outstanding
<1>4. SumFunction(balance) \in Int /\ SumFunction(due) \in Int /\ Outstanding(k) \in Int
  BY <1>1, SumFunctionIsInteger, OutstandingIsInteger, SettingsAssumption
<1>5. SumFunction(balance') + Outstanding(k)' = SumFunction(balance) + Outstanding(k)
  BY <1>2, <1>4
<1>. QED BY <1>3, <1>5, Transfer

\* A settlement hands out the pool and leaves the rake.
LEMMA SettlingConserves ==
    ASSUME TypeOK, TypeOK', SettlementInv, SettlementInv', late = {}, PointsConserved,
           NEW k \in Markets, NEW w \in Outcomes, PayOut(k, w),
           status[k] \notin {"SETTLED", "CANCELLED"},
           status' = [status EXCEPT ![k] = "SETTLED"], winner' = [winner EXCEPT ![k] = w],
           UNCHANGED <<joined, bets, late>>
    PROVE  PointsConserved'
<1> DEFINE due == SettleParimutuel(bets[k], w)
<1>1. bets[k] \in Books /\ due \in [Members -> Int]
  BY AlgorithmsAssumption DEF TypeOK
<1>2. SumFunction(due) = PoolOf(bets[k]) - RakeOf(bets[k], w) /\ RakeOf(bets[k], w) \in Int
  BY <1>1, AlgorithmsAssumption
<1>3. \A m \in Members : payout[k][m] = 0
  BY DEF SettlementInv, PaidByTheBook, Unpaid, NoPoints
<1>4. balance' = [m \in Members |-> balance[m] + due[m]]
  BY <1>3 DEF PayOut, Owed
<1> HIDE DEF due
<1>5. status'[k] = "SETTLED" /\ winner'[k] = w
  BY DEF TypeOK
<1>6. \A j \in Markets \ {k} : status'[j] = status[j] /\ winner'[j] = winner[j]
  BY DEF TypeOK
<1>7. Outstanding(k) = PoolOf(bets[k]) /\ Outstanding(k)' = RakeOf(bets[k], w)
  BY <1>5 DEF Outstanding
<1>8. Outstanding(k)' = Outstanding(k) - SumFunction(due)
  BY <1>1, <1>2, <1>7, PoolIsNatural
<1>. QED BY <1>1, <1>4, <1>6, <1>8, HandingOutConserves

\* A cancellation hands out the pool.
LEMMA CancellingConserves ==
    ASSUME TypeOK, TypeOK', SettlementInv, SettlementInv', late = {}, PointsConserved,
           NEW k \in Markets, CancelMarket(k)
    PROVE  PointsConserved'
<1> USE DEF CancelMarket
<1> DEFINE due == Stakes(k)
<1>1. bets[k] \in Books /\ due \in [Members -> Int]
  BY StakeIsNatural DEF TypeOK, Stakes
<1>2. SumFunction(due) = PoolOf(bets[k])
  BY DEF PoolOf, Stakes
<1>3. \A m \in Members : refund[k][m] = 0
  BY DEF SettlementInv, PaidByTheBook, Unpaid, NoPoints, Cancellable
<1>4. balance' = [m \in Members |-> balance[m] + due[m]]
  BY <1>3 DEF Stakes
<1> HIDE DEF due
<1>5. status'[k] = "CANCELLED" /\ UNCHANGED <<joined, bets, late, winner>>
  BY DEF TypeOK
<1>6. \A j \in Markets \ {k} : status'[j] = status[j]
  BY DEF TypeOK
<1>7. Outstanding(k) = PoolOf(bets[k]) /\ Outstanding(k)' = 0
  BY <1>5 DEF Outstanding, Cancellable
<1>8. Outstanding(k)' = Outstanding(k) - SumFunction(due)
  BY <1>1, <1>2, <1>7, PoolIsNatural
<1>. QED BY <1>1, <1>4, <1>5, <1>6, <1>8, HandingOutConserves

\* A grant comes with a member.
LEMMA GrantConserves ==
    ASSUME TypeOK, TypeOK', late = {}, PointsConserved, SettlementInv,
           NEW m \in Members, CreateMember(m)
    PROVE  PointsConserved'
<1> USE DEF marketVars
<1>1. UNCHANGED <<bets, status, winner, late>> /\ joined' = joined \cup {m} /\ m \notin joined
  BY DEF CreateMember
<1>2. balance \in [Members -> Int] /\ balance' \in [Members -> Int]
  BY DEF TypeOK
<1>3. balance'[m] = balance[m] + InitialPoints /\ \A n \in Members \ {m} : balance'[n] = balance[n]
  BY DEF CreateMember, TypeOK
<1>4. SumFunction(balance') = SumFunction(balance) + balance'[m] - balance[m]
  BY <1>2, <1>3, SumChanged, SettingsAssumption
<1>5. IsFiniteSet(joined)
  BY SettingsAssumption, FS_Subset DEF TypeOK
<1>6. Cardinality(joined') = Cardinality(joined) + 1 /\ Cardinality(joined) \in Nat
  BY <1>1, <1>5, FS_AddElement, FS_CardinalityType
<1>7. InitialPoints * Cardinality(joined') = InitialPoints * Cardinality(joined) + InitialPoints
  BY <1>6, SettingsAssumption
<1> DEFINE held == [k \in Markets |-> Outstanding(k)]
<1>8. held' = held
  BY <1>1 DEF Outstanding
<1>9. SumFunction(held) \in Int
  BY OutstandingIsInteger, SumFunctionIsInteger, SettingsAssumption
<1>10. SumFunction(balance) + SumFunction(held) = InitialPoints * Cardinality(joined)
  BY DEF PointsConserved
<1>11. SumFunction(balance) \in Int /\ balance[m] \in Int /\ InitialPoints * Cardinality(joined) \in Int
  BY <1>2, <1>6, SumFunctionIsInteger, SettingsAssumption
<1> HIDE DEF held
<1>12. SumFunction(balance') + SumFunction(held') = InitialPoints * Cardinality(joined')
  BY <1>3, <1>4, <1>7, <1>8, <1>9, <1>10, <1>11, SettingsAssumption
<1>. QED BY <1>12 DEF PointsConserved, held

\* A step that moves neither points nor stakes, and makes no market final.
LEMMA NothingMoves ==
    ASSUME PointsConserved, late \subseteq late',
           UNCHANGED <<balance, bets, joined>>,
           late' = {} =>
               \A k \in Markets :
                   \/ status'[k] = status[k] /\ winner'[k] = winner[k]
                   \/ {status[k], status'[k]} \cap {"SETTLED", "CANCELLED"} = {}
    PROVE  PointsConserved'
<1> SUFFICES ASSUME late' = {}
             PROVE  PointsConserved'
  BY DEF PointsConserved
<1>1. \A k \in Markets : Outstanding(k)' = Outstanding(k)
  BY DEF Outstanding
<1>2. [k \in Markets |-> Outstanding(k)]' = [k \in Markets |-> Outstanding(k)]
  BY <1>1
<1>3. late = {}
  OBVIOUS
<1>. QED BY <1>2, <1>3 DEF PointsConserved

\* Every step conserves the points.
LEMMA ConservedStep ==
    ASSUME Scale = 1, TypeOK, TypeOK', EscrowMatchesBets, EscrowMatchesBets',
           SettlementInv, SettlementInv', PointsConserved, [Next]_vars
    PROVE  PointsConserved'
<1> USE DEF ledgerVars, marketVars
<1>1. CASE Reject \/ Advance \/ UNCHANGED vars
  BY <1>1, NothingMoves DEF Reject, Advance, RejectDecision, vars
<1>2. ASSUME NEW k \in Markets, NEW closes, NEW resolves, CreateMarket(k, closes, resolves)
      PROVE  PointsConserved'
  BY <1>2, NothingMoves DEF CreateMarket, TypeOK, None
<1>3. ASSUME NEW k \in Markets, NEW price, CloseMarket(k, price)
      PROVE  PointsConserved'
  BY <1>3, NothingMoves DEF CloseMarket, TypeOK
<1>4. ASSUME NEW k \in Markets, NEW price, NEW held, BuildDecision(k, price, held)
      PROVE  PointsConserved'
  BY <1>4, NothingMoves DEF BuildDecision, TypeOK
<1>5. ASSUME NEW k \in Markets, NEW price, ResolveMarket(k, price)
      PROVE  PointsConserved'
  BY <1>5, NothingMoves DEF ResolveMarket, Judgeable, TypeOK
<1>6. ASSUME NEW k \in Markets, NEW price, NEW later, NEW held, TickClose(k, price, later, held)
      PROVE  PointsConserved'
  BY <1>6, NothingMoves DEF TickClose, TypeOK
<1>7. ASSUME NEW k \in Markets, ExecuteDecision(k)
      PROVE  PointsConserved'
  <2>1. late \subseteq late' /\ (late' = {} => status[k] = "DECIDED")
    BY <1>7 DEF ExecuteDecision
  <2>2. status' = [status EXCEPT ![k] = "EXECUTED"] /\ UNCHANGED <<balance, bets, joined, winner>>
    BY <1>7 DEF ExecuteDecision
  <2>. QED BY <2>1, <2>2, NothingMoves DEF TypeOK
<1>8. ASSUME NEW m \in Members, CreateMember(m)
      PROVE  PointsConserved'
  <2>1. late # {} => PointsConserved'
    BY <1>8 DEF CreateMember, PointsConserved
  <2>. QED BY <1>8, <2>1, GrantConserves
<1>9. ASSUME NEW k \in Markets, NEW m \in Members, NEW allocation \in [Outcomes -> Entries],
             PlaceAllocation(k, m, allocation)
      PROVE  PointsConserved'
  <2>1. late # {} => PointsConserved'
    BY <1>9 DEF PlaceAllocation, PointsConserved
  <2>. QED BY <1>9, <2>1, BetConserves
<1>10. ASSUME NEW k \in Markets, SettleMarket(k)
       PROVE  PointsConserved'
  <2>1. late # {} => PointsConserved'
    BY <1>10 DEF SettleMarket, PointsConserved
  <2>2. winner[k] \in Outcomes /\ winner' = [winner EXCEPT ![k] = winner[k]]
    BY <1>10 DEF SettleMarket, TypeOK
  <2>. QED BY <1>10, <2>1, <2>2, SettlingConserves DEF SettleMarket
<1>11. ASSUME NEW k \in Markets, CancelMarket(k)
       PROVE  PointsConserved'
  <2>1. late # {} => PointsConserved'
    BY <1>11 DEF CancelMarket, PointsConserved
  <2>. QED BY <1>11, <2>1, CancellingConserves
<1>12. ASSUME NEW k \in Markets, NEW price \in Prices, TickResolve(k, price)
       PROVE  PointsConserved'
  <2>1. late # {} => PointsConserved'
    BY <1>12 DEF TickResolve, PointsConserved
  <2>2. ResolveOutcome(reference[k], price) \in Outcomes
    BY <1>12, AlgorithmsAssumption DEF TickResolve, Judgeable, TypeOK
  <2>3. status[k] \notin {"SETTLED", "CANCELLED"}
    BY <1>12 DEF TickResolve, Judgeable
  <2>. QED BY <1>12, <2>1, <2>2, <2>3, SettlingConserves DEF TickResolve
<1>. QED
  BY <1>1, <1>2, <1>3, <1>4, <1>5, <1>6, <1>7, <1>8, <1>9, <1>10, <1>11, <1>12
  DEF Next, Register, Open, Bet, Close, Decide, Approve, Resolve, Settle, Cancel, Tick

\* At the start there are no points anywhere.
LEMMA NothingToConserve == Init => PointsConserved
<1> SUFFICES ASSUME Init
             PROVE  PointsConserved
  OBVIOUS
<1>1. SumFunction(balance) = 0
  <2>1. \A m \in Members : balance[m] = 0
    BY DEF Init, NoPoints
  <2>2. SumFunctionOnSet(balance, Members) = 0 * Cardinality(Members)
    BY <2>1, SumOfEqual, SettingsAssumption
  <2>3. DOMAIN balance = Members /\ Cardinality(Members) \in Nat
    BY FS_CardinalityType, SettingsAssumption DEF Init, NoPoints
  <2>. QED BY <2>2, <2>3 DEF SumFunction
<1>2. \A k \in Markets : Outstanding(k) = 0
  <2> SUFFICES ASSUME NEW k \in Markets
               PROVE  PoolOf(bets[k]) = 0
    BY DEF Init, Outstanding, None
  <2> DEFINE stakes == [m \in Members |-> Stake(bets[k][m])]
  <2>1. \A m \in Members : stakes[m] = 0
    BY DEF Init, NoStakes, Stake, Outcomes
  <2>2. SumFunctionOnSet(stakes, Members) = 0 * Cardinality(Members)
    BY <2>1, SumOfEqual, SettingsAssumption
  <2>3. DOMAIN stakes = Members /\ Cardinality(Members) \in Nat
    BY FS_CardinalityType, SettingsAssumption
  <2>. QED BY <2>2, <2>3 DEF PoolOf, SumFunction
<1>3. SumFunction([k \in Markets |-> Outstanding(k)]) = 0
  <2> DEFINE held == [k \in Markets |-> Outstanding(k)]
  <2>1. \A k \in Markets : held[k] = 0
    BY <1>2
  <2>2. SumFunctionOnSet(held, Markets) = 0 * Cardinality(Markets)
    BY <2>1, SumOfEqual, SettingsAssumption
  <2>3. DOMAIN held = Markets /\ Cardinality(Markets) \in Nat
    BY FS_CardinalityType, SettingsAssumption
  <2>. QED BY <2>2, <2>3 DEF SumFunction
<1>4. InitialPoints * Cardinality(joined) = 0
  BY FS_EmptySet, SettingsAssumption DEF Init
<1>. QED BY <1>1, <1>3, <1>4 DEF PointsConserved

\* With no late approval, the balances, the pools still open and the rakes are
\* together the grants made: no sequence of bets, settlements and cancellations
\* makes or loses a point.
THEOREM ConservationTheorem == ASSUME Scale = 1 PROVE Spec => []PointsConserved
<1>1. Init => SettlementInv
  BY DEF Init, SettlementInv, PaidByTheBook, Unpaid, None
<1>2. TypeOK /\ SettlementInv /\ [Next]_vars => SettlementInv'
  BY SettlementStep
<1>3. Init => PointsConserved
  BY NothingToConserve
<1>4. /\ TypeOK /\ EscrowMatchesBets /\ SettlementInv
      /\ TypeOK' /\ EscrowMatchesBets' /\ SettlementInv'
      /\ PointsConserved /\ [Next]_vars
      => PointsConserved'
  BY ConservedStep
<1>. QED BY <1>1, <1>2, <1>3, <1>4, TypeCorrect, EscrowTheorem, PTL DEF Spec

-----------------------------------------------------------------------------
(* Decisions                                                                 *)

\* While stakes can still move there is no decision that could rest on them.
NoDecisionWhileOpen ==
    \A k \in Markets : status[k] \in {None, "OPEN"} => decision[k].status = None

\* A decision that build_decision leaves for approval rests on the book.
LEMMA NewDecisionRests ==
    ASSUME NEW book \in Books, NEW price, NEW held,
           DecisionFor(ComputeConsensus(book), price, held).status # "SKIPPED"
    PROVE  LET consensus == ComputeConsensus(book)
               d         == DecisionFor(consensus, price, held)
           IN  /\ d.action = consensus.leader /\ d.action \in {"BUY", "SELL"}
               /\ d.total = consensus.total
               /\ Qualified(consensus, d.electorate)
<1> DEFINE consensus == ComputeConsensus(book)
<1>1. consensus.leader \in Outcomes \cup {None}
  BY AlgorithmsAssumption
<1> HIDE DEF consensus
<1>2. DecisionFor(consensus, price, held).status # "SKIPPED" =>
          /\ DecisionFor(consensus, price, held).action = consensus.leader
          /\ DecisionFor(consensus, price, held).action \in {"BUY", "SELL"}
          /\ DecisionFor(consensus, price, held).total = consensus.total
          /\ Qualified(consensus, DecisionFor(consensus, price, held).electorate)
  BY <1>1 DEF DecisionFor, Placeable, Outcomes
<1>. QED BY <1>2 DEF consensus

\* Writing a decision for a market whose book stays as it is keeps the rest.
LEMMA DecidingStep ==
    ASSUME TypeOK, DecisionsRestOnTheBook, NoDecisionWhileOpen,
           NEW k \in Markets, NEW price, NEW held, UNCHANGED bets,
           decision' = [decision EXCEPT ![k] = DecisionFor(ComputeConsensus(bets[k]), price, held)],
           status' = [status EXCEPT ![k] = "DECIDED"]
    PROVE  DecisionsRestOnTheBook' /\ NoDecisionWhileOpen'
<1>1. decision'[k] = DecisionFor(ComputeConsensus(bets[k]), price, held)
  BY DEF TypeOK
<1>2. \A j \in Markets \ {k} : decision'[j] = decision[j] /\ status'[j] = status[j]
  BY DEF TypeOK
<1>3. status'[k] = "DECIDED"
  BY DEF TypeOK
<1>4. bets[k] \in Books
  BY DEF TypeOK
<1>5. NoDecisionWhileOpen'
  BY <1>2, <1>3 DEF NoDecisionWhileOpen, None
<1>6. DecisionsRestOnTheBook'
  BY <1>1, <1>2, <1>4, NewDecisionRests DEF DecisionsRestOnTheBook
<1>. QED BY <1>5, <1>6

\* Every step keeps the decisions on the book they were made from.
LEMMA DecisionStep ==
    ASSUME TypeOK, DecisionsRestOnTheBook, NoDecisionWhileOpen, [Next]_vars
    PROVE  DecisionsRestOnTheBook' /\ NoDecisionWhileOpen'
<1> USE DEF ledgerVars, marketVars
<1>1. ASSUME UNCHANGED <<bets, decision>>,
             \A j \in Markets : status'[j] \in {None, "OPEN"} =>
                 status[j] \in {None, "OPEN"}
      PROVE  DecisionsRestOnTheBook' /\ NoDecisionWhileOpen'
  BY <1>1 DEF DecisionsRestOnTheBook, NoDecisionWhileOpen
<1>2. CASE Register \/ Advance \/ UNCHANGED vars
  BY <1>1, <1>2 DEF Register, Advance, CreateMember, vars
<1>3. CASE Open \/ Close \/ Resolve
  BY <1>1, <1>3 DEF Open, Close, Resolve, CreateMarket, CloseMarket, ResolveMarket, TypeOK, None
<1>4. CASE Settle \/ Cancel
  BY <1>1, <1>4 DEF Settle, Cancel, SettleMarket, CancelMarket, TypeOK, None
<1>5. ASSUME NEW k \in Markets, NEW m \in Members, NEW allocation, PlaceAllocation(k, m, allocation)
      PROVE  DecisionsRestOnTheBook' /\ NoDecisionWhileOpen'
  <2>1. decision[k].status = None
    BY <1>5 DEF PlaceAllocation, Accepting, NoDecisionWhileOpen
  <2>2. \A j \in Markets \ {k} : bets'[j] = bets[j]
    BY <1>5 DEF PlaceAllocation, TypeOK
  <2>3. decision' = decision /\ status' = status
    BY <1>5 DEF PlaceAllocation
  <2>. QED BY <2>1, <2>2, <2>3 DEF DecisionsRestOnTheBook, NoDecisionWhileOpen, None
<1>6. ASSUME NEW k \in Markets, NEW price, NEW held, BuildDecision(k, price, held)
      PROVE  DecisionsRestOnTheBook' /\ NoDecisionWhileOpen'
  BY <1>6, DecidingStep DEF BuildDecision
<1>7. ASSUME NEW k \in Markets, NEW price, NEW later, NEW held, TickClose(k, price, later, held)
      PROVE  DecisionsRestOnTheBook' /\ NoDecisionWhileOpen'
  BY <1>7, DecidingStep DEF TickClose
<1>8. ASSUME NEW k \in Markets, NEW s \in {"REJECTED", "EXECUTED"},
             decision[k].status = "PENDING_APPROVAL", UNCHANGED bets,
             decision' = [decision EXCEPT ![k] = [@ EXCEPT !.status = s]],
             status' = status \/ status' = [status EXCEPT ![k] = "EXECUTED"]
      PROVE  DecisionsRestOnTheBook' /\ NoDecisionWhileOpen'
  <2>1. decision'[k] = [decision[k] EXCEPT !.status = s] /\ decision[k] \in Decisions
    BY <1>8 DEF TypeOK
  <2>2. /\ decision'[k].action = decision[k].action
        /\ decision'[k].total = decision[k].total
        /\ decision'[k].electorate = decision[k].electorate
    BY <2>1 DEF Decisions
  <2>3. \A j \in Markets \ {k} : decision'[j] = decision[j] /\ status'[j] = status[j]
    BY <1>8 DEF TypeOK
  <2>4. status[k] \notin {None, "OPEN"} /\ status'[k] \notin {None, "OPEN"}
    BY <1>8 DEF NoDecisionWhileOpen, TypeOK, None
  <2>5. NoDecisionWhileOpen'
    BY <2>3, <2>4 DEF NoDecisionWhileOpen
  <2>6. DecisionsRestOnTheBook'
    BY <1>8, <2>2, <2>3 DEF DecisionsRestOnTheBook
  <2>. QED BY <2>5, <2>6
<1>9. CASE Reject \/ Approve
  BY <1>8, <1>9 DEF Reject, Approve, RejectDecision, ExecuteDecision
<1>10. ASSUME NEW k \in Markets, NEW price, TickResolve(k, price)
       PROVE  DecisionsRestOnTheBook' /\ NoDecisionWhileOpen'
  BY <1>1, <1>10 DEF TickResolve, TypeOK, None
<1>. QED BY <1>2, <1>3, <1>4, <1>5, <1>6, <1>7, <1>9, <1>10 DEF Next, Bet, Decide, Tick

\* Whatever order the requests come in, a decision that can be or was approved
\* is the one the stakes in the book call for.
THEOREM DecisionsTheorem == Spec => []DecisionsRestOnTheBook
<1>1. Init => DecisionsRestOnTheBook /\ NoDecisionWhileOpen
  BY DEF Init, DecisionsRestOnTheBook, NoDecisionWhileOpen, NoDecision, None
<1>2. TypeOK /\ DecisionsRestOnTheBook /\ NoDecisionWhileOpen /\ [Next]_vars =>
          DecisionsRestOnTheBook' /\ NoDecisionWhileOpen'
  BY DecisionStep
<1>. QED BY <1>1, <1>2, TypeCorrect, PTL DEF Spec

-----------------------------------------------------------------------------
(* Steps                                                                     *)

\* No action but a bet moves stakes or locks, and no action but closing moves
\* the reference price; both need an open market.
LEMMA FrozenStep ==
    ASSUME TypeOK, [Next]_vars
    PROVE  KeepsClosedBooks
<1> USE DEF ledgerVars, marketVars
<1>1. CASE Register \/ Advance \/ Reject \/ UNCHANGED vars
  BY <1>1 DEF Register, Advance, Reject, CreateMember, RejectDecision, vars, KeepsClosedBooks
<1>2. CASE Open \/ Decide \/ Approve \/ Resolve
  BY <1>2 DEF Open, Decide, Approve, Resolve, CreateMarket, BuildDecision, ExecuteDecision,
     ResolveMarket, KeepsClosedBooks, TypeOK, None
<1>3. CASE Settle \/ Cancel
  BY <1>3 DEF Settle, Cancel, SettleMarket, CancelMarket, KeepsClosedBooks, TypeOK, None
<1>4. ASSUME NEW k \in Markets, NEW m \in Members, NEW allocation, PlaceAllocation(k, m, allocation)
      PROVE  KeepsClosedBooks
  BY <1>4 DEF PlaceAllocation, Accepting, KeepsClosedBooks, TypeOK
<1>5. CASE Close
  BY <1>5 DEF Close, CloseMarket, KeepsClosedBooks, TypeOK, None
<1>6. CASE Tick
  BY <1>6 DEF Tick, TickClose, TickResolve, KeepsClosedBooks, TypeOK, None
<1>. QED BY <1>1, <1>2, <1>3, <1>4, <1>5, <1>6 DEF Next, Bet

\* The stakes and the reference price of a closed market never change again.
THEOREM FrozenTheorem == Spec => ClosedBooksAreFrozen
<1>1. TypeOK /\ [Next]_vars => [KeepsClosedBooks]_vars
  BY FrozenStep
<1>. QED BY <1>1, TypeCorrect, PTL DEF Spec, ClosedBooksAreFrozen

\* Of the actions that change a status, a winner or a payment, only a late
\* approval is possible in a final market.
LEMMA FinalStep ==
    ASSUME TypeOK, [Next]_vars
    PROVE  KeepsFinalMarkets
<1> USE DEF ledgerVars, marketVars
<1>1. CASE Register \/ Advance \/ Reject \/ UNCHANGED vars
  BY <1>1 DEF Register, Advance, Reject, CreateMember, RejectDecision, vars, KeepsFinalMarkets
<1>2. CASE Open \/ Close \/ Decide
  BY <1>2 DEF Open, Close, Decide, CreateMarket, CloseMarket, BuildDecision, KeepsFinalMarkets,
     TypeOK, None
<1>3. CASE Bet
  BY <1>3 DEF Bet, PlaceAllocation, KeepsFinalMarkets
<1>4. CASE Approve
  BY <1>4 DEF Approve, ExecuteDecision, KeepsFinalMarkets, TypeOK
<1>5. CASE Resolve
  BY <1>5 DEF Resolve, ResolveMarket, Judgeable, KeepsFinalMarkets, TypeOK
<1>6. CASE Settle
  BY <1>6 DEF Settle, SettleMarket, PayOut, KeepsFinalMarkets, TypeOK
<1>7. CASE Cancel
  BY <1>7 DEF Cancel, CancelMarket, Cancellable, KeepsFinalMarkets, TypeOK
<1>8. CASE Tick
  BY <1>8 DEF Tick, TickClose, TickResolve, Judgeable, PayOut, KeepsFinalMarkets, TypeOK
<1>. QED BY <1>1, <1>2, <1>3, <1>4, <1>5, <1>6, <1>7, <1>8 DEF Next

\* A final market stays as it is unless its decision is approved late.
THEOREM FinalTheorem == Spec => FinalUnlessApprovedLate
<1>1. TypeOK /\ [Next]_vars => [KeepsFinalMarkets]_vars
  BY FinalStep
<1>. QED BY <1>1, TypeCorrect, PTL DEF Spec, FinalUnlessApprovedLate
=============================================================================
