--------------------------- MODULE MarketLifecycle ---------------------------
(* The life of a market and the points staked on it, one transaction at a    *)
(* time: betting, closing, the trade decision and its approval, judgement,   *)
(* settlement and cancellation, by the administrators' requests              *)
(* (api/v1/markets.py, trading.py) and by the scheduler (scheduler.py).      *)
(*                                                                           *)
(* Every action is one committed transaction. A request that raises commits  *)
(* nothing (db/session.py:27-33) and is no step. Points are cents, the unit  *)
(* of the Numeric(18, 2) columns; an amount in a request is a whole number   *)
(* of 1/Scale cents, because AllocationRequest does not limit its digits.    *)
EXTENDS Domain, FiniteSets, Functions

CONSTANTS
    Members, Markets,
    Entries,                    \* amounts a request may put on one outcome
    Scale,                      \* units of a request's amounts in a cent
    Prices,                     \* prices the broker may quote
    Holdings,                   \* quantities of the ticker the fund may hold
    InitialPoints, MinStake,    \* settings.initial_points, settings.min_stake
    StakeNum, StakeDen,         \* settings.max_stake_ratio
    QuorumNum, QuorumDen,       \* settings.quorum_ratio
    MinProbability,             \* settings.execution_min_probability, in 0.0001
    Notional,                   \* Market.notional_krw
    Horizon,                    \* the clock saturates here
    \* The algorithms of services/consensus.py, which the architecture names as
    \* the replaceable part: Consensus defines the present ones.
    ComputeConsensus(_), SettleParimutuel(_, _), RakeOf(_, _), ResolveOutcome(_, _)

\* A request's amount as a Numeric(18, 2) column keeps it: Postgres rounds it
\* half away from zero.
Stored(amount) == HalfUp(amount, Scale)

Books == [Members -> [Outcomes -> {Stored(e) : e \in Entries}]]

PoolOf(book) == SumFunction([m \in Members |-> Stake(book[m])])

ASSUME SettingsAssumption ==
    /\ IsFiniteSet(Members) /\ IsFiniteSet(Markets)
    /\ Entries \subseteq Nat /\ 0 \in Entries
    /\ Scale \in Nat \ {0}
    /\ Prices \subseteq Nat \ {0}        \* get_quote refuses a price of 0
    /\ Holdings \subseteq Nat
    /\ InitialPoints \in Nat
    /\ MinStake \in Nat \ {0}
    /\ StakeNum \in Nat /\ StakeDen \in Nat \ {0} /\ StakeNum <= StakeDen
    /\ QuorumNum \in Nat /\ QuorumDen \in Nat \ {0}
    /\ MinProbability \in Nat
    /\ Notional \in Nat
    /\ Horizon \in Nat

\* What the transactions rely on of the algorithms: their results are of the
\* kind the columns hold, and a settlement hands out the pool less the rake.
ASSUME AlgorithmsAssumption ==
    /\ \A book \in Books :
           /\ ComputeConsensus(book) \in
                  [total : Nat, participants : Nat, leader : Outcomes \cup {None}, probability : Nat]
           /\ \A w \in Outcomes :
                  /\ SettleParimutuel(book, w) \in [Members -> Nat]
                  /\ RakeOf(book, w) \in Nat
                  /\ SumFunction(SettleParimutuel(book, w)) = PoolOf(book) - RakeOf(book, w)
    /\ \A reference, resolution \in Prices : ResolveOutcome(reference, resolution) \in Outcomes

VARIABLES
    now,            \* the wall clock, in ticks
    joined,         \* members registered and active
    balance,        \* ledger_service.get_balance: the sum of a member's entries
    locked,         \* points a market has locked: BET_LOCK less BET_REFUND entries
    payout,         \* PAYOUT entries of a market and member
    refund,         \* CANCEL_REFUND entries of a market and member
    status,         \* Market.status, None before the market is created
    closesAt, resolveAt,
    bets,           \* rows of the bets table, 0 where there is none
    reference,      \* Market.reference_price, 0 while it is NULL
    winner,         \* Market.winning_outcome
    decision,       \* the market's TradeDecision
    late            \* history: markets whose decision was approved after they left DECIDED

marketVars == <<status, closesAt, resolveAt, reference, winner>>
ledgerVars == <<balance, locked, payout, refund>>
vars == <<now, joined, ledgerVars, marketVars, bets, decision, late>>

NoStakes == [o \in Outcomes |-> 0]
NoPoints == [m \in Members |-> 0]
NoDecision ==
    [status |-> None, action |-> None, total |-> 0, participants |-> 0, electorate |-> 0]

Init ==
    /\ now = 0
    /\ joined = {}
    /\ balance = NoPoints
    /\ locked = [k \in Markets |-> NoPoints]
    /\ payout = [k \in Markets |-> NoPoints]
    /\ refund = [k \in Markets |-> NoPoints]
    /\ status = [k \in Markets |-> None]
    /\ closesAt = [k \in Markets |-> 0]
    /\ resolveAt = [k \in Markets |-> 0]
    /\ bets = [k \in Markets |-> [m \in Members |-> NoStakes]]
    /\ reference = [k \in Markets |-> 0]
    /\ winner = [k \in Markets |-> None]
    /\ decision = [k \in Markets |-> NoDecision]
    /\ late = {}

-----------------------------------------------------------------------------
(* Members, markets and stakes                                               *)

\* create_member: the initial grant is recorded with the registration.
CreateMember(m) ==
    /\ m \notin joined
    /\ joined' = joined \cup {m}
    /\ balance' = [balance EXCEPT ![m] = @ + InitialPoints]
    /\ UNCHANGED <<now, locked, payout, refund, marketVars, bets, decision, late>>

\* create_market: nothing keeps closes_at in the future.
CreateMarket(k, closes, resolves) ==
    /\ status[k] = None
    /\ closes < resolves
    /\ status' = [status EXCEPT ![k] = "OPEN"]
    /\ closesAt' = [closesAt EXCEPT ![k] = closes]
    /\ resolveAt' = [resolveAt EXCEPT ![k] = resolves]
    /\ UNCHANGED <<now, joined, ledgerVars, reference, winner, bets, decision, late>>

\* Only an open market before its deadline takes stakes.
AcceptingAfterClose(k) == now < closesAt[k]              \* wrong: an early close is ignored
Accepting(k) == status[k] = "OPEN" /\ now < closesAt[k]

\* The points at hand: the previous stake is given back before they are judged.
AvailableAtStart(k, m) == InitialPoints                  \* wrong: other markets' locks are ignored
Available(k, m) == balance[m] + Stake(bets[k][m])

\* max_allowed: the share of the points at hand, quantized to a cent.
MaxAllowed(points) == HalfEven(points * StakeNum, StakeDen)

\* The rows that replace the member's rows, each rounded on its own.
RowsAdded(k, m, allocation) ==                           \* wrong: the old rows are kept
    [o \in Outcomes |-> bets[k][m][o] + Stored(allocation[o])]
Rows(k, m, allocation) == [o \in Outcomes |-> Stored(allocation[o])]

\* What the entries lock afterwards: BET_REFUND of the rows, BET_LOCK of the
\* requested total.
RelockedOnTop(k, m, total) == locked[k][m] + Stored(total)    \* wrong: no BET_REFUND
Relocked(k, m, total) == locked[k][m] - Stake(bets[k][m]) + Stored(total)

\* place_allocation: the member's whole allocation is replaced.
PlaceAllocation(k, m, allocation) ==
    LET total == Stake(allocation)
    IN  /\ m \in joined
        /\ Accepting(k)
        /\ total > 0
        /\ \A o \in Outcomes : allocation[o] > 0 => allocation[o] >= MinStake * Scale
        /\ total <= Available(k, m) * Scale
        /\ total <= MaxAllowed(Available(k, m)) * Scale
        /\ bets' = [bets EXCEPT ![k] = [@ EXCEPT ![m] = Rows(k, m, allocation)]]
        /\ locked' = [locked EXCEPT ![k] = [@ EXCEPT ![m] = Relocked(k, m, total)]]
        /\ balance' = [balance EXCEPT ![m] = @ + locked[k][m] - Relocked(k, m, total)]
        /\ UNCHANGED <<now, joined, payout, refund, marketVars, decision, late>>

-----------------------------------------------------------------------------
(* Closing, deciding and approving                                           *)

\* close_market: the price at this moment becomes the reference.
CloseMarket(k, price) ==
    /\ status[k] = "OPEN"
    /\ reference' = [reference EXCEPT ![k] = price]
    /\ status' = [status EXCEPT ![k] = "CLOSED"]
    /\ UNCHANGED <<now, joined, ledgerVars, closesAt, resolveAt, winner, bets, decision, late>>

\* The stakes justify an order: quorum among the active members, and a leader
\* that reaches the execution threshold.
Qualified(consensus, electorate) ==
    /\ consensus.total > 0
    /\ electorate > 0 => consensus.participants * QuorumDen >= electorate * QuorumNum
    /\ consensus.probability >= MinProbability

\* BUY spends the market's notional, SELL clears the position.
Quantity(action, price, held) ==
    CASE action = "BUY" -> Notional \div price
      [] action = "SELL" -> held
      [] OTHER -> 0

\* None of the skip_reasons applies.
PlaceableUnqualified(consensus, electorate, action, quantity) ==    \* wrong: no quorum, no threshold
    action # "HOLD" /\ quantity > 0
Placeable(consensus, electorate, action, quantity) ==
    Qualified(consensus, electorate) /\ action # "HOLD" /\ quantity > 0

DecisionFor(consensus, price, held) ==
    LET electorate == Cardinality(joined)
        action     == IF consensus.leader = None THEN "HOLD" ELSE consensus.leader
        quantity   == Quantity(action, price, held)
    IN  [status       |-> IF Placeable(consensus, electorate, action, quantity) THEN "PENDING_APPROVAL" ELSE "SKIPPED",
         action       |-> action,
         total        |-> consensus.total,
         participants |-> consensus.participants,
         electorate   |-> electorate]      \* history: active_count

\* build_decision.
BuildDecision(k, price, held) ==
    /\ status[k] = "CLOSED"
    /\ decision[k].status = None
    /\ decision' = [decision EXCEPT ![k] = DecisionFor(ComputeConsensus(bets[k]), price, held)]
    /\ status' = [status EXCEPT ![k] = "DECIDED"]
    /\ UNCHANGED <<now, joined, ledgerVars, closesAt, resolveAt, reference, winner, bets, late>>

\* reject_decision.
RejectDecision(k) ==
    /\ decision[k].status = "PENDING_APPROVAL"
    /\ decision' = [decision EXCEPT ![k] = [@ EXCEPT !.status = "REJECTED"]]
    /\ UNCHANGED <<now, joined, ledgerVars, marketVars, bets, late>>

\* execute_decision when the risk guard and the broker accept the order: it
\* looks at the decision's status and never at the market's.
ExecuteDecision(k) ==
    /\ decision[k].status = "PENDING_APPROVAL"
    /\ decision[k].action # "HOLD"
    /\ decision' = [decision EXCEPT ![k] = [@ EXCEPT !.status = "EXECUTED"]]
    /\ status' = [status EXCEPT ![k] = "EXECUTED"]
    /\ late' = IF status[k] = "DECIDED" THEN late ELSE late \cup {k}
    /\ UNCHANGED <<now, joined, ledgerVars, closesAt, resolveAt, reference, winner, bets>>

-----------------------------------------------------------------------------
(* Judging, settling and cancelling                                          *)

JudgeableAgain(k) ==                                     \* wrong: a final market is judged again
    status[k] \notin {None, "OPEN", "RESOLVED"} /\ reference[k] # 0
Judgeable(k) == status[k] \in {"CLOSED", "DECIDED", "EXECUTED"} /\ reference[k] # 0

\* A member is paid once for a market: has_entry(PAYOUT).
OwedTheStakeToo(k, w) ==                                 \* wrong: a payout includes the stake already
    [m \in Members |-> IF payout[k][m] = 0
                       THEN SettleParimutuel(bets[k], w)[m] + bets[k][m][w] ELSE 0]
Owed(k, w) ==
    [m \in Members |-> IF payout[k][m] = 0 THEN SettleParimutuel(bets[k], w)[m] ELSE 0]

PayOut(k, w) ==
    /\ payout' = [payout EXCEPT ![k] = [m \in Members |-> @[m] + Owed(k, w)[m]]]
    /\ balance' = [m \in Members |-> balance[m] + Owed(k, w)[m]]

\* resolve_market: resolve_at is not consulted.
ResolveMarket(k, price) ==
    /\ Judgeable(k)
    /\ winner' = [winner EXCEPT ![k] = ResolveOutcome(reference[k], price)]
    /\ status' = [status EXCEPT ![k] = "RESOLVED"]
    /\ UNCHANGED <<now, joined, ledgerVars, closesAt, resolveAt, reference, bets, decision, late>>

\* settle_market.
SettleMarket(k) ==
    /\ status[k] = "RESOLVED" /\ winner[k] # None
    /\ PayOut(k, winner[k])
    /\ status' = [status EXCEPT ![k] = "SETTLED"]
    /\ UNCHANGED <<now, joined, locked, refund, closesAt, resolveAt, reference, winner,
                   bets, decision, late>>

CancellableAfterSettling(k) == status[k] \notin {None, "CANCELLED"}    \* wrong: paid out already
Cancellable(k) == status[k] \notin {None, "SETTLED", "CANCELLED"}

\* cancel_market: the stakes go back to whoever has no CANCEL_REFUND yet. The
\* decision is left as it is.
CancelMarket(k) ==
    LET due == [m \in Members |-> IF refund[k][m] = 0 THEN Stake(bets[k][m]) ELSE 0]
    IN  /\ Cancellable(k)
        /\ refund' = [refund EXCEPT ![k] = [m \in Members |-> @[m] + due[m]]]
        /\ balance' = [m \in Members |-> balance[m] + due[m]]
        /\ status' = [status EXCEPT ![k] = "CANCELLED"]
        /\ UNCHANGED <<now, joined, locked, payout, closesAt, resolveAt, reference, winner,
                       bets, decision, late>>

-----------------------------------------------------------------------------
(* The scheduler                                                             *)

\* First half of tick for one market: close_market and build_decision commit
\* together. Each asks the broker for a quote of its own.
TickClose(k, price, later, held) ==
    /\ status[k] = "OPEN" /\ closesAt[k] <= now
    /\ decision[k].status = None
    /\ reference' = [reference EXCEPT ![k] = price]
    /\ decision' = [decision EXCEPT ![k] = DecisionFor(ComputeConsensus(bets[k]), later, held)]
    /\ status' = [status EXCEPT ![k] = "DECIDED"]
    /\ UNCHANGED <<now, joined, ledgerVars, closesAt, resolveAt, winner, bets, late>>

\* Second half: resolve_market and settle_market commit together.
TickResolve(k, price) ==
    LET w == ResolveOutcome(reference[k], price)
    IN  /\ Judgeable(k) /\ resolveAt[k] <= now
        /\ winner' = [winner EXCEPT ![k] = w]
        /\ PayOut(k, w)
        /\ status' = [status EXCEPT ![k] = "SETTLED"]
        /\ UNCHANGED <<now, joined, locked, refund, closesAt, resolveAt, reference,
                       bets, decision, late>>

\* Every deadline lies within Horizon: past it time changes nothing.
Advance ==
    /\ now' = IF now < Horizon THEN now + 1 ELSE now
    /\ UNCHANGED <<joined, ledgerVars, marketVars, bets, decision, late>>

-----------------------------------------------------------------------------

Register == \E m \in Members : CreateMember(m)
Open == \E k \in Markets, closes, resolves \in 0..Horizon : CreateMarket(k, closes, resolves)
Bet == \E k \in Markets, m \in Members, allocation \in [Outcomes -> Entries] :
           PlaceAllocation(k, m, allocation)
Close == \E k \in Markets, price \in Prices : CloseMarket(k, price)
Decide == \E k \in Markets, price \in Prices, held \in Holdings : BuildDecision(k, price, held)
Reject == \E k \in Markets : RejectDecision(k)
Approve == \E k \in Markets : ExecuteDecision(k)
Resolve == \E k \in Markets, price \in Prices : ResolveMarket(k, price)
Settle == \E k \in Markets : SettleMarket(k)
Cancel == \E k \in Markets : CancelMarket(k)
Tick ==
    \/ \E k \in Markets, price, later \in Prices, held \in Holdings : TickClose(k, price, later, held)
    \/ \E k \in Markets, price \in Prices : TickResolve(k, price)

Next ==
    \/ Register \/ Open \/ Bet
    \/ Close \/ Decide \/ Reject \/ Approve
    \/ Resolve \/ Settle \/ Cancel
    \/ Tick \/ Advance

Spec == Init /\ [][Next]_vars

-----------------------------------------------------------------------------
(* Types                                                                     *)

Decisions ==
    [status : DecisionStatuses \cup {None}, action : Outcomes \cup {None},
     total : Nat, participants : Nat, electorate : Nat]

TypeOK ==
    /\ now \in 0..Horizon
    /\ joined \subseteq Members
    /\ balance \in [Members -> Int]
    /\ locked \in [Markets -> [Members -> Int]]
    /\ payout \in [Markets -> [Members -> Nat]]
    /\ refund \in [Markets -> [Members -> Nat]]
    /\ status \in [Markets -> MarketStatuses \cup {None}]
    /\ closesAt \in [Markets -> 0..Horizon]
    /\ resolveAt \in [Markets -> 0..Horizon]
    /\ bets \in [Markets -> Books]
    /\ reference \in [Markets -> Prices \cup {0}]
    /\ winner \in [Markets -> Outcomes \cup {None}]
    /\ decision \in [Markets -> Decisions]
    /\ late \subseteq Markets

-----------------------------------------------------------------------------
(* Safety                                                                    *)

\* The ledger and the book tell one story: what BET_LOCK and BET_REFUND entries
\* hold back from a member is what its rows say it has at stake, through any
\* number of re-allocations (market_service.py:103-135).
EscrowMatchesBets ==
    \A k \in Markets, m \in Members : locked[k][m] = Stake(bets[k][m])

\* No sequence of bets, refunds and payouts, over any number of markets, takes
\* a balance below zero (market_service.py:89-94, where the previous stake is
\* given back before the balance is judged).
NoOverdraft == \A m \in Members : balance[m] >= 0

Disbursed(k) == SumFunction([m \in Members |-> payout[k][m] + refund[k][m]])

\* Unless its decision was approved late, a market hands out its points once:
\* nothing before it is final, the pool less the rake as winnings when it is
\* settled, and to each member exactly its stake when it is cancelled
\* (settlement.py:64-155).
SettledOnce ==
    \A k \in Markets \ late :
        /\ status[k] = "SETTLED" =>
               Disbursed(k) = PoolOf(bets[k]) - RakeOf(bets[k], winner[k])
        /\ status[k] = "CANCELLED" =>
               \A m \in Members : refund[k][m] = locked[k][m] /\ payout[k][m] = 0
        /\ status[k] \notin {"SETTLED", "CANCELLED"} =>
               \A m \in Members : refund[k][m] = 0 /\ payout[k][m] = 0

Outstanding(k) ==
    IF status[k] = "SETTLED" THEN RakeOf(bets[k], winner[k])
    ELSE IF status[k] = "CANCELLED" THEN 0
    ELSE PoolOf(bets[k])

\* Points are neither made nor lost: with no late approval the balances, the
\* pools still open and the rakes taken are together the grants made.
PointsConserved ==
    late = {} =>
        SumFunction(balance) + SumFunction([k \in Markets |-> Outstanding(k)])
            = InitialPoints * Cardinality(joined)

\* Every decision that is or was up for approval rests on the stakes still in
\* the book: they name its action, they are the total it records, and they
\* reach the quorum of its day and the execution threshold
\* (market_service.py:180-242).
DecisionsRestOnTheBook ==
    \A k \in Markets :
        decision[k].status \in {"PENDING_APPROVAL", "REJECTED", "EXECUTED"} =>
            LET consensus == ComputeConsensus(bets[k])
            IN  /\ decision[k].action = consensus.leader
                /\ decision[k].action \in {"BUY", "SELL"}
                /\ decision[k].total = consensus.total
                /\ Qualified(consensus, decision[k].electorate)

-----------------------------------------------------------------------------
(* What a step may not do                                                    *)

KeepsClosedBooks ==
    \A k \in Markets :
        status[k] \notin {None, "OPEN"} =>
            /\ bets'[k] = bets[k] /\ locked'[k] = locked[k]
            /\ reference'[k] = reference[k]
            /\ status'[k] \notin {None, "OPEN"}

\* Once betting has ended the stakes and the reference price stand, whatever
\* happens to the market (ARCHITECTURE.md:45, "cannot be changed later").
ClosedBooksAreFrozen == [][KeepsClosedBooks]_vars

KeepsFinalMarkets ==
    \A k \in Markets :
        status[k] \in {"SETTLED", "CANCELLED"} /\ k \notin late' =>
            /\ status'[k] = status[k] /\ winner'[k] = winner[k]
            /\ payout'[k] = payout[k] /\ refund'[k] = refund[k]

\* A settled or cancelled market keeps its status, its winner and what it paid
\* until, if ever, its decision is approved late.
FinalUnlessApprovedLate == [][KeepsFinalMarkets]_vars

-----------------------------------------------------------------------------
(* What the documents say and the code does not do                           *)

\* settlement.py:67: "already settled, settling again does not pay twice". A
\* decision approved after the market was cancelled or settled reopens it, and
\* the scheduler judges and pays it again.
NeverPaysTwice == \A k \in Markets : Disbursed(k) <= PoolOf(bets[k])

\* settlement.py:130: cancelling "refunds the stakes in full". The refund is
\* the sum of the rounded rows, the lock was the rounded sum.
CancelReturnsTheLock ==
    \A k \in Markets \ late :
        status[k] = "CANCELLED" => \A m \in Members : refund[k][m] = locked[k][m]
=============================================================================
