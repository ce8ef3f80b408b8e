------------------------------ MODULE Consensus ------------------------------
(* The pure functions of services/consensus.py: the consensus read off the   *)
(* stakes, the parimutuel settlement and the judgement of the outcome.       *)
(*                                                                           *)
(* A book maps each member and outcome to a stake in cents, the unit the     *)
(* Numeric(18, 2) columns keep; a stake of 0 is a row that does not exist.   *)
(* Probabilities are in units of 0.0001, as PROB quantizes them.             *)
EXTENDS Domain, FiniteSets, Functions

CONSTANTS
    Members,         \* member ids: the lowest id wins a tie for the remainder
    RakeBps,         \* settings.rake_bps
    Precision,       \* significant digits of the decimal context (28 in Python)
    BuyThreshold,    \* Market.buy_threshold_pct in units of 0.0001%
    SellThreshold    \* Market.sell_threshold_pct in units of 0.0001%

ASSUME ConsensusAssumption ==
    /\ Members \subseteq Nat /\ IsFiniteSet(Members)
    /\ RakeBps \in 0..9999           \* outside of it settle_parimutuel raises
    /\ Precision \in Nat \ {0}
    /\ BuyThreshold \in Int /\ SellThreshold \in Int

-----------------------------------------------------------------------------
(* compute_consensus                                                         *)

OnOutcome(book, o) == SumFunction([m \in Members |-> book[m][o]])

Pool(book) == SumFunction([m \in Members |-> Stake(book[m])])

Bettors(book) == {m \in Members : Stake(book[m]) > 0}

LastLeader(book) ==                            \* wrong: the last outcome with any stake
    CHOOSE o \in Outcomes :
        \A p \in Outcomes \ {o} :
            \/ OnOutcome(book, o) > 0 /\ OnOutcome(book, p) = 0
            \/ (OnOutcome(book, o) > 0 <=> OnOutcome(book, p) > 0) /\ Rank[o] > Rank[p]

\* max(ALL_OUTCOMES, key=...): the largest stake, the first listed on a tie.
Leader(book) ==
    CHOOSE o \in Outcomes :
        \A p \in Outcomes \ {o} :
            \/ OnOutcome(book, o) > OnOutcome(book, p)
            \/ OnOutcome(book, o) = OnOutcome(book, p) /\ Rank[o] < Rank[p]

UnadjustedProbabilities(book) ==               \* wrong: the drift of the roundings stays
    [o \in Outcomes |-> IF Pool(book) = 0 THEN 0 ELSE HalfUp(10000 * OnOutcome(book, o), Pool(book))]

\* Each share rounded on its own; the leader then absorbs what is left of 1.
Probabilities(book) ==
    LET rounded == [o \in Outcomes |-> HalfUp(10000 * OnOutcome(book, o), Pool(book))]
        drift   == 10000 - Stake(rounded)
    IN  IF Pool(book) > 0 THEN [rounded EXCEPT ![Leader(book)] = @ + drift]
                          ELSE [o \in Outcomes |-> 0]

ConsensusOf(book) ==
    [total        |-> Pool(book),
     participants |-> Cardinality(Bettors(book)),
     leader       |-> IF Pool(book) > 0 THEN Leader(book) ELSE None,
     probability  |-> IF Pool(book) > 0 THEN Probabilities(book)[Leader(book)] ELSE 0]

-----------------------------------------------------------------------------
(* settle_parimutuel                                                         *)

\* A place of the decimal context.
TenTo[n \in Nat] == IF n = 0 THEN 1 ELSE 10 * TenTo[n - 1]

\* The scale s at which n/d has Precision digits before the decimal point.
ScaleOf(n, d) ==
    CHOOSE s \in 0..3 * Precision :
        TenTo[Precision - 1] * d <= n * TenTo[s] /\ n * TenTo[s] < TenTo[Precision] * d

\* The scale by which an integer exceeds Precision digits.
Excess(n) ==
    CHOOSE t \in 0..3 * Precision :
        n < TenTo[Precision + t] /\ (t > 0 => n >= TenTo[Precision + t - 1])

EqualShareOf(distributable, amount, winningPool) ==    \* wrong: every winner is offered the same
    distributable \div winningPool

\* distributable * (amount / winning_pool), rounded down to a cent. Quotient
\* and product are each rounded to the context's precision first, half even.
ShareOf(distributable, amount, winningPool) ==
    LET s       == ScaleOf(amount, winningPool)
        exact   == distributable * HalfEven(amount * TenTo[s], winningPool)
        t       == Excess(exact)
    IN  (HalfEven(exact, TenTo[t]) * TenTo[t]) \div TenTo[s]

RakeOnThePool(book, winner) == (Pool(book) * RakeBps) \div 10000    \* wrong: winners are charged too

Rake(book, winner) ==
    LET winningPool == OnOutcome(book, winner)
    IN  IF winningPool = 0 THEN 0
        ELSE ((Pool(book) - winningPool) * RakeBps) \div 10000

FirstMember(book, winner) ==                   \* wrong: the remainder goes to the lowest id
    CHOOSE m \in Members : \A n \in Members : m <= n

\* max(winners, key=(amount, -member_id)).
TopWinner(book, winner) ==
    CHOOSE m \in Members :
        \A n \in Members \ {m} :
            \/ book[m][winner] > book[n][winner]
            \/ book[m][winner] = book[n][winner] /\ m < n

WithoutRemainder(book, winner) ==              \* wrong: the cents rounded off are lost
    [m \in Members |->
        IF OnOutcome(book, winner) = 0 THEN Stake(book[m])
        ELSE IF book[m][winner] = 0 THEN 0
        ELSE ShareOf(Pool(book) - Rake(book, winner), book[m][winner], OnOutcome(book, winner))]

SettlementOf(book, winner) ==
    LET winningPool   == OnOutcome(book, winner)
        distributable == Pool(book) - Rake(book, winner)
        share(m)      == IF book[m][winner] = 0 THEN 0
                         ELSE ShareOf(distributable, book[m][winner], winningPool)
        shares        == [m \in Members |-> share(m)]
        remainder     == distributable - SumFunction(shares)
    IN  IF winningPool = 0
        THEN [m \in Members |-> Stake(book[m])]     \* nobody was right: full refund
        ELSE IF remainder > 0
             THEN [shares EXCEPT ![TopWinner(book, winner)] = @ + remainder]
             ELSE shares

-----------------------------------------------------------------------------
(* resolve_outcome: the return is rounded to 0.0001% before it is compared.  *)

ReturnPct(reference, resolution) ==
    HalfUp((resolution - reference) * 1000000, reference)

StrictOutcomeOf(reference, resolution) ==      \* wrong: a return at the threshold is a HOLD
    IF ReturnPct(reference, resolution) > BuyThreshold THEN "BUY"
    ELSE IF ReturnPct(reference, resolution) < SellThreshold THEN "SELL"
    ELSE "HOLD"

OutcomeOf(reference, resolution) ==
    IF ReturnPct(reference, resolution) >= BuyThreshold THEN "BUY"
    ELSE IF ReturnPct(reference, resolution) <= SellThreshold THEN "SELL"
    ELSE "HOLD"

-----------------------------------------------------------------------------
(* brier_score of what a member put on the outcomes, in units of 0.000001.   *)

Square(n) == n * n

BrierOfShares(allocation, winner) ==           \* wrong: the winner is not told apart
    HalfUp(1000000 * Stake([o \in Outcomes |-> Square(allocation[o])]), Square(Stake(allocation)))

\* The shares are exact here; their 28 digits are cut to six only at the end.
BrierScore(allocation, winner) ==
    LET total == Stake(allocation)
        miss(o) == IF o = winner THEN total - allocation[o] ELSE allocation[o]
    IN  HalfUp(1000000 * Stake([o \in Outcomes |-> Square(miss(o))]), Square(total))
=============================================================================
