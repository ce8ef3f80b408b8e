----------------------------- MODULE MCConsensus -----------------------------
(* Walks through every small book, every small pair of prices and every half *)
(* minute of a week, and checks the pure functions of Consensus and          *)
(* MarketHours against what they promise.                                    *)
EXTENDS Consensus, MarketHours

CONSTANTS
    Stakes,     \* stakes a member may have on an outcome, in cents
    Prices,     \* prices a quote may return
    MaxMove     \* by how much two quotes may differ: TLC's integers have 32 bits

\* The digits of the context suffice for the largest pools; 28 do as long as a
\* pool and its winning part, in cents, multiply to less than 1.8 * 10^26.
ASSUME InputsAssumption ==
    /\ Stakes \subseteq Nat
    /\ Prices \subseteq Nat \ {0} /\ Prices # {}
    /\ MaxMove \in Nat
    /\ \A a \in Stakes :
           33 * (Cardinality(Members) * a) * (Cardinality(Members) * a) < 2 * TenTo[Precision - 1]

VARIABLES
    book,       \* the stakes of the market under test
    quotes,     \* its reference and its resolution price
    instant     \* the clock

MCSellThreshold == -30000    \* a TLC config cannot write a negative number

vars == <<book, quotes, instant>>

EmptyBook == [m \in Members |-> [o \in Outcomes |-> 0]]

FirstPrice == CHOOSE p \in Prices : TRUE

Init ==
    /\ book = EmptyBook
    /\ quotes = <<FirstPrice, FirstPrice>>
    /\ instant = 0

\* The books, the prices and the clock are unrelated: one moves while the others
\* are as they were at the start.
Unquoted == quotes = <<FirstPrice, FirstPrice>>

\* One member puts one stake on one outcome.
Restake ==
    /\ Unquoted /\ instant = 0
    /\ \E m \in Members, o \in Outcomes, a \in Stakes :
           book' = [book EXCEPT ![m][o] = a]
    /\ UNCHANGED <<quotes, instant>>

\* The market is quoted.
Requote ==
    /\ book = EmptyBook /\ instant = 0
    /\ \E reference, resolution \in Prices :
           /\ resolution - reference \in -MaxMove..MaxMove
           /\ quotes' = <<reference, resolution>>
    /\ UNCHANGED <<book, instant>>

\* Half a minute passes.
Advance ==
    /\ book = EmptyBook /\ Unquoted
    /\ instant' = (instant + 1) % (7 * OneDay)
    /\ UNCHANGED <<book, quotes>>

Next == Restake \/ Requote \/ Advance

Spec == Init /\ [][Next]_vars

-----------------------------------------------------------------------------
(* What compute_consensus promises (docstring of consensus.py:57-61).        *)

\* The published probabilities add up to exactly 1 and none is further than a
\* unit and a half (0.00015) from the true share of the stakes, although three
\* of them are rounded apart and the leader then absorbs the drift.
ProbabilitiesAddUp ==
    Pool(book) > 0 =>
        /\ Stake(Probabilities(book)) = 10000
        /\ \A o \in Outcomes :
               LET error == Probabilities(book)[o] * Pool(book) - 10000 * OnOutcome(book, o)
               IN  2 * error <= 3 * Pool(book) /\ -2 * error <= 3 * Pool(book)

\* The outcome that decides the trade is shown at most one unit behind another:
\* absorbing the drift may cost the leader its displayed lead (stakes of 3, 3
\* and 1 do), never more than that.
LeaderKeepsTheLead ==
    LET leader == ConsensusOf(book).leader
    IN  leader # None =>
            \A o \in Outcomes :
                /\ OnOutcome(book, leader) >= OnOutcome(book, o)
                /\ ConsensusOf(book).probability >= Probabilities(book)[o] - 1

-----------------------------------------------------------------------------
(* What settle_parimutuel promises (docstring of consensus.py:99-107).       *)

Paid(winner) == SettlementOf(book, winner)

TotalPaid(winner) == SumFunction(Paid(winner))

\* Rounding creates and destroys nothing: what is paid out is the pool less
\* the rake to the cent, and the whole pool when nobody was right.
PoolConserved ==
    \A w \in Outcomes : TotalPaid(w) = Pool(book) - Rake(book, w)

\* The rake comes out of the losers' stakes: the winners together get at
\* least what they staked on the winning outcome.
RakeOnLosersOnly ==
    \A w \in Outcomes : TotalPaid(w) >= OnOutcome(book, w)

\* Losers get nothing, and a winner gets the share of its stake to within a
\* cent below and, for the one who takes the remainder, a cent a winner above.
SharesAreProportional ==
    \A w \in Outcomes : \A m \in Members :
        LET winningPool   == OnOutcome(book, w)
            distributable == Pool(book) - Rake(book, w)
            exact         == distributable * book[m][w]     \* times winningPool
            paid          == Paid(w)[m] * winningPool
            winners       == Cardinality({n \in Members : book[n][w] > 0})
        IN  winningPool > 0 =>
                IF book[m][w] = 0 THEN paid = 0
                ELSE /\ paid >= exact - winningPool
                     /\ paid <= exact + winners * winningPool

\* Of two winners the one with the larger stake is not paid less, wherever
\* the rounding and the remainder fall.
LargerStakeEarnsMore ==
    \A w \in Outcomes : \A m, n \in Members :
        OnOutcome(book, w) > 0 /\ book[m][w] > book[n][w] => Paid(w)[m] >= Paid(w)[n]

\* consensus.py:105 and ARCHITECTURE.md:68 say a winner's own stake is left
\* untouched. It is not: a stake whose share of the winning pool has no finite
\* decimal loses a cent to the rounding and the largest winner takes it.
PrincipalUntouched ==
    \A w \in Outcomes : \A m \in Members : Paid(w)[m] >= book[m][w]

-----------------------------------------------------------------------------
(* What resolve_outcome promises (docstring of consensus.py:160-166).        *)

\* The return is rounded before it meets the thresholds, which never costs a
\* return its outcome: one at a threshold or beyond is judged BUY or SELL, one so
\* judged is at most half a unit (0.00005%) short of it, and a higher resolution
\* price never moves the judgement from BUY towards SELL. Thresholds may be crossed,
\* as MarketCreate compares them only where both are given: BUY then goes first.
JudgementFollowsTheReturn ==
    LET reference  == quotes[1]
        resolution == quotes[2]
        gain       == (resolution - reference) * 1000000
        judged     == OutcomeOf(reference, resolution)
        place      == [SELL |-> 1, HOLD |-> 2, BUY |-> 3]
    IN  /\ gain >= BuyThreshold * reference => judged = "BUY"
        /\ gain <= SellThreshold * reference =>
               \/ judged = "SELL"
               \/ judged = "BUY" /\ BuyThreshold <= SellThreshold
        /\ judged = "BUY" => 2 * gain >= (2 * BuyThreshold - 1) * reference
        /\ judged = "SELL" => 2 * gain <= (2 * SellThreshold + 1) * reference
        /\ \A higher \in Prices :
               higher \in resolution..reference + MaxMove =>
                   place[OutcomeOf(reference, higher)] >= place[judged]

-----------------------------------------------------------------------------
(* What brier_score promises (docstring of consensus.py:142-145).            *)

Worst == 2000000         \* a score of 2

Moved(allocation, from, to) ==
    [allocation EXCEPT ![from] = @ - 1, ![to] = @ + 1]

\* From 0 for everything on the right outcome to 2, the worst, for everything on
\* one wrong outcome. Every cent a member would have had on the winner instead of
\* elsewhere lowers its score, whatever the rest of its allocation, or leaves it
\* where it is when the stakes are too large for six digits to tell.
BrierRewardsTheWinner ==
    \A m \in Bettors(book), w \in Outcomes :
        LET score == BrierScore(book[m], w)
        IN  /\ score \in 0..Worst
            /\ book[m][w] = Stake(book[m]) => score = 0
            /\ \A o \in Outcomes \ {w} :
                   /\ book[m][o] = Stake(book[m]) => score = Worst
                   /\ book[m][o] > 0 =>
                          /\ BrierScore(Moved(book[m], o, w), w) <= score
                          /\ Square(Stake(book[m])) <= Worst =>
                                 BrierScore(Moved(book[m], o, w), w) < score

-----------------------------------------------------------------------------
(* What current_session promises (the table of market_hours.py:41-46).       *)

\* The hour of UTC decides as the table in Korean time does, although Korea's
\* trading day begins on the evening of the day before: the pre-market session
\* of Monday is on Sunday, and Friday evening is already the weekend.
HoursMatchTheTable ==
    LET day == instant \div OneDay           \* of UTC, 0 is Monday
        t   == instant % OneDay
    IN  CurrentSession(instant) =
            CASE day \in {6, 0, 1, 2, 3} /\ t >= At(23, 0)              -> "pre_market"
              [] day \in 0..4 /\ t <= At(6, 30)                         -> "regular"
              [] day \in 0..4 /\ t >= At(6, 40) /\ t <= At(9, 0)        -> "after_market"
              [] OTHER                                                  -> "closed"
=============================================================================
