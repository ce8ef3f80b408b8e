--------------------------- MODULE ConsensusProofs ---------------------------
(* Theorems about the pure functions of Consensus and MarketHours: what they   *)
(* promise for every book, every pair of prices, every threshold and rake, and *)
(* a precision that suffices.                                                  *)
EXTENDS MCConsensus, ArithmeticTheorems

-----------------------------------------------------------------------------
(* The walk                                                                  *)

IsBook(b) == b \in [Members -> [Outcomes -> Nat]]

\* What the walk visits.
InputInv ==
    /\ book \in [Members -> [Outcomes -> Stakes \cup {0}]]
    /\ quotes \in Prices \X Prices
    /\ instant \in Instants

\* Every state of the walk is a book of stakes, a pair of prices and an instant of the week.
LEMMA InputHolds == Spec => []InputInv
<1>1. 7 * OneDay \in Nat /\ 7 * OneDay > 0
  BY DEF OneDay, At
<1>2. Init => InputInv
  <2>1. FirstPrice \in Prices
    BY InputsAssumption DEF FirstPrice
  <2>2. EmptyBook \in [Members -> [Outcomes -> Stakes \cup {0}]]
    BY DEF EmptyBook
  <2>. QED BY <1>1, <2>1, <2>2 DEF Init, InputInv, Instants
<1>3. InputInv /\ [Next]_vars => InputInv'
  <2> SUFFICES ASSUME InputInv, [Next]_vars PROVE InputInv'
    OBVIOUS
  <2>1. CASE Restake
    <3>1. PICK m \in Members, o \in Outcomes, a \in Stakes : book' = [book EXCEPT ![m][o] = a]
      BY <2>1 DEF Restake
    <3>2. book' \in [Members -> [Outcomes -> Stakes \cup {0}]]
      BY <3>1 DEF InputInv
    <3>. QED BY <2>1, <3>2 DEF Restake, InputInv
  <2>2. CASE Requote
    BY <2>2 DEF Requote, InputInv
  <2>3. CASE Advance
    <3>1. (instant + 1) % (7 * OneDay) \in 0..7 * OneDay - 1
      <4> HIDE DEF OneDay
      <4>. QED BY <1>1 DEF InputInv, Instants
    <3>. QED BY <2>3, <3>1 DEF Advance, InputInv, Instants
  <2>4. CASE UNCHANGED vars
    BY <2>4 DEF vars, InputInv
  <2>. QED BY <2>1, <2>2, <2>3, <2>4 DEF Next
<1>. QED BY <1>2, <1>3, PTL DEF Spec

\* The stakes are numbers.
LEMMA BooksAreBooks == InputInv => IsBook(book)
<1>1. Stakes \cup {0} \subseteq Nat
  BY InputsAssumption
<1>. QED BY <1>1 DEF InputInv, IsBook

-----------------------------------------------------------------------------
(* The judgement                                                             *)

\* What JudgementFollowsTheReturn says holds of all prices, and for thresholds
\* of any sign and order.
LEMMA ReturnIsJudged ==
    ASSUME NEW reference \in Nat \ {0}, NEW resolution \in Int
    PROVE  LET gain   == (resolution - reference) * 1000000
               judged == OutcomeOf(reference, resolution)
           IN  /\ gain >= BuyThreshold * reference => judged = "BUY"
               /\ gain <= SellThreshold * reference =>
                      \/ judged = "SELL"
                      \/ judged = "BUY" /\ BuyThreshold <= SellThreshold
               /\ judged = "BUY" => 2 * gain >= (2 * BuyThreshold - 1) * reference
               /\ judged = "SELL" => 2 * gain <= (2 * SellThreshold + 1) * reference
<1> DEFINE gain == (resolution - reference) * 1000000
           pct == HalfUp(gain, reference)
<1>1. gain \in Int /\ BuyThreshold \in Int /\ SellThreshold \in Int
  BY ConsensusAssumption, SMT
<1>2. ReturnPct(reference, resolution) = pct
  BY SMT DEF ReturnPct
<1> HIDE DEF gain
<1>3. pct \in Int /\ 2 * (reference * pct) <= 2 * gain + reference
      /\ 2 * (reference * pct) >= 2 * gain - reference
  BY <1>1, HalfUpBounds
<1>4. /\ gain >= BuyThreshold * reference => pct >= BuyThreshold
      /\ gain <= SellThreshold * reference => pct <= SellThreshold
  BY <1>1, HalfUpStops
<1> HIDE DEF pct
<1>5. pct >= BuyThreshold => 2 * gain >= (2 * BuyThreshold - 1) * reference
  <2> SUFFICES ASSUME pct >= BuyThreshold PROVE 2 * gain >= (2 * BuyThreshold - 1) * reference
    OBVIOUS
  <2>1. reference * pct >= reference * BuyThreshold
    BY <1>1, <1>3
  <2>2. (2 * BuyThreshold - 1) * reference = 2 * (reference * BuyThreshold) - reference
    BY <1>1
  <2> DEFINE x == reference * pct
             y == reference * BuyThreshold
  <2>3. x \in Int /\ y \in Int /\ x >= y /\ 2 * x <= 2 * gain + reference
        /\ (2 * BuyThreshold - 1) * reference = 2 * y - reference
    BY <1>1, <1>3, <2>1, <2>2
  <2> HIDE DEF x, y
  <2>4. 2 * gain >= 2 * y - reference
    BY <1>1, <2>3
  <2>. QED BY <2>3, <2>4
<1>6. pct <= SellThreshold => 2 * gain <= (2 * SellThreshold + 1) * reference
  <2> SUFFICES ASSUME pct <= SellThreshold PROVE 2 * gain <= (2 * SellThreshold + 1) * reference
    OBVIOUS
  <2>1. reference * pct <= reference * SellThreshold
    BY <1>1, <1>3
  <2>2. (2 * SellThreshold + 1) * reference = 2 * (reference * SellThreshold) + reference
    BY <1>1
  <2> DEFINE x == reference * pct
             y == reference * SellThreshold
  <2>3. x \in Int /\ y \in Int /\ x <= y /\ 2 * x >= 2 * gain - reference
        /\ (2 * SellThreshold + 1) * reference = 2 * y + reference
    BY <1>1, <1>3, <2>1, <2>2
  <2> HIDE DEF x, y
  <2>4. 2 * gain <= 2 * y + reference
    BY <1>1, <2>3
  <2>. QED BY <2>3, <2>4
<1>7. OutcomeOf(reference, resolution) =
          IF pct >= BuyThreshold THEN "BUY" ELSE IF pct <= SellThreshold THEN "SELL" ELSE "HOLD"
  BY <1>2 DEF OutcomeOf
<1>8. pct >= BuyThreshold /\ pct <= SellThreshold => BuyThreshold <= SellThreshold
  BY <1>1, <1>3
<1>. QED BY <1>4, <1>5, <1>6, <1>7, <1>8, SMT DEF gain

\* A higher resolution price is judged no lower.
LEMMA JudgementIsMonotone ==
    ASSUME NEW reference \in Nat \ {0}, NEW lower \in Int, NEW higher \in Int, lower <= higher
    PROVE  LET place == [SELL |-> 1, HOLD |-> 2, BUY |-> 3]
           IN  place[OutcomeOf(reference, higher)] >= place[OutcomeOf(reference, lower)]
<1> DEFINE p == ReturnPct(reference, lower)
           q == ReturnPct(reference, higher)
<1>1. p \in Int /\ q \in Int /\ p <= q
  <2>1. (lower - reference) * 1000000 \in Int /\ (higher - reference) * 1000000 \in Int
        /\ (lower - reference) * 1000000 <= (higher - reference) * 1000000
    BY SMT
  <2>. QED BY <2>1, HalfUpBounds, HalfUpIsMonotone, SMT DEF ReturnPct
<1> HIDE DEF p, q
<1>2. OutcomeOf(reference, lower) =
          IF p >= BuyThreshold THEN "BUY" ELSE IF p <= SellThreshold THEN "SELL" ELSE "HOLD"
  BY DEF OutcomeOf, p
<1>3. OutcomeOf(reference, higher) =
          IF q >= BuyThreshold THEN "BUY" ELSE IF q <= SellThreshold THEN "SELL" ELSE "HOLD"
  BY DEF OutcomeOf, q
<1>. QED BY <1>1, <1>2, <1>3, ConsensusAssumption

\* A market is judged as its return calls for, whatever the prices and the
\* thresholds: rounding costs no outcome at a threshold, and gives one for at most
\* half a unit.
THEOREM JudgementTheorem == Spec => []JudgementFollowsTheReturn
<1>1. InputInv => JudgementFollowsTheReturn
  <2> SUFFICES ASSUME InputInv PROVE JudgementFollowsTheReturn
    OBVIOUS
  <2>1. quotes[1] \in Nat \ {0} /\ quotes[2] \in Nat \ {0} /\ Prices \subseteq Nat \ {0}
    BY InputsAssumption DEF InputInv
  <2> DEFINE reference  == quotes[1]
             resolution == quotes[2]
  <2>2. reference \in Nat \ {0} /\ resolution \in Int
    BY <2>1
  <2>3. ASSUME NEW higher \in Prices, higher \in resolution..reference + MaxMove
        PROVE  LET place == [SELL |-> 1, HOLD |-> 2, BUY |-> 3]
               IN  place[OutcomeOf(reference, higher)] >= place[OutcomeOf(reference, resolution)]
    <3>1. higher \in Int /\ resolution <= higher
      BY <2>1, <2>3
    <3> HIDE DEF reference, resolution
    <3>. QED BY <2>2, <3>1, JudgementIsMonotone
  <2>. QED BY <2>2, <2>3, ReturnIsJudged, SMT DEF JudgementFollowsTheReturn
<1>. QED BY <1>1, InputHolds, PTL

-----------------------------------------------------------------------------
(* Sums over a book                                                          *)

\* The stakes on one outcome and those of one member are part of the pool.
LEMMA PoolOfOutcomes ==
    ASSUME NEW b, IsBook(b)
    PROVE  /\ Pool(b) \in Nat
           /\ \A o \in Outcomes : OnOutcome(b, o) \in Nat
           /\ Pool(b) = OnOutcome(b, "BUY") + OnOutcome(b, "SELL") + OnOutcome(b, "HOLD")
<1> DEFINE on(o) == [m \in Members |-> b[m][o]]
           stakes == [m \in Members |-> Stake(b[m])]
           both == [m \in Members |-> b[m]["BUY"] + b[m]["SELL"]]
<1>1. IsFiniteSet(Members)
  BY ConsensusAssumption
<1>2. \A o \in Outcomes : on(o) \in [Members -> Nat]
  BY DEF IsBook
<1>3. both \in [Members -> Int] /\ stakes \in [Members -> Int]
      /\ \A m \in Members : both[m] = on("BUY")[m] + on("SELL")[m]
                           /\ stakes[m] = both[m] + on("HOLD")[m]
  BY DEF IsBook, Stake, Outcomes
<1>4. \A o \in Outcomes : OnOutcome(b, o) = SumFunction(on(o))
  BY DEF OnOutcome
<1>5. Pool(b) = SumFunction(stakes)
  BY DEF Pool
<1> HIDE DEF on, both, stakes
<1>6. \A o \in Outcomes : SumFunction(on(o)) \in Nat
  <2> SUFFICES ASSUME NEW o \in Outcomes PROVE SumFunction(on(o)) \in Nat
    OBVIOUS
  <2>1. on(o) \in [Members -> Nat] /\ \A m \in Members : on(o)[m] \in Nat
    BY <1>2
  <2>2. SumFunctionOnSet(on(o), Members) \in Nat
    BY <1>1, <2>1, SumOfNaturals
  <2>. QED BY <2>1, <2>2 DEF SumFunction
<1>7. SumFunction(both) = SumFunction(on("BUY")) + SumFunction(on("SELL"))
  <2>1. on("BUY") \in [Members -> Int] /\ on("SELL") \in [Members -> Int]
    BY <1>2 DEF Outcomes
  <2>. QED BY <1>1, <1>3, <2>1, SumAdded
<1>8. SumFunction(stakes) = SumFunction(both) + SumFunction(on("HOLD"))
  <2>1. on("HOLD") \in [Members -> Int]
    BY <1>2 DEF Outcomes
  <2>. QED BY <1>1, <1>3, <2>1, SumAdded
<1>9. "BUY" \in Outcomes /\ "SELL" \in Outcomes /\ "HOLD" \in Outcomes
  BY DEF Outcomes
<1>. QED BY <1>4, <1>5, <1>6, <1>7, <1>8, <1>9

\* One outcome leads.
LEMMA LeaderLeads ==
    ASSUME NEW b, IsBook(b)
    PROVE  /\ Leader(b) \in Outcomes
           /\ \A o \in Outcomes : OnOutcome(b, Leader(b)) >= OnOutcome(b, o)
<1> DEFINE leads(o) ==
        \A p \in Outcomes \ {o} :
            \/ OnOutcome(b, o) > OnOutcome(b, p)
            \/ OnOutcome(b, o) = OnOutcome(b, p) /\ Rank[o] < Rank[p]
<1>1. \A o \in Outcomes : OnOutcome(b, o) \in Nat
  BY PoolOfOutcomes
<1>2. \E o \in Outcomes : leads(o)
  BY <1>1 DEF Outcomes, Rank
<1>3. Leader(b) = CHOOSE o \in Outcomes : leads(o)
  BY DEF Leader
<1>4. Leader(b) \in Outcomes /\ leads(Leader(b))
  BY <1>2, <1>3
<1>. QED BY <1>1, <1>4

-----------------------------------------------------------------------------
(* The probabilities                                                         *)

\* The share of an outcome, rounded on its own.
Rounded(b, o) == HalfUp(10000 * OnOutcome(b, o), Pool(b))

\* Each share is rounded by at most half a unit, so what the three lack of 1 is at
\* most one unit, which the leader gets.
LEMMA DriftIsSmall ==
    ASSUME NEW b, IsBook(b), Pool(b) > 0
    PROVE  \E drift \in {-1, 0, 1} :
               /\ Rounded(b, "BUY") + Rounded(b, "SELL") + Rounded(b, "HOLD") + drift = 10000
               /\ Probabilities(b) = [o \in Outcomes |->
                      IF o = Leader(b) THEN Rounded(b, o) + drift ELSE Rounded(b, o)]
               /\ \A o \in Outcomes :
                      /\ Rounded(b, o) \in Int
                      /\ 2 * (Pool(b) * Rounded(b, o)) <= 20000 * OnOutcome(b, o) + Pool(b)
                      /\ 2 * (Pool(b) * Rounded(b, o)) >= 20000 * OnOutcome(b, o) - Pool(b)
<1> DEFINE pool == Pool(b)
           on(o) == OnOutcome(b, o)
           drift == 10000 - (Rounded(b, "BUY") + Rounded(b, "SELL") + Rounded(b, "HOLD"))
<1>1. /\ pool \in Nat \ {0} /\ \A o \in Outcomes : on(o) \in Nat
      /\ pool = on("BUY") + on("SELL") + on("HOLD")
  BY PoolOfOutcomes
<1>2. ASSUME NEW o \in Outcomes
      PROVE  /\ Rounded(b, o) \in Int
             /\ 2 * (pool * Rounded(b, o)) <= 20000 * on(o) + pool
             /\ 2 * (pool * Rounded(b, o)) >= 20000 * on(o) - pool
  <2> DEFINE n == 10000 * on(o)
  <2>1. n \in Int /\ 2 * n = 20000 * on(o) /\ Rounded(b, o) = HalfUp(n, pool)
    BY <1>1, SMT DEF Rounded
  <2> HIDE DEF n, pool
  <2>2. /\ HalfUp(n, pool) \in Int
        /\ 2 * (pool * HalfUp(n, pool)) <= 2 * n + pool
        /\ 2 * (pool * HalfUp(n, pool)) >= 2 * n - pool
    <3>1. n \in Int /\ pool \in Nat \ {0}
      BY <1>1, <2>1
    <3>. QED BY <3>1, HalfUpBounds, Zenon
  <2>. QED BY <2>1, <2>2
<1> HIDE DEF pool, on
<1>3. drift \in {-1, 0, 1}
  <2> DEFINE x == Rounded(b, "BUY")
             y == Rounded(b, "SELL")
             z == Rounded(b, "HOLD")
             px == pool * x
             py == pool * y
             pz == pool * z
  <2>1. "BUY" \in Outcomes /\ "SELL" \in Outcomes /\ "HOLD" \in Outcomes
    BY DEF Outcomes
  <2>2. /\ x \in Int /\ 2 * px <= 20000 * on("BUY") + pool /\ 2 * px >= 20000 * on("BUY") - pool
        /\ y \in Int /\ 2 * py <= 20000 * on("SELL") + pool /\ 2 * py >= 20000 * on("SELL") - pool
        /\ z \in Int /\ 2 * pz <= 20000 * on("HOLD") + pool /\ 2 * pz >= 20000 * on("HOLD") - pool
    BY <1>2, <2>1, SMT
  <2> HIDE DEF x, y, z
  <2>3. pool * drift = 10000 * pool - (px + py + pz) /\ drift \in Int
        /\ px \in Int /\ py \in Int /\ pz \in Int
    <3>1. drift = 10000 - (x + y + z)
      BY SMT DEF x, y, z
    <3> HIDE DEF drift
    <3>. QED BY <1>1, <2>2, <3>1, SMT
  <2> HIDE DEF px, py, pz, drift
  <2>4. 2 * (pool * drift) <= 3 * pool /\ 2 * (pool * drift) >= -(3 * pool)
    <3> DEFINE pd == pool * drift
    <3>1. pd = 10000 * pool - (px + py + pz)
      BY <2>3, SMT
    <3> HIDE DEF pd
    <3>2. 2 * pd <= 3 * pool /\ 2 * pd >= -(3 * pool)
      BY <1>1, <2>1, <2>2, <2>3, <3>1, SMT
    <3>. QED BY <3>2, SMT DEF pd
  <2>5. ~(drift >= 2)
    <3> SUFFICES ASSUME drift >= 2 PROVE FALSE
      OBVIOUS
    <3>1. pool * drift >= pool * 2
      BY <1>1, <2>3, SMT
    <3>. QED BY <1>1, <2>3, <2>4, <3>1, SMT
  <2>6. ~(drift <= -2)
    <3> SUFFICES ASSUME drift <= -2 PROVE FALSE
      OBVIOUS
    <3>1. pool * drift <= pool * (-2)
      BY <1>1, <2>3, SMT
    <3>. QED BY <1>1, <2>3, <2>4, <3>1, SMT
  <2>. QED BY <2>3, <2>5, <2>6, SMT
<1>4. Probabilities(b) = [o \in Outcomes |->
          IF o = Leader(b) THEN Rounded(b, o) + drift ELSE Rounded(b, o)]
  <2> DEFINE rounded == [o \in Outcomes |-> HalfUp(10000 * OnOutcome(b, o), Pool(b))]
  <2>1. Stake(rounded) = Rounded(b, "BUY") + Rounded(b, "SELL") + Rounded(b, "HOLD")
    BY SMT DEF Stake, Outcomes, Rounded
  <2>2. Probabilities(b) = [rounded EXCEPT ![Leader(b)] = @ + (10000 - Stake(rounded))]
    BY SMT DEF Probabilities
  <2>3. rounded = [o \in Outcomes |-> Rounded(b, o)]
    BY SMT DEF Rounded
  <2> HIDE DEF rounded
  <2>. QED BY <2>1, <2>2, <2>3, SMT
<1>5. Rounded(b, "BUY") + Rounded(b, "SELL") + Rounded(b, "HOLD") + drift = 10000
  BY <1>2, SMT DEF Outcomes
<1> HIDE DEF drift
<1>. QED BY <1>2, <1>3, <1>4, <1>5, SMT DEF pool, on

\* The published probabilities add up to 1, however many members bet and however
\* much, and none is further than a unit and a half from its share of the stakes.
THEOREM ProbabilitiesTheorem == Spec => []ProbabilitiesAddUp
<1>1. ASSUME IsBook(book), Pool(book) > 0
      PROVE  /\ Stake(Probabilities(book)) = 10000
             /\ \A o \in Outcomes :
                    LET error == Probabilities(book)[o] * Pool(book) - 10000 * OnOutcome(book, o)
                    IN  2 * error <= 3 * Pool(book) /\ -2 * error <= 3 * Pool(book)
  <2> DEFINE pool == Pool(book)
  <2>1. PICK drift \in {-1, 0, 1} :
            /\ Rounded(book, "BUY") + Rounded(book, "SELL") + Rounded(book, "HOLD") + drift = 10000
            /\ Probabilities(book) = [o \in Outcomes |->
                   IF o = Leader(book) THEN Rounded(book, o) + drift ELSE Rounded(book, o)]
            /\ \A o \in Outcomes :
                   /\ Rounded(book, o) \in Int
                   /\ 2 * (pool * Rounded(book, o)) <= 20000 * OnOutcome(book, o) + pool
                   /\ 2 * (pool * Rounded(book, o)) >= 20000 * OnOutcome(book, o) - pool
    BY <1>1, DriftIsSmall, SMT
  <2>2. Leader(book) \in Outcomes
    BY <1>1, LeaderLeads
  <2>3. Stake(Probabilities(book)) = 10000
    BY <2>1, <2>2, SMT DEF Stake, Outcomes
  <2>4. pool \in Nat \ {0} /\ \A o \in Outcomes : OnOutcome(book, o) \in Nat
    BY <1>1, PoolOfOutcomes
  <2> HIDE DEF pool
  <2>5. ASSUME NEW o \in Outcomes
        PROVE  LET error == Probabilities(book)[o] * pool - 10000 * OnOutcome(book, o)
               IN  2 * error <= 3 * pool /\ -2 * error <= 3 * pool
    <3> DEFINE p == Probabilities(book)[o]
               e == p * pool
               r == pool * Rounded(book, o)
               on == OnOutcome(book, o)
    <3>1. PICK d \in {-1, 0, 1} : p = Rounded(book, o) + d
      BY <2>1, SMT
    <3>2. /\ Rounded(book, o) \in Int /\ on \in Nat
          /\ 2 * r <= 20000 * on + pool /\ 2 * r >= 20000 * on - pool
      BY <2>1, <2>4, SMT
    <3> HIDE DEF p, on
    <3>3. e = r + d * pool /\ r \in Int
      BY <2>4, <3>1, <3>2, SMT
    <3> HIDE DEF e, r
    <3>4. 2 * (e - 10000 * on) <= 3 * pool /\ -2 * (e - 10000 * on) <= 3 * pool
      BY <2>4, <3>1, <3>2, <3>3, SMT
    <3>. QED BY <3>4, SMT DEF e, p, on
  <2>. QED BY <2>3, <2>5, SMT DEF pool
<1>2. InputInv => ProbabilitiesAddUp
  BY <1>1, BooksAreBooks, SMT DEF ProbabilitiesAddUp
<1>. QED BY <1>2, InputHolds, PTL

\* The outcome that decides the trade has the most stakes and is shown at most one
\* unit behind any other.
THEOREM LeaderTheorem == Spec => []LeaderKeepsTheLead
<1>1. ASSUME IsBook(book), Pool(book) > 0, NEW o \in Outcomes
      PROVE  Probabilities(book)[Leader(book)] >= Probabilities(book)[o] - 1
  <2> DEFINE l == Leader(book)
  <2>1. PICK drift \in {-1, 0, 1} :
            /\ Probabilities(book) = [q \in Outcomes |->
                   IF q = l THEN Rounded(book, q) + drift ELSE Rounded(book, q)]
            /\ \A q \in Outcomes : Rounded(book, q) \in Int
    BY <1>1, DriftIsSmall, SMT
  <2>2. l \in Outcomes /\ OnOutcome(book, l) >= OnOutcome(book, o)
    BY <1>1, LeaderLeads
  <2> HIDE DEF l
  <2>3. Rounded(book, l) >= Rounded(book, o)
    <3> DEFINE a == 10000 * OnOutcome(book, o)
               b == 10000 * OnOutcome(book, l)
    <3>1. a \in Int /\ b \in Int /\ a <= b /\ Pool(book) \in Nat \ {0}
      BY <1>1, <2>2, PoolOfOutcomes, SMT
    <3>2. Rounded(book, o) = HalfUp(a, Pool(book)) /\ Rounded(book, l) = HalfUp(b, Pool(book))
      BY SMT DEF Rounded
    <3> HIDE DEF a, b
    <3>3. HalfUp(a, Pool(book)) <= HalfUp(b, Pool(book))
      BY <3>1, HalfUpIsMonotone
    <3>. QED BY <3>2, <3>3, <2>1, <2>2
  <2>. QED BY <2>1, <2>2, <2>3, SMT DEF l
<1>2. ASSUME IsBook(book) PROVE LeaderKeepsTheLead
  <2>1. CASE Pool(book) > 0
    <3>1. ConsensusOf(book).leader = Leader(book)
          /\ ConsensusOf(book).probability = Probabilities(book)[Leader(book)]
      BY <2>1 DEF ConsensusOf
    <3>2. \A o \in Outcomes : OnOutcome(book, Leader(book)) >= OnOutcome(book, o)
      BY <1>2, LeaderLeads
    <3>. QED BY <1>1, <1>2, <2>1, <3>1, <3>2 DEF LeaderKeepsTheLead
  <2>2. CASE ~(Pool(book) > 0)
    BY <2>2 DEF ConsensusOf, LeaderKeepsTheLead
  <2>. QED BY <2>1, <2>2
<1>. QED BY <1>2, BooksAreBooks, InputHolds, PTL

\* The leader is shown with a share of the stakes, never less than one unit: what
\* the columns and the execution threshold are given is a consensus of the kind
\* AlgorithmsAssumption of MarketLifecycle asks for.
LEMMA ConsensusIsTyped ==
    ASSUME NEW b, IsBook(b)
    PROVE  ConsensusOf(b) \in
               [total : Nat, participants : Nat, leader : Outcomes \cup {None}, probability : Nat]
<1>1. Pool(b) \in Nat
  BY PoolOfOutcomes
<1>2. Cardinality(Bettors(b)) \in Nat
  <2>1. IsFiniteSet(Bettors(b))
    BY ConsensusAssumption, FS_Subset DEF Bettors
  <2>. QED BY <2>1, FS_CardinalityType
<1>3. Leader(b) \in Outcomes
  BY LeaderLeads
<1>4. CASE Pool(b) > 0
  <2> DEFINE l == Leader(b)
             share == Rounded(b, l)
             pool == Pool(b)
             most == OnOutcome(b, l)
             shown == pool * share
  <2>1. PICK drift \in {-1, 0, 1} :
            /\ Probabilities(b) = [o \in Outcomes |->
                   IF o = l THEN Rounded(b, o) + drift ELSE Rounded(b, o)]
            /\ share \in Int
            /\ 2 * shown >= 20000 * most - pool
    BY <1>3, <1>4, DriftIsSmall, SMT
  <2>2. most \in Nat /\ 3 * most >= pool
    <3>1. "BUY" \in Outcomes /\ "SELL" \in Outcomes /\ "HOLD" \in Outcomes
      BY DEF Outcomes
    <3>. QED BY <3>1, <1>3, PoolOfOutcomes, LeaderLeads
  <2>3. Probabilities(b)[l] = share + drift
    BY <1>3, <2>1
  <2> HIDE DEF l, share, pool, most
  <2>4. share > 0
    <3> SUFFICES ASSUME ~(share > 0) PROVE FALSE
      OBVIOUS
    <3>1. pool \in Nat /\ pool > 0
      BY <1>1, <1>4 DEF pool
    <3>2. shown <= 0 /\ shown \in Int
      BY <2>1, <3>1, SMT
    <3> HIDE DEF shown
    <3>. QED BY <2>1, <2>2, <3>1, <3>2, SMT
  <2>5. Probabilities(b)[l] \in Nat
    BY <2>1, <2>3, <2>4, SMT
  <2>. QED BY <1>1, <1>2, <1>3, <1>4, <2>5 DEF ConsensusOf, l
<1>5. CASE ~(Pool(b) > 0)
  BY <1>1, <1>2, <1>5 DEF ConsensusOf
<1>. QED BY <1>4, <1>5

-----------------------------------------------------------------------------
(* The Brier score                                                           *)

\* The squares that are added, in terms of what lies on the two wrong outcomes.
Misses(u, v) == Square(u + v) + (Square(u) + Square(v))

\* They are at most twice the square of the total, and a cent less on a wrong
\* outcome takes at least 2 off.
LEMMA MissesBounds ==
    ASSUME NEW u \in Nat, NEW v \in Nat, NEW t \in Nat, u + v <= t
    PROVE  /\ Misses(u, v) \in Nat /\ Square(t) \in Nat
           /\ Misses(u, v) = Misses(v, u)
           /\ Misses(u, v) <= 2 * Square(t)
           /\ u = t => Misses(u, v) = 2 * Square(t)
           /\ u > 0 => Misses(u - 1, v) <= Misses(u, v) - 2
<1>1. ASSUME NEW x \in Nat, NEW y \in Nat, x <= y PROVE Square(x) <= Square(y)
  <2>1. x * x <= x * y /\ x * y <= y * y
    BY <1>1
  <2> DEFINE a == x * x
             b == x * y
             c == y * y
  <2>2. a \in Nat /\ b \in Nat /\ c \in Nat /\ a <= b /\ b <= c
    BY <2>1
  <2> HIDE DEF a, b, c
  <2>3. a <= c
    BY <2>2
  <2>. QED BY <2>3 DEF a, c, Square
<1>2. \A x \in Nat : Square(x) \in Nat
  BY DEF Square
<1>3. Square(u + v) = Square(u) + Square(v) + 2 * (u * v) /\ u * v \in Nat
  BY DEF Square
<1>4. Square(u + v) <= Square(t)
  BY <1>1
<1>5. u = t => v = 0 /\ Square(u + v) = Square(t) /\ Square(u) = Square(t) /\ Square(v) = 0
  <2> SUFFICES ASSUME u = t PROVE v = 0 /\ Square(u + v) = Square(t) /\ Square(u) = Square(t) /\ Square(v) = 0
    OBVIOUS
  <2>1. v = 0
    OBVIOUS
  <2>. QED BY <2>1 DEF Square
<1>6. \A x \in Nat : x > 0 => Square(x - 1) = Square(x) - 2 * x + 1
  BY DEF Square
<1>7. u > 0 => Misses(u - 1, v) <= Misses(u, v) - 2
  <2> SUFFICES ASSUME u > 0 PROVE Misses(u - 1, v) <= Misses(u, v) - 2
    OBVIOUS
  <2>1. Square(u - 1) = Square(u) - 2 * u + 1 /\ Square(u + v - 1) = Square(u + v) - 2 * (u + v) + 1
    BY <1>6
  <2>2. (u - 1) + v = u + v - 1
    OBVIOUS
  <2>3. Square(u) \in Nat /\ Square(v) \in Nat /\ Square(u + v) \in Nat
    BY <1>2
  <2>. QED BY <2>1, <2>2, <2>3 DEF Misses
<1>8. u + v = v + u
  OBVIOUS
<1>9. Square(u) \in Nat /\ Square(v) \in Nat /\ Square(u + v) \in Nat /\ Square(t) \in Nat
  BY <1>2
<1>. QED BY <1>3, <1>4, <1>5, <1>7, <1>8, <1>9 DEF Misses

\* A score is those squares over the square of the total.
LEMMA BrierIsMisses ==
    ASSUME NEW a \in [Outcomes -> Nat], NEW w \in Outcomes, NEW p \in Outcomes \ {w},
           NEW q \in Outcomes \ {w}, p # q
    PROVE  /\ Stake(a) = a[w] + a[p] + a[q] /\ Stake(a) \in Nat
           /\ BrierScore(a, w) = HalfUp(1000000 * Misses(a[p], a[q]), Square(Stake(a)))
<1>1. a["BUY"] \in Nat /\ a["SELL"] \in Nat /\ a["HOLD"] \in Nat
  BY DEF Outcomes
<1>2. Stake(a) = a[w] + a[p] + a[q] /\ Stake(a) \in Nat
  BY <1>1 DEF Stake, Outcomes
<1> DEFINE total == Stake(a)
           miss(o) == IF o = w THEN total - a[o] ELSE a[o]
           squares == [o \in Outcomes |-> Square(miss(o))]
<1>3. BrierScore(a, w) = HalfUp(1000000 * Stake(squares), Square(Stake(a)))
  BY SMT DEF BrierScore
<1>4. miss(w) = a[p] + a[q] /\ miss(p) = a[p] /\ miss(q) = a[q]
  BY <1>1, <1>2
<1>5. squares[w] = Square(a[p] + a[q]) /\ squares[p] = Square(a[p]) /\ squares[q] = Square(a[q])
  <2> HIDE DEF miss
  <2>. QED BY <1>4
<1>6. \A o \in Outcomes : squares[o] \in Int
  <2>1. \A o \in Outcomes : miss(o) \in Int
    BY <1>1, <1>2 DEF Outcomes
  <2> HIDE DEF miss
  <2>. QED BY <2>1 DEF Square
<1> HIDE DEF squares
<1>7. Stake(squares) = squares[w] + (squares[p] + squares[q])
  BY <1>6 DEF Stake, Outcomes
<1>. QED BY <1>2, <1>3, <1>5, <1>7, SMT DEF Misses

\* What BrierRewardsTheWinner says of one allocation, one winner and one wrong outcome.
Rewards(a, w, o) ==
    /\ BrierScore(a, w) \in 0..Worst
    /\ a[w] = Stake(a) => BrierScore(a, w) = 0
    /\ a[o] = Stake(a) => BrierScore(a, w) = Worst
    /\ a[o] > 0 =>
           /\ BrierScore(Moved(a, o, w), w) <= BrierScore(a, w)
           /\ Square(Stake(a)) <= Worst => BrierScore(Moved(a, o, w), w) < BrierScore(a, w)

\* It holds of every allocation.
LEMMA ScoreOfOne ==
    ASSUME NEW a \in [Outcomes -> Nat], Stake(a) > 0, NEW w \in Outcomes, NEW o \in Outcomes \ {w}
    PROVE  Rewards(a, w, o)
<1>1. PICK r \in Outcomes \ {w} : o # r
  BY DEF Outcomes
<1> DEFINE u == a[o]
           v == a[r]
           t == Stake(a)
           X == Misses(u, v)
           T == Square(t)
<1>2. u \in Nat /\ v \in Nat /\ a[w] \in Nat /\ t \in Nat /\ t > 0 /\ t = a[w] + u + v
  BY <1>1, BrierIsMisses
<1>3. /\ X \in Nat /\ T \in Nat /\ X <= 2 * T
      /\ u = t => X = 2 * T
      /\ u > 0 => Misses(u - 1, v) <= X - 2
  <2> HIDE DEF u, v, t
  <2>1. u + v <= t
    BY <1>2
  <2>. QED BY <1>2, <2>1, MissesBounds
<1>4. T > 0
  <2> HIDE DEF t
  <2>. QED BY <1>2 DEF Square
<1>5. BrierScore(a, w) = HalfUp(1000000 * X, T)
  BY <1>1, BrierIsMisses, SMT
<1>6. a[w] = t => X = 0
  <2> SUFFICES ASSUME a[w] = t PROVE X = 0
    OBVIOUS
  <2>1. u = 0 /\ v = 0
    BY <1>2
  <2> HIDE DEF u, v
  <2>. QED BY <2>1 DEF Misses, Square
<1> HIDE DEF X, T
<1> DEFINE n == 1000000 * X
<1>7. n \in Nat /\ n <= 2000000 * T /\ n >= 0 * T /\ (X = 0 => n <= 0 * T) /\ (X = 2 * T => n >= 2000000 * T)
  BY <1>3, SMT
<1>8. /\ HalfUp(n, T) \in Int /\ HalfUp(n, T) <= 2000000 /\ HalfUp(n, T) >= 0
      /\ X = 0 => HalfUp(n, T) <= 0
      /\ X = 2 * T => HalfUp(n, T) >= 2000000
  <2>1. n \in Int /\ T \in Nat \ {0} /\ 2000000 \in Int /\ 0 \in Int
    BY <1>3, <1>4, <1>7, SMT
  <2>2. \A k \in Int : (n <= k * T => HalfUp(n, T) <= k) /\ (n >= k * T => HalfUp(n, T) >= k)
    <3> HIDE DEF n
    <3>. QED BY <2>1, HalfUpStops
  <2>3. HalfUp(n, T) \in Int
    <3> HIDE DEF n
    <3>. QED BY <2>1, HalfUpBounds
  <2> HIDE DEF n
  <2>. QED BY <1>7, <2>1, <2>2, <2>3, SMT
<1>9. ASSUME u > 0
      PROVE  /\ BrierScore(Moved(a, o, w), w) <= HalfUp(n, T)
             /\ T <= 2000000 => BrierScore(Moved(a, o, w), w) < HalfUp(n, T)
  <2> DEFINE b == Moved(a, o, w)
             Y == Misses(u - 1, v)
             m == 1000000 * Y
  <2>1. b \in [Outcomes -> Nat] /\ b[o] = u - 1 /\ b[r] = v /\ b[w] = a[w] + 1
    BY <1>1, <1>2, <1>9 DEF Moved
  <2> HIDE DEF b
  <2>2. Stake(b) = t
    <3>1. Stake(b) = b[w] + b[o] + b[r]
      BY <1>1, <2>1, BrierIsMisses
    <3> HIDE DEF t, u, v
    <3>. QED BY <1>2, <2>1, <3>1
  <2>3. BrierScore(b, w) = HalfUp(m, T)
    BY <1>1, <2>1, <2>2, BrierIsMisses, SMT DEF T
  <2>4. Y \in Nat /\ Y <= X - 2
    <3>1. u - 1 \in Nat /\ v \in Nat /\ t \in Nat /\ (u - 1) + v <= t
      BY <1>2, <1>9
    <3> HIDE DEF u, v, t
    <3>2. Y \in Nat
      BY <3>1, MissesBounds
    <3>. QED BY <1>3, <1>9, <3>2
  <2> HIDE DEF Y
  <2>5. m \in Nat /\ m <= n /\ (T <= 2000000 => m + T <= n)
    BY <1>3, <2>4, SMT
  <2> HIDE DEF m, n
  <2>6. n \in Nat /\ T \in Nat \ {0}
    BY <1>3, <1>4, <1>7
  <2>7. HalfUp(m, T) <= HalfUp(n, T)
    BY <2>5, <2>6, HalfUpIsMonotone
  <2>8. T <= 2000000 => HalfUp(m, T) < HalfUp(n, T)
    <3> SUFFICES ASSUME T <= 2000000 PROVE HalfUp(m, T) < HalfUp(n, T)
      BY SMT
    <3>1. m + T <= n
      BY <2>5, SMT
    <3>. QED BY <2>5, <2>6, <3>1, HalfUpDrops
  <2>. QED BY <2>3, <2>7, <2>8, SMT DEF b
<1> HIDE DEF n
<1>10. BrierScore(a, w) = HalfUp(n, T)
  BY <1>5, SMT DEF n
<1>11. a[w] = Stake(a) => X = 0
  BY <1>6
<1>12. a[o] = Stake(a) => X = 2 * T
  BY <1>3
<1>13. a[o] > 0 =>
          /\ BrierScore(Moved(a, o, w), w) <= HalfUp(n, T)
          /\ Square(Stake(a)) <= 2000000 => BrierScore(Moved(a, o, w), w) < HalfUp(n, T)
  BY <1>9, SMT DEF T
<1>14. BrierScore(a, w) \in 0..Worst
  <2>1. Worst \in Int /\ BrierScore(a, w) \in Int /\ BrierScore(a, w) <= Worst /\ BrierScore(a, w) >= 0
    BY <1>8, <1>10, SMT DEF Worst
  <2>. QED BY <2>1, SMT
<1>15. a[w] = Stake(a) => BrierScore(a, w) = 0
  <2> HIDE DEF t, u, v
  <2>. QED BY <1>8, <1>10, <1>11, SMT
<1>16. a[o] = Stake(a) => BrierScore(a, w) = Worst
  <2> HIDE DEF t, u, v
  <2>. QED BY <1>8, <1>10, <1>12, SMT DEF Worst
<1>17. a[o] > 0 =>
           /\ BrierScore(Moved(a, o, w), w) <= BrierScore(a, w)
           /\ Square(Stake(a)) <= Worst => BrierScore(Moved(a, o, w), w) < BrierScore(a, w)
  BY <1>10, <1>13, SMT DEF Worst
<1>. QED BY <1>14, <1>15, <1>16, <1>17, Zenon DEF Rewards

\* With the largest stake on the winner the squares are at most two thirds of the
\* total's, with as much on a wrong outcome at least a half.
LEMMA MissesTellHits ==
    ASSUME NEW s \in Nat, NEW u \in Nat, NEW v \in Nat
    PROVE  /\ u <= s /\ v <= s => 3 * Misses(u, v) <= 2 * Square(s + u + v)
           /\ u >= s => 2 * Misses(u, v) >= Square(s + u + v)
<1> DEFINE ss == s * s
           uu == u * u
           vv == v * v
           su == s * u
           sv == s * v
           uv == u * v
<1>1. ss \in Nat /\ uu \in Nat /\ vv \in Nat /\ su \in Nat /\ sv \in Nat /\ uv \in Nat
  OBVIOUS
<1>2. Misses(u, v) = 2 * uu + 2 * vv + 2 * uv
  BY DEF Misses, Square
<1>3. Square(s + u + v) = ss + uu + vv + 2 * su + 2 * sv + 2 * uv
  BY DEF Square
<1>4. u <= s /\ v <= s => su >= uu /\ sv >= vv /\ ss >= uv
  <2> SUFFICES ASSUME u <= s, v <= s PROVE su >= uu /\ sv >= vv /\ ss >= uv
    OBVIOUS
  <2>1. s * u >= u * u /\ s * v >= v * v /\ s * s >= s * v /\ s * v >= u * v
    OBVIOUS
  <2> HIDE DEF ss, uu, vv, su, sv, uv
  <2>. QED BY <1>1, <2>1 DEF ss, uu, vv, su, sv, uv
<1>5. u >= s => ss <= uu /\ su <= uu /\ sv <= uv
  <2> SUFFICES ASSUME u >= s PROVE ss <= uu /\ su <= uu /\ sv <= uv
    OBVIOUS
  <2>1. s * s <= s * u /\ s * u <= u * u /\ s * v <= u * v
    OBVIOUS
  <2> HIDE DEF ss, uu, vv, su, sv, uv
  <2>. QED BY <1>1, <2>1 DEF ss, uu, vv, su, sv, uv
<1> HIDE DEF ss, uu, vv, su, sv, uv
<1>. QED BY <1>1, <1>2, <1>3, <1>4, <1>5

\* The score tells a hit from a miss, as ScoreAssumption of Scoring asks.
LEMMA ScoreTellsHits ==
    ASSUME NEW a \in [Outcomes -> Nat], Stake(a) > 0, NEW w \in Outcomes
    PROVE  /\ BrierScore(a, w) \in Nat
           /\ BrierScore(a, w) <= 2000000
           /\ (\A o \in Outcomes : a[o] <= a[w]) => 3 * BrierScore(a, w) <= 2000001
           /\ (\E o \in Outcomes \ {w} : a[o] >= a[w]) => BrierScore(a, w) >= 500000
<1> DEFINE s == a[w]
           t == Stake(a)
           T == Square(t)
<1>1. ASSUME NEW p \in Outcomes \ {w}, NEW q \in Outcomes \ {w}, p # q
      PROVE  /\ BrierScore(a, w) \in Nat
             /\ BrierScore(a, w) <= 2000000
             /\ a[p] <= s /\ a[q] <= s => 3 * BrierScore(a, w) <= 2000001
             /\ a[p] >= s => BrierScore(a, w) >= 500000
  <2> DEFINE u == a[p]
             v == a[q]
             X == Misses(u, v)
             n == 1000000 * X
             score == HalfUp(n, T)
  <2>1. u \in Nat /\ v \in Nat /\ s \in Nat /\ t \in Nat /\ t > 0 /\ t = s + u + v
    BY <1>1, BrierIsMisses
  <2>2. BrierScore(a, w) = score
    BY <1>1, BrierIsMisses, SMT
  <2> HIDE DEF u, v, s, t
  <2>3. /\ X \in Nat /\ T \in Nat /\ X <= 2 * T
        /\ u <= s /\ v <= s => 3 * X <= 2 * T
        /\ u >= s => 2 * X >= T
    <3>1. u + v <= t
      BY <2>1
    <3>. QED BY <2>1, <3>1, MissesBounds, MissesTellHits
  <2>4. T > 0
    BY <2>1 DEF Square
  <2> HIDE DEF X, T
  <2>5. /\ n \in Int /\ n >= 0 * T /\ n <= 2000000 * T
        /\ u <= s /\ v <= s => n <= 666667 * T
        /\ u >= s => n >= 500000 * T
    BY <2>3, SMT
  <2>6. score \in Int /\ \A k \in Int : (n <= k * T => score <= k) /\ (n >= k * T => score >= k)
    <3>1. n \in Int /\ T \in Nat \ {0}
      BY <2>3, <2>4, <2>5, SMT
    <3> HIDE DEF n
    <3>. QED BY <3>1, HalfUpStops, HalfUpBounds
  <2> HIDE DEF n, score
  <2>7. /\ score >= 0 /\ score <= 2000000
        /\ u <= s /\ v <= s => score <= 666667
        /\ u >= s => score >= 500000
    BY <2>5, <2>6, SMT
  <2>. QED BY <2>2, <2>6, <2>7, SMT DEF u, v
<1>2. PICK p \in Outcomes \ {w}, q \in Outcomes \ {w} : p # q /\ Outcomes = {w, p, q}
  BY DEF Outcomes
<1>3. BrierScore(a, w) \in Nat /\ BrierScore(a, w) <= 2000000
      /\ (a[p] <= s /\ a[q] <= s => 3 * BrierScore(a, w) <= 2000001)
      /\ (a[p] >= s => BrierScore(a, w) >= 500000)
  BY <1>1, <1>2, SMT
<1>4. a[q] >= s => BrierScore(a, w) >= 500000
  BY <1>1, <1>2, SMT
<1>. QED BY <1>2, <1>3, <1>4, SMT

\* The score never rewards a cent on a wrong outcome, however the stakes are split.
THEOREM BrierTheorem == Spec => []BrierRewardsTheWinner
<1>1. ASSUME IsBook(book) PROVE BrierRewardsTheWinner
  <2> SUFFICES ASSUME NEW m \in Bettors(book), NEW w \in Outcomes
               PROVE  LET score == BrierScore(book[m], w)
                      IN  /\ score \in 0..Worst
                          /\ book[m][w] = Stake(book[m]) => score = 0
                          /\ \A o \in Outcomes \ {w} :
                                 /\ book[m][o] = Stake(book[m]) => score = Worst
                                 /\ book[m][o] > 0 =>
                                        /\ BrierScore(Moved(book[m], o, w), w) <= score
                                        /\ Square(Stake(book[m])) <= Worst =>
                                               BrierScore(Moved(book[m], o, w), w) < score
    BY Zenon DEF BrierRewardsTheWinner
  <2>1. book[m] \in [Outcomes -> Nat] /\ Stake(book[m]) > 0
    BY <1>1 DEF IsBook, Bettors
  <2>2. \A o \in Outcomes \ {w} : Rewards(book[m], w, o)
    BY <2>1, ScoreOfOne
  <2>3. PICK o \in Outcomes : o # w
    BY DEF Outcomes
  <2>4. Rewards(book[m], w, o)
    BY <2>2, <2>3
  <2>5. BrierScore(book[m], w) \in 0..Worst /\ (book[m][w] = Stake(book[m]) => BrierScore(book[m], w) = 0)
    BY <2>4, Zenon DEF Rewards
  <2>6. ASSUME NEW p \in Outcomes \ {w}
        PROVE  /\ book[m][p] = Stake(book[m]) => BrierScore(book[m], w) = Worst
               /\ book[m][p] > 0 =>
                      /\ BrierScore(Moved(book[m], p, w), w) <= BrierScore(book[m], w)
                      /\ Square(Stake(book[m])) <= Worst =>
                             BrierScore(Moved(book[m], p, w), w) < BrierScore(book[m], w)
    BY <2>2, Zenon DEF Rewards
  <2>. QED BY <2>5, <2>6, Zenon
<1>. QED BY <1>1, BooksAreBooks, InputHolds, PTL

-----------------------------------------------------------------------------
(* Powers of ten                                                             *)

\* What the powers up to the n-th are.
ArePowers(f, n) == f = [i \in 0..n |-> IF i = 0 THEN 1 ELSE 10 * f[i - 1]]

\* The recursion has a solution up to every number, and one only.
LEMMA PowersExist ==
    ASSUME NEW n \in Nat
    PROVE  \E f : ArePowers(f, n)
<1> DEFINE Good == {i \in Nat : \E f : ArePowers(f, i)}
<1>1. 0 \in Good
  <2>1. ArePowers([i \in 0..0 |-> 1], 0)
    BY DEF ArePowers
  <2>. QED BY <2>1
<1>2. ASSUME NEW i \in Nat, i \in Good PROVE i + 1 \in Good
  <2>1. PICK f : ArePowers(f, i)
    BY <1>2
  <2>2. PICK g : g = [j \in 0..i + 1 |-> IF j = 0 THEN 1 ELSE 10 * f[j - 1]]
    OBVIOUS
  <2>3. \A j \in 0..i : g[j] = f[j]
    BY <2>1, <2>2 DEF ArePowers
  <2>4. \A j \in 0..i + 1 : j # 0 => j - 1 \in 0..i
    OBVIOUS
  <2>5. ArePowers(g, i + 1)
    BY <2>2, <2>3, <2>4 DEF ArePowers
  <2>. QED BY <2>5
<1>3. n \in Good
  <2> HIDE DEF Good
  <2>. QED BY <1>1, <1>2, UpwardInduction
<1>. QED BY <1>3

\* Solutions agree where both are defined.
LEMMA PowersAgree ==
    ASSUME NEW n \in Nat, NEW k \in Nat, NEW f, NEW g, ArePowers(f, n), ArePowers(g, k)
    PROVE  \A i \in Nat : i <= n /\ i <= k => f[i] = g[i]
<1> DEFINE Good == {i \in Nat : i <= n /\ i <= k => f[i] = g[i]}
<1>1. 0 \in Good
  BY DEF ArePowers
<1>2. ASSUME NEW i \in Nat, i \in Good PROVE i + 1 \in Good
  <2> SUFFICES ASSUME i + 1 <= n, i + 1 <= k PROVE f[i + 1] = g[i + 1]
    OBVIOUS
  <2>1. i + 1 \in 0..n /\ i + 1 \in 0..k /\ i + 1 # 0 /\ (i + 1) - 1 = i
    OBVIOUS
  <2>2. f[i + 1] = 10 * f[i] /\ g[i + 1] = 10 * g[i]
    BY <2>1 DEF ArePowers
  <2>3. f[i] = g[i]
    BY <1>2
  <2>. QED BY <2>2, <2>3
<1>3. ASSUME NEW i \in Nat PROVE i \in Good
  <2> HIDE DEF Good
  <2>. QED BY <1>1, <1>2, UpwardInduction
<1>. QED BY <1>3

\* TenTo is that recursion's solution for all numbers.
LEMMA TenToRecursion ==
    TenTo = [n \in Nat |-> IF n = 0 THEN 1 ELSE 10 * TenTo[n - 1]]
<1> DEFINE upto(n) == CHOOSE f : ArePowers(f, n)
           all == [n \in Nat |-> upto(n)[n]]
<1>1. \A n \in Nat : ArePowers(upto(n), n)
  BY PowersExist
<1> HIDE DEF upto
<1>2. all = [n \in Nat |-> IF n = 0 THEN 1 ELSE 10 * all[n - 1]]
  <2> SUFFICES ASSUME NEW n \in Nat PROVE all[n] = IF n = 0 THEN 1 ELSE 10 * all[n - 1]
    OBVIOUS
  <2>1. upto(n)[n] = IF n = 0 THEN 1 ELSE 10 * upto(n)[n - 1]
    BY <1>1 DEF ArePowers
  <2>2. n # 0 => upto(n)[n - 1] = upto(n - 1)[n - 1]
    <3> SUFFICES ASSUME n # 0 PROVE upto(n)[n - 1] = upto(n - 1)[n - 1]
      OBVIOUS
    <3>1. n - 1 \in Nat /\ n - 1 <= n
      OBVIOUS
    <3>. QED BY <1>1, <3>1, PowersAgree
  <2>. QED BY <2>1, <2>2
<1> HIDE DEF all
<1>3. \E f : f = [n \in Nat |-> IF n = 0 THEN 1 ELSE 10 * f[n - 1]]
  BY <1>2
<1>. QED BY <1>3 DEF TenTo

\* Powers of ten are positive and multiply as they should.
LEMMA PowersOfTen ==
    /\ TenTo[0] = 1
    /\ \A n \in Nat : TenTo[n] \in Nat /\ TenTo[n] > 0 /\ TenTo[n + 1] = 10 * TenTo[n]
<1>1. TenTo[0] = 1
  BY TenToRecursion
<1>2. \A n \in Nat : TenTo[n + 1] = 10 * TenTo[n]
  <2> SUFFICES ASSUME NEW n \in Nat PROVE TenTo[n + 1] = 10 * TenTo[n]
    OBVIOUS
  <2>1. n + 1 \in Nat /\ n + 1 # 0 /\ (n + 1) - 1 = n
    OBVIOUS
  <2>. QED BY <2>1, TenToRecursion
<1> DEFINE Good == {n \in Nat : TenTo[n] \in Nat /\ TenTo[n] > 0}
<1>3. 0 \in Good
  BY <1>1
<1>4. ASSUME NEW n \in Nat, n \in Good PROVE n + 1 \in Good
  BY <1>2, <1>4
<1>5. ASSUME NEW n \in Nat PROVE n \in Good
  <2> HIDE DEF Good
  <2>. QED BY <1>3, <1>4, UpwardInduction
<1>. QED BY <1>1, <1>2, <1>5

\* The powers of a sum are products.
LEMMA PowersMultiply ==
    ASSUME NEW m \in Nat
    PROVE  \A n \in Nat : TenTo[m + n] = TenTo[m] * TenTo[n]
<1> DEFINE Good == {n \in Nat : TenTo[m + n] = TenTo[m] * TenTo[n]}
<1>1. 0 \in Good
  BY PowersOfTen
<1>2. ASSUME NEW n \in Nat, n \in Good PROVE n + 1 \in Good
  <2>1. m + (n + 1) = (m + n) + 1 /\ m + n \in Nat
    OBVIOUS
  <2>2. TenTo[m + (n + 1)] = 10 * TenTo[m + n] /\ TenTo[n + 1] = 10 * TenTo[n]
    BY <2>1, PowersOfTen
  <2>3. TenTo[m] \in Nat /\ TenTo[n] \in Nat
    BY PowersOfTen
  <2>4. TenTo[m + n] = TenTo[m] * TenTo[n]
    BY <1>2
  <2>5. TenTo[m] * (10 * TenTo[n]) = 10 * (TenTo[m] * TenTo[n])
    BY <2>3
  <2>. QED BY <2>2, <2>4, <2>5
<1>3. ASSUME NEW n \in Nat PROVE n \in Good
  <2> HIDE DEF Good
  <2>. QED BY <1>1, <1>2, UpwardInduction
<1>. QED BY <1>3

-----------------------------------------------------------------------------
(* A share                                                                   *)

\* There is a scale at which a quotient has the precision's digits.
LEMMA ScaleExists ==
    ASSUME NEW n \in Nat \ {0}, NEW d \in Nat, n <= d, d <= TenTo[Precision]
    PROVE  /\ ScaleOf(n, d) \in Nat
           /\ TenTo[Precision - 1] * d <= n * TenTo[ScaleOf(n, d)]
           /\ n * TenTo[ScaleOf(n, d)] < TenTo[Precision] * d
<1> DEFINE P == Precision
           low == TenTo[P - 1] * d
           high == TenTo[P] * d
<1>1. P \in Nat /\ P - 1 \in Nat /\ P + P \in Nat /\ 3 * P \in Nat /\ (P - 1) + 1 = P /\ P + (P + P) = 3 * P
  BY ConsensusAssumption
<1>2. low \in Nat /\ high = 10 * low /\ TenTo[P] \in Nat /\ TenTo[P - 1] \in Nat /\ TenTo[P] = 10 * TenTo[P - 1]
  <2>1. TenTo[P] \in Nat /\ TenTo[P - 1] \in Nat /\ TenTo[P] = 10 * TenTo[P - 1]
    BY <1>1, PowersOfTen
  <2> HIDE DEF P
  <2>. QED BY <2>1
<1> HIDE DEF low, high, P
<1>3. \E s \in 0..3 * P : low <= n * TenTo[s] /\ n * TenTo[s] < high
  <2> SUFFICES ASSUME \A s \in 0..3 * P : ~(low <= n * TenTo[s] /\ n * TenTo[s] < high)
               PROVE  FALSE
    OBVIOUS
  <2> DEFINE Good == {s \in Nat : s <= 3 * P => n * TenTo[s] < low}
  <2>1. 0 \in Good
    <3>1. n * TenTo[0] = n
      BY PowersOfTen
    <3>2. n < high
      <4>1. TenTo[P - 1] >= 1
        BY <1>1, PowersOfTen
      <4>2. TenTo[P - 1] * d >= 1 * d
        BY <1>2, <4>1
      <4>. QED BY <1>2, <4>2 DEF low
    <3>3. 0 \in 0..3 * P
      BY <1>1
    <3>. QED BY <1>2, <3>1, <3>2, <3>3
  <2>2. ASSUME NEW s \in Nat, s \in Good PROVE s + 1 \in Good
    <3> SUFFICES ASSUME s + 1 <= 3 * P PROVE n * TenTo[s + 1] < low
      OBVIOUS
    <3>1. s + 1 \in 0..3 * P /\ n * TenTo[s] < low
      BY <1>1, <2>2
    <3>2. n * TenTo[s + 1] = 10 * (n * TenTo[s]) /\ n * TenTo[s] \in Nat
      BY PowersOfTen
    <3>3. n * TenTo[s + 1] < high /\ n * TenTo[s + 1] \in Nat
      BY <1>2, <3>1, <3>2
    <3>. QED BY <1>2, <3>1, <3>3
  <2>3. 3 * P \in Good
    <3> HIDE DEF Good
    <3>. QED BY <1>1, <2>1, <2>2, UpwardInduction
  <2>4. n * TenTo[3 * P] >= low
    <3>1. TenTo[3 * P] = TenTo[P] * TenTo[P + P] /\ TenTo[P + P] = TenTo[P] * TenTo[P]
      BY <1>1, PowersMultiply
    <3>2. TenTo[P] >= TenTo[P - 1] /\ TenTo[P] >= 1 /\ TenTo[P - 1] >= 1
      BY <1>1, <1>2, PowersOfTen
    <3> DEFINE x == TenTo[P]
               y == TenTo[P - 1]
    <3>3. x \in Nat /\ y \in Nat /\ x >= y /\ x >= 1 /\ d <= x
      BY <1>2, <3>2 DEF P
    <3>4. TenTo[3 * P] = x * (x * x) /\ low = y * d /\ TenTo[3 * P] \in Nat
      BY <3>1, <1>1, PowersOfTen DEF low
    <3> HIDE DEF x, y
    <3>5. y * d <= x * d /\ x * d <= x * x /\ x * x <= x * (x * x) /\ x * x \in Nat /\ x * d \in Nat /\ y * d \in Nat
      <4>1. y * d <= x * d /\ x * d <= x * x
        BY <3>3
      <4>2. x * x >= 1 * x
        BY <3>3
      <4>3. x * x \in Nat
        BY <3>3
      <4>4. x * (x * x) >= 1 * (x * x)
        BY <3>3, <4>3
      <4>. QED BY <3>3, <4>1, <4>3, <4>4
    <3>6. low <= TenTo[3 * P]
      <4> DEFINE a == y * d
                 b == x * d
                 c == x * x
                 e == x * (x * x)
      <4>1. a \in Nat /\ b \in Nat /\ c \in Nat /\ e \in Nat /\ a <= b /\ b <= c /\ c <= e
        BY <3>3, <3>4, <3>5
      <4> HIDE DEF a, b, c, e
      <4>2. a <= e
        BY <4>1
      <4>. QED BY <3>4, <4>2 DEF a, e
    <3>7. n * TenTo[3 * P] >= 1 * TenTo[3 * P]
      BY <3>4
    <3>. QED BY <1>2, <3>4, <3>6, <3>7
  <2>5. n * TenTo[3 * P] \in Nat
    BY <1>1, PowersOfTen
  <2>. QED BY <1>1, <1>2, <2>3, <2>4, <2>5
<1>4. ScaleOf(n, d) = CHOOSE s \in 0..3 * P : low <= n * TenTo[s] /\ n * TenTo[s] < high
  BY DEF ScaleOf, low, high, P
<1>5. ScaleOf(n, d) \in 0..3 * P /\ low <= n * TenTo[ScaleOf(n, d)] /\ n * TenTo[ScaleOf(n, d)] < high
  BY <1>3, <1>4
<1>6. ScaleOf(n, d) \in Nat
  BY <1>1, <1>5
<1>. QED BY <1>5, <1>6 DEF low, high, P

\* There is a scale by which a number exceeds the precision's digits.
LEMMA ExcessExists ==
    ASSUME NEW n \in Nat, n < TenTo[4 * Precision]
    PROVE  /\ Excess(n) \in Nat
           /\ Excess(n) > 0 => n >= TenTo[Precision + Excess(n) - 1]
<1> DEFINE P == Precision
<1>1. P \in Nat /\ 3 * P \in Nat /\ 4 * P = P + 3 * P
  BY ConsensusAssumption
<1> HIDE DEF P
<1>2. \E t \in 0..3 * P : n < TenTo[P + t] /\ (t > 0 => n >= TenTo[P + t - 1])
  <2> SUFFICES ASSUME \A t \in 0..3 * P : ~(n < TenTo[P + t] /\ (t > 0 => n >= TenTo[P + t - 1]))
               PROVE  FALSE
    OBVIOUS
  <2> DEFINE Good == {t \in Nat : t <= 3 * P => n >= TenTo[P + t]}
  <2>1. 0 \in Good
    <3>1. 0 \in 0..3 * P /\ ~(0 > 0) /\ P + 0 \in Nat
      BY <1>1
    <3>2. TenTo[P + 0] \in Nat
      BY <3>1, PowersOfTen
    <3>. QED BY <3>1, <3>2
  <2>2. ASSUME NEW t \in Nat, t \in Good PROVE t + 1 \in Good
    <3> SUFFICES ASSUME t + 1 <= 3 * P PROVE n >= TenTo[P + (t + 1)]
      OBVIOUS
    <3>1. t + 1 \in 0..3 * P /\ P + (t + 1) - 1 = P + t /\ n >= TenTo[P + t] /\ P + (t + 1) \in Nat
      BY <1>1, <2>2
    <3>2. TenTo[P + (t + 1)] \in Nat
      BY <3>1, PowersOfTen
    <3>. QED BY <3>1, <3>2
  <2>3. 3 * P \in Good
    <3> HIDE DEF Good
    <3>. QED BY <1>1, <2>1, <2>2, UpwardInduction
  <2>4. TenTo[P + 3 * P] \in Nat
    BY <1>1, PowersOfTen
  <2>. QED BY <1>1, <2>3, <2>4 DEF P
<1>3. Excess(n) = CHOOSE t \in 0..3 * P : n < TenTo[P + t] /\ (t > 0 => n >= TenTo[P + t - 1])
  BY DEF Excess, P
<1>4. Excess(n) \in 0..3 * P /\ (Excess(n) > 0 => n >= TenTo[P + Excess(n) - 1])
  BY <1>2, <1>3
<1>5. Excess(n) \in Nat
  BY <1>1, <1>4
<1>. QED BY <1>4, <1>5 DEF P

\* A share is at most the exact one and less than a cent and a cent below it: the
\* digits that are lost are worth less than what a cent is from the next.
LEMMA ShareBounds ==
    ASSUME NEW D \in Nat \ {0}, NEW a \in Nat \ {0}, NEW W \in Nat, a <= W,
           11 * (D * W) < 2 * TenTo[Precision - 1]
    PROVE  /\ ShareOf(D, a, W) \in Nat
           /\ ShareOf(D, a, W) * W <= D * a
           /\ ShareOf(D, a, W) * W >= D * a - W
<1> DEFINE low == TenTo[Precision - 1]
           s == ScaleOf(a, W)
           S == TenTo[s]
           q == HalfEven(a * S, W)
           exact == D * q
           t == Excess(exact)
           T == TenTo[t]
           h == HalfEven(exact, T)
           r == h * T
           share == r \div S
           DW == D * W
           aS == a * S
           Da == D * a
           Wq == W * q
<1>1. /\ low \in Nat /\ low > 0 /\ TenTo[Precision] = 10 * low
      /\ Precision \in Nat /\ Precision - 1 \in Nat /\ Precision > 0 /\ 4 * Precision \in Nat
  <2>1. Precision \in Nat /\ Precision - 1 \in Nat /\ (Precision - 1) + 1 = Precision
        /\ Precision > 0 /\ 4 * Precision \in Nat
    BY ConsensusAssumption
  <2>. QED BY <2>1, PowersOfTen
<1> HIDE DEF low
<1>2. D >= 1 /\ W >= 1 /\ DW \in Nat /\ DW >= D /\ DW >= W /\ 11 * DW < 2 * low
  <2>1. D * W >= D * 1 /\ D * W >= 1 * W
    OBVIOUS
  <2>. QED BY <2>1 DEF low
<1> HIDE DEF DW
<1>3. s \in Nat /\ low * W <= aS /\ aS < 10 * (low * W)
  <2>1. W <= TenTo[Precision]
    BY <1>1, <1>2
  <2>2. s \in Nat /\ low * W <= aS /\ aS < TenTo[Precision] * W
    BY <2>1, ScaleExists DEF low
  <2>3. TenTo[Precision] * W = 10 * (low * W)
    BY <1>1
  <2>. QED BY <2>2, <2>3
<1> HIDE DEF s
<1>4. S \in Nat /\ S > 0
  BY <1>3, PowersOfTen
<1> HIDE DEF S
<1>5. S >= low
  <2> SUFFICES ASSUME S < low PROVE FALSE
    BY <1>1, <1>4
  <2>1. a * S <= W * S /\ W * S < W * low /\ W * low = low * W
    BY <1>1, <1>2, <1>4
  <2> DEFINE x == W * S
             y == low * W
  <2>2. x \in Nat /\ y \in Nat /\ aS \in Nat /\ aS <= x /\ x < y /\ y <= aS
    BY <1>1, <1>3, <1>4, <2>1
  <2> HIDE DEF x, y, aS
  <2>. QED BY <2>2
<1>6. aS \in Nat
  BY <1>4
<1>7. q \in Nat /\ 2 * Wq <= 2 * aS + W /\ 2 * Wq >= 2 * aS - W /\ Wq \in Nat
  <2>1. W \in Nat \ {0}
    BY <1>2
  <2> HIDE DEF aS
  <2>2. HalfEven(aS, W) \in Nat /\ 2 * (W * HalfEven(aS, W)) <= 2 * aS + W
        /\ 2 * (W * HalfEven(aS, W)) >= 2 * aS - W
    BY <1>6, <2>1, HalfEvenBounds
  <2>. QED BY <2>2 DEF aS
<1> HIDE DEF q
\* The quotient has at most the precision's digits.
<1>8. q <= 10 * low
  <2> SUFFICES ASSUME q >= 10 * low + 1 PROVE FALSE
    BY <1>1, <1>7
  <2>1. W * q >= W * (10 * low + 1) /\ W * (10 * low + 1) = 10 * (low * W) + W
    BY <1>1, <1>2, <1>7
  <2> DEFINE y == low * W
  <2>2. y \in Nat /\ Wq >= 10 * y + W /\ aS < 10 * y
    BY <1>1, <1>3, <2>1
  <2> HIDE DEF Wq, aS, y
  <2>. QED BY <1>2, <1>6, <1>7, <2>2
<1> HIDE DEF aS, Wq
<1>9. exact \in Nat /\ exact <= 10 * (D * low)
  <2>1. D * q <= D * (10 * low) /\ D * (10 * low) = 10 * (D * low)
    BY <1>1, <1>7, <1>8
  <2>. QED BY <1>7, <2>1
\* So its product with the amount has few enough to be cut.
<1>10. exact < TenTo[4 * Precision]
  <2>1. D < low
    BY <1>1, <1>2
  <2>2. TenTo[4 * Precision] = TenTo[Precision] * TenTo[3 * Precision]
        /\ TenTo[3 * Precision] = TenTo[Precision] * TenTo[2 * Precision]
        /\ TenTo[2 * Precision] \in Nat /\ TenTo[2 * Precision] > 0 /\ TenTo[3 * Precision] \in Nat
    <3>1. 3 * Precision \in Nat /\ 2 * Precision \in Nat /\ 4 * Precision = Precision + 3 * Precision
          /\ 3 * Precision = Precision + 2 * Precision
      BY <1>1
    <3> DEFINE x == 3 * Precision
               y == 2 * Precision
    <3> HIDE DEF x, y
    <3>2. Precision \in Nat /\ x \in Nat /\ y \in Nat /\ 4 * Precision = Precision + x /\ x = Precision + y
      BY <1>1, <3>1 DEF x, y
    <3>3. TenTo[Precision + x] = TenTo[Precision] * TenTo[x] /\ TenTo[Precision + y] = TenTo[Precision] * TenTo[y]
      BY <3>2, PowersMultiply
    <3>4. TenTo[y] \in Nat /\ TenTo[y] > 0 /\ TenTo[x] \in Nat
      BY <3>2, PowersOfTen
    <3>. QED BY <3>2, <3>3, <3>4, Zenon DEF x, y
  <2>3. TenTo[3 * Precision] >= 10 * low
    <3>1. TenTo[Precision] * TenTo[2 * Precision] >= TenTo[Precision] * 1
      BY <1>1, <2>2
    <3>. QED BY <1>1, <2>2, <3>1
  <2>4. TenTo[4 * Precision] >= (10 * low) * (10 * low)
    <3>1. (10 * low) * TenTo[3 * Precision] >= (10 * low) * (10 * low)
      BY <1>1, <2>2, <2>3
    <3>. QED BY <1>1, <2>2, <3>1
  <2>5. D * low < low * low /\ (10 * low) * (10 * low) = 100 * (low * low)
    BY <1>1, <2>1
  <2> DEFINE x == D * low
             y == low * low
  <2>6. x \in Nat /\ y \in Nat /\ x < y /\ exact <= 10 * x /\ TenTo[4 * Precision] >= 100 * y
    BY <1>1, <1>9, <2>4, <2>5
  <2>7. TenTo[4 * Precision] \in Nat
    BY <1>1, PowersOfTen
  <2> HIDE DEF x, y, exact
  <2>. QED BY <1>9, <2>6, <2>7
<1>11. t \in Nat /\ (t > 0 => exact >= TenTo[Precision + t - 1])
  <2> HIDE DEF exact
  <2>. QED BY <1>9, <1>10, ExcessExists
<1> HIDE DEF t
<1>12. T \in Nat /\ T > 0 /\ (t = 0 => T = 1) /\ (t > 0 => TenTo[Precision + t - 1] = low * T)
  <2>1. T \in Nat /\ T > 0 /\ (t = 0 => T = 1)
    BY <1>11, PowersOfTen
  <2>2. t > 0 => TenTo[Precision + t - 1] = low * T
    <3>1. Precision + t - 1 = (Precision - 1) + t
      BY <1>1, <1>11
    <3>. QED BY <1>1, <1>11, <3>1, PowersMultiply DEF low
  <2>. QED BY <2>1, <2>2
<1> HIDE DEF T
<1>13. t > 0 => T <= 10 * D
  <2> SUFFICES ASSUME t > 0, T >= 10 * D + 1 PROVE FALSE
    BY <1>12
  <2>1. low * T >= low * (10 * D + 1) /\ low * (10 * D + 1) = 10 * (D * low) + low
    BY <1>1, <1>12
  <2> DEFINE x == D * low
             y == low * T
  <2>2. x \in Nat /\ y \in Nat /\ y >= 10 * x + low /\ exact <= 10 * x /\ exact >= y
    BY <1>1, <1>9, <1>11, <1>12, <2>1
  <2> HIDE DEF x, y, exact
  <2>. QED BY <1>1, <1>9, <2>2
<1>14. h \in Nat /\ r \in Nat /\ 2 * r <= 2 * exact + T /\ 2 * r >= 2 * exact - T
  <2>1. T \in Nat \ {0}
    BY <1>12
  <2> HIDE DEF exact
  <2>2. h \in Nat /\ 2 * (T * h) <= 2 * exact + T /\ 2 * (T * h) >= 2 * exact - T
    BY <1>9, <2>1, HalfEvenBounds
  <2>3. h * T = T * h /\ h * T \in Nat
    BY <2>1, <2>2
  <2>. QED BY <2>2, <2>3
<1>15. t = 0 => r = exact
  <2> SUFFICES ASSUME t = 0 PROVE r = exact
    OBVIOUS
  <2>1. r = h /\ T = 1
    BY <1>12, <1>14
  <2>2. HalfEven(exact, 1) = exact
    <3> HIDE DEF exact
    <3>. QED BY <1>9 DEF HalfEven
  <2>. QED BY <2>1, <2>2
<1> HIDE DEF h
<1>16. 2 * r <= 2 * exact + 10 * D /\ 2 * r >= 2 * exact - 10 * D
  <2> HIDE DEF r, exact
  <2>1. CASE t = 0
    BY <2>1, <1>2, <1>9, <1>15
  <2>2. CASE t > 0
    BY <2>2, <1>9, <1>12, <1>13, <1>14
  <2>. QED BY <2>1, <2>2, <1>11
<1> HIDE DEF r
\* Both roundings together move the product by less than a cent's part of the pool.
<1>17. 2 * (W * r) <= 2 * (Da * S) + 11 * DW /\ 2 * (W * r) >= 2 * (Da * S) - 11 * DW
  <2>1. W * exact = D * Wq /\ W * exact \in Nat
    BY <1>7, <1>9 DEF Wq
  <2>2. D * aS = Da * S /\ D * aS \in Nat
    BY <1>4 DEF aS
  <2>3. 2 * (D * Wq) <= 2 * (D * aS) + DW /\ 2 * (D * Wq) >= 2 * (D * aS) - DW
    <3>1. D * (2 * Wq) <= D * (2 * aS + W) /\ D * (2 * Wq) >= D * (2 * aS - W)
      BY <1>2, <1>6, <1>7
    <3>2. D * (2 * Wq) = 2 * (D * Wq) /\ D * (2 * aS + W) = 2 * (D * aS) + DW
          /\ D * (2 * aS - W) = 2 * (D * aS) - DW
      BY <1>6, <1>7 DEF DW
    <3>. QED BY <3>1, <3>2
  <2>4. 2 * (W * r) <= 2 * (W * exact) + 10 * DW /\ 2 * (W * r) >= 2 * (W * exact) - 10 * DW
    <3> HIDE DEF exact
    <3>1. W * (2 * r) <= W * (2 * exact + 10 * D) /\ W * (2 * r) >= W * (2 * exact - 10 * D)
      BY <1>2, <1>9, <1>14, <1>16
    <3>2. W * (2 * r) = 2 * (W * r) /\ W * (2 * exact + 10 * D) = 2 * (W * exact) + 10 * DW
          /\ W * (2 * exact - 10 * D) = 2 * (W * exact) - 10 * DW
      BY <1>9, <1>14 DEF DW
    <3>. QED BY <3>1, <3>2
  <2> DEFINE x == W * r
             y == W * exact
             z == D * Wq
             e == D * aS
  <2>5. x \in Nat /\ y \in Nat /\ z \in Nat /\ e \in Nat /\ y = z
        /\ 2 * z <= 2 * e + DW /\ 2 * z >= 2 * e - DW
        /\ 2 * x <= 2 * y + 10 * DW /\ 2 * x >= 2 * y - 10 * DW
    BY <1>7, <1>14, <2>1, <2>2, <2>3, <2>4
  <2> HIDE DEF x, y, z, e
  <2>6. 2 * x <= 2 * e + 11 * DW /\ 2 * x >= 2 * e - 11 * DW
    BY <1>2, <2>5
  <2>. QED BY <2>2, <2>6 DEF x, e
<1>18. share \in Nat /\ S * share <= r /\ r < S * share + S
  BY <1>4, <1>14
<1> HIDE DEF share, Da
<1>19. Da \in Nat /\ Da = D * a
  BY DEF Da
<1> DEFINE Ws == W * share
<1>20. Ws \in Nat /\ Ws = share * W
  BY <1>18
<1>21. S * Ws <= W * r /\ W * r < S * Ws + S * W
  <2>1. W * (S * share) <= W * r /\ W * r < W * (S * share + S)
    BY <1>2, <1>4, <1>14, <1>18
  <2>2. W * (S * share) = S * Ws /\ W * (S * share + S) = S * Ws + S * W
    BY <1>4, <1>18
  <2>. QED BY <2>1, <2>2
<1> HIDE DEF Ws
<1>22. 11 * DW < 2 * S
  BY <1>1, <1>2, <1>4, <1>5
<1>23. Ws <= Da
  <2> SUFFICES ASSUME Ws >= Da + 1 PROVE FALSE
    BY <1>19, <1>20
  <2>1. S * Ws >= S * (Da + 1) /\ S * (Da + 1) = Da * S + S
    BY <1>4, <1>19, <1>20
  <2> DEFINE x == S * Ws
             y == Da * S
             z == W * r
  <2>2. x \in Nat /\ y \in Nat /\ z \in Nat /\ x >= y + S /\ x <= z /\ 2 * z <= 2 * y + 11 * DW
    BY <1>4, <1>14, <1>17, <1>19, <1>20, <1>21, <2>1
  <2> HIDE DEF x, y, z
  <2>. QED BY <1>2, <1>4, <1>22, <2>2
<1>24. Ws >= Da - W
  <2> SUFFICES ASSUME Ws + W + 1 <= Da PROVE FALSE
    BY <1>19, <1>20
  <2>1. S * (Ws + W + 1) <= S * Da /\ S * (Ws + W + 1) = S * Ws + S * W + S /\ S * Da = Da * S
    BY <1>4, <1>19, <1>20
  <2> DEFINE x == S * Ws
             y == Da * S
             z == W * r
             e == S * W
  <2>2. x \in Nat /\ y \in Nat /\ z \in Nat /\ e \in Nat /\ x + e + S <= y /\ z < x + e
        /\ 2 * z >= 2 * y - 11 * DW
    BY <1>4, <1>14, <1>17, <1>19, <1>20, <1>21, <2>1
  <2> HIDE DEF x, y, z, e
  <2>. QED BY <1>2, <1>4, <1>22, <2>2
<1>25. ShareOf(D, a, W) = share
  BY DEF ShareOf, share, r, h, T, t, exact, q, S, s
<1>. QED BY <1>18, <1>19, <1>20, <1>23, <1>24, <1>25

-----------------------------------------------------------------------------
(* The settlement                                                            *)

\* The digits suffice for this pool.
DigitsFor(b, w) == 11 * (Pool(b) * OnOutcome(b, w)) < 2 * TenTo[Precision - 1]

Distributable(b, w) == Pool(b) - Rake(b, w)

WinnersOf(b, w) == {m \in Members : b[m][w] > 0}

Shares(b, w) ==
    [m \in Members |->
        IF b[m][w] = 0 THEN 0 ELSE ShareOf(Distributable(b, w), b[m][w], OnOutcome(b, w))]

Remainder(b, w) == Distributable(b, w) - SumFunction(Shares(b, w))

\* The rake is at most what the losers staked.
LEMMA RakeBounds ==
    ASSUME NEW b, IsBook(b), NEW w \in Outcomes
    PROVE  /\ Rake(b, w) \in Nat
           /\ OnOutcome(b, w) \in Nat /\ Pool(b) \in Nat /\ OnOutcome(b, w) <= Pool(b)
           /\ Distributable(b, w) \in Nat
           /\ OnOutcome(b, w) <= Distributable(b, w) /\ Distributable(b, w) <= Pool(b)
           /\ OnOutcome(b, w) = 0 => Rake(b, w) = 0
<1> DEFINE losing == Pool(b) - OnOutcome(b, w)
           cut == (losing * RakeBps) \div 10000
<1>1. Pool(b) \in Nat /\ OnOutcome(b, w) \in Nat /\ OnOutcome(b, w) <= Pool(b) /\ losing \in Nat
  BY PoolOfOutcomes DEF Outcomes
<1>2. Rake(b, w) = IF OnOutcome(b, w) = 0 THEN 0 ELSE cut
  BY SMT DEF Rake
<1> HIDE DEF losing
<1>3. cut \in Nat /\ cut <= losing
  <2>1. RakeBps \in Nat /\ RakeBps <= 9999
    BY ConsensusAssumption, SMT
  <2>2. losing * RakeBps <= losing * 10000 /\ losing * RakeBps \in Nat
    BY <1>1, <2>1, SMT
  <2> DEFINE x == losing * RakeBps
  <2>3. x \in Nat /\ x <= losing * 10000 /\ cut = x \div 10000
    BY <2>2, SMT
  <2> HIDE DEF x, cut
  <2>. QED BY <1>1, <2>3, SMT
<1> HIDE DEF cut
<1>. QED BY <1>1, <1>2, <1>3, SMT DEF Distributable, losing

\* Every stake is part of its outcome's.
LEMMA StakeWithinOutcome ==
    ASSUME NEW b, IsBook(b), NEW w \in Outcomes, NEW m \in Members
    PROVE  b[m][w] \in Nat /\ b[m][w] <= OnOutcome(b, w)
<1> DEFINE on == [n \in Members |-> b[n][w]]
<1>1. IsFiniteSet(Members) /\ on \in [Members -> Nat] /\ \A n \in Members : on[n] \in Nat
  BY ConsensusAssumption DEF IsBook
<1>2. OnOutcome(b, w) = SumFunctionOnSet(on, Members)
  BY DEF OnOutcome, SumFunction
<1>3. on[m] = b[m][w]
  OBVIOUS
<1> HIDE DEF on
<1>4. on[m] <= SumFunctionOnSet(on, Members)
  BY <1>1, SumOfNaturals
<1>. QED BY <1>1, <1>2, <1>3, <1>4

\* Each winner's share is at most the exact one and less than a cent and a cent below.
LEMMA SharesAreClose ==
    ASSUME NEW b, IsBook(b), NEW w \in Outcomes, OnOutcome(b, w) > 0, DigitsFor(b, w)
    PROVE  /\ Shares(b, w) \in [Members -> Nat]
           /\ \A m \in Members :
                  /\ b[m][w] = 0 => Shares(b, w)[m] = 0
                  /\ Shares(b, w)[m] * OnOutcome(b, w) <= Distributable(b, w) * b[m][w]
                  /\ b[m][w] > 0 => Shares(b, w)[m] * OnOutcome(b, w)
                                      >= Distributable(b, w) * b[m][w] - OnOutcome(b, w)
<1> DEFINE D == Distributable(b, w)
           W == OnOutcome(b, w)
<1>1. D \in Nat \ {0} /\ W \in Nat \ {0} /\ D <= Pool(b) /\ Pool(b) \in Nat
  BY RakeBounds
<1>2. 11 * (D * W) < 2 * TenTo[Precision - 1]
  <2>1. D * W <= Pool(b) * W
    BY <1>1
  <2>2. Precision - 1 \in Nat
    BY ConsensusAssumption
  <2>3. TenTo[Precision - 1] \in Nat
    BY <2>2, PowersOfTen
  <2> DEFINE x == D * W
             y == Pool(b) * W
  <2>4. x \in Nat /\ y \in Nat /\ x <= y /\ 11 * y < 2 * TenTo[Precision - 1]
    BY <1>1, <2>1 DEF DigitsFor
  <2> HIDE DEF x, y
  <2>5. 11 * x < 2 * TenTo[Precision - 1]
    BY <2>3, <2>4
  <2>. QED BY <2>5 DEF x
<1>3. ASSUME NEW m \in Members
      PROVE  /\ Shares(b, w)[m] \in Nat
             /\ b[m][w] = 0 => Shares(b, w)[m] = 0
             /\ Shares(b, w)[m] * W <= D * b[m][w]
             /\ b[m][w] > 0 => Shares(b, w)[m] * W >= D * b[m][w] - W
  <2>1. b[m][w] \in Nat /\ b[m][w] <= W
    BY StakeWithinOutcome
  <2>2. Shares(b, w)[m] = IF b[m][w] = 0 THEN 0 ELSE ShareOf(D, b[m][w], W)
    BY DEF Shares
  <2> HIDE DEF D, W
  <2>3. CASE b[m][w] = 0
    BY <1>1, <2>2, <2>3
  <2>4. CASE b[m][w] # 0
    <3> DEFINE a == b[m][w]
    <3>1. a \in Nat \ {0} /\ a <= W
      BY <2>1, <2>4
    <3> HIDE DEF a
    <3>2. ShareOf(D, a, W) \in Nat /\ ShareOf(D, a, W) * W <= D * a /\ ShareOf(D, a, W) * W >= D * a - W
      BY <1>1, <1>2, <3>1, ShareBounds
    <3>. QED BY <2>2, <2>4, <3>2 DEF a
  <2>. QED BY <2>3, <2>4
<1>4. Shares(b, w) \in [Members -> Nat]
  BY <1>3 DEF Shares
<1>. QED BY <1>3, <1>4

\* Together the shares are at most what is distributed, and a cent for each winner
\* is all that they leave.
LEMMA RemainderIsSmall ==
    ASSUME NEW b, IsBook(b), NEW w \in Outcomes, OnOutcome(b, w) > 0, DigitsFor(b, w)
    PROVE  /\ Remainder(b, w) \in Nat
           /\ IsFiniteSet(WinnersOf(b, w)) /\ Cardinality(WinnersOf(b, w)) \in Nat
           /\ Remainder(b, w) <= Cardinality(WinnersOf(b, w))
<1> DEFINE D == Distributable(b, w)
           W == OnOutcome(b, w)
           A == WinnersOf(b, w)
           on == [m \in Members |-> b[m][w]]
           exact == [m \in Members |-> D * on[m]]
           share == Shares(b, w)
           scaled == [m \in Members |-> W * share[m]]
           short == [m \in Members |-> exact[m] - scaled[m]]
<1>1. D \in Nat /\ W \in Nat \ {0}
  BY RakeBounds
<1>2. IsFiniteSet(Members) /\ A \subseteq Members /\ IsFiniteSet(A) /\ Cardinality(A) \in Nat
  <2>1. IsFiniteSet(Members) /\ A \subseteq Members
    BY ConsensusAssumption DEF WinnersOf
  <2>. QED BY <2>1, FS_Subset, FS_CardinalityType
<1>3. /\ \A m \in Members : on[m] \in Nat /\ share[m] \in Nat
      /\ \A m \in Members : share[m] * W <= D * on[m]
      /\ \A m \in A : share[m] * W >= D * on[m] - W
      /\ \A m \in Members \ A : on[m] = 0 /\ share[m] = 0
  <2>1. \A m \in Members : on[m] \in Nat
    BY DEF IsBook
  <2>2. share \in [Members -> Nat]
        /\ \A m \in Members :
               /\ on[m] = 0 => share[m] = 0
               /\ share[m] * W <= D * on[m]
               /\ on[m] > 0 => share[m] * W >= D * on[m] - W
    BY SharesAreClose
  <2> HIDE DEF share, D, W
  <2>3. \A m \in Members : m \in A <=> on[m] > 0
    BY DEF WinnersOf
  <2> HIDE DEF on, A
  <2>. QED BY <1>2, <2>1, <2>2, <2>3
<1>4. SumFunctionOnSet(on, Members) = W
  BY DEF OnOutcome, SumFunction
<1>5. Remainder(b, w) = D - SumFunctionOnSet(share, Members)
  BY DEF Remainder, SumFunction, Shares
<1> HIDE DEF D, W, A, on, share
<1>6. \A m \in Members :
          /\ on[m] \in Int /\ exact[m] = D * on[m] /\ exact[m] \in Int
          /\ share[m] \in Int /\ scaled[m] = W * share[m] /\ scaled[m] \in Int
          /\ short[m] = exact[m] - scaled[m] /\ short[m] \in Nat
          /\ m \in A => short[m] <= W
          /\ m \notin A => short[m] = 0
  <2> SUFFICES ASSUME NEW m \in Members
               PROVE  /\ on[m] \in Int /\ exact[m] = D * on[m] /\ exact[m] \in Int
                      /\ share[m] \in Int /\ scaled[m] = W * share[m] /\ scaled[m] \in Int
                      /\ short[m] = exact[m] - scaled[m] /\ short[m] \in Nat
                      /\ m \in A => short[m] <= W
                      /\ m \notin A => short[m] = 0
    OBVIOUS
  <2>1. on[m] \in Int /\ exact[m] = D * on[m] /\ exact[m] \in Int
    BY <1>1, <1>3
  <2>2. share[m] \in Int /\ scaled[m] = W * share[m] /\ scaled[m] \in Int /\ W * share[m] = share[m] * W
    BY <1>1, <1>3
  <2>3. short[m] = exact[m] - scaled[m]
    OBVIOUS
  <2> HIDE DEF exact, scaled, short
  <2>5. short[m] \in Nat
    BY <1>3, <2>1, <2>2, <2>3
  <2>6. m \in A => short[m] <= W
    BY <1>1, <1>3, <2>1, <2>2, <2>3, <2>5
  <2>7. m \notin A => short[m] = 0
    <3> SUFFICES ASSUME m \notin A PROVE short[m] = 0
      OBVIOUS
    <3>1. on[m] = 0 /\ share[m] = 0
      BY <1>3
    <3>. QED BY <1>1, <2>1, <2>2, <2>3, <3>1
  <2>. QED BY <2>1, <2>2, <2>3, <2>5, <2>6, <2>7
<1> HIDE DEF exact, scaled, short
<1> DEFINE sum == SumFunctionOnSet(share, Members)
           shorts == SumFunctionOnSet(short, Members)
<1>7. SumFunctionOnSet(exact, Members) = D * W
  <2>1. \A m \in Members : on[m] \in Int /\ exact[m] = D * on[m]
    BY <1>6
  <2>2. D \in Int
    BY <1>1
  <2>3. SumFunctionOnSet(exact, Members) = D * SumFunctionOnSet(on, Members)
    BY <1>2, <2>1, <2>2, SumScaled
  <2>. QED BY <1>4, <2>3
<1>8. SumFunctionOnSet(scaled, Members) = W * sum /\ sum \in Int
  BY <1>1, <1>2, <1>6, SumScaled, SumIsInteger
<1>9. D * W = shorts + W * sum /\ shorts \in Nat
  <2>1. \A m \in Members : short[m] \in Int /\ scaled[m] \in Int /\ exact[m] = short[m] + scaled[m]
    BY <1>6
  <2>2. SumFunctionOnSet(exact, Members) = shorts + SumFunctionOnSet(scaled, Members)
    BY <1>2, <2>1, SumAdds
  <2>3. shorts \in Nat
    BY <1>2, <1>6, SumOfNaturals
  <2>. QED BY <1>7, <1>8, <2>2, <2>3
<1>10. shorts <= W * Cardinality(A)
  <2>1. \A m \in A : short[m] \in Int /\ short[m] <= W
    BY <1>2, <1>6
  <2>2. shorts = SumFunctionOnSet(short, A)
    <3>1. \A m \in Members : short[m] \in Int
      BY <1>6
    <3>2. \A m \in Members \ A : short[m] = 0
      BY <1>6
    <3>. QED BY <1>2, <3>1, <3>2, SumOfSome
  <2>3. SumFunctionOnSet(short, A) <= W * Cardinality(A)
    BY <1>1, <1>2, <2>1, SumAtMost
  <2>. QED BY <2>2, <2>3
<1> HIDE DEF sum, shorts
<1> DEFINE rest == D - sum
<1>11. W * rest = shorts /\ rest \in Int
  <2>1. W * (D - sum) = D * W - W * sum
    BY <1>1, <1>8
  <2>. QED BY <1>1, <1>8, <1>9, <2>1
<1> HIDE DEF rest
<1>12. rest >= 0
  <2> SUFFICES ASSUME rest <= -1 PROVE FALSE
    BY <1>11
  <2>1. W * rest <= W * (-1)
    BY <1>1, <1>11
  <2>. QED BY <1>1, <1>9, <1>11, <2>1
<1>13. rest <= Cardinality(A)
  <2> SUFFICES ASSUME rest >= Cardinality(A) + 1 PROVE FALSE
    BY <1>2, <1>11
  <2>1. W * rest >= W * (Cardinality(A) + 1) /\ W * (Cardinality(A) + 1) = W * Cardinality(A) + W
    BY <1>1, <1>2, <1>11
  <2> DEFINE x == W * Cardinality(A)
  <2>2. x \in Int /\ shorts >= x + W /\ shorts <= x
    BY <1>1, <1>2, <1>10, <1>11, <2>1
  <2> HIDE DEF x
  <2>. QED BY <1>1, <1>9, <2>2
<1>14. Remainder(b, w) = rest
  BY <1>5 DEF rest, sum
<1>. QED BY <1>2, <1>11, <1>12, <1>13, <1>14 DEF A

\* A larger stake, or the same of a lower id.
Better(b, w, m, n) == b[m][w] > b[n][w] \/ (b[m][w] = b[n][w] /\ m < n)

\* One member has the largest stake.
LEMMA TopWinnerIsBest ==
    ASSUME NEW b, IsBook(b), NEW w \in Outcomes, Members # {}
    PROVE  /\ TopWinner(b, w) \in Members
           /\ \A n \in Members \ {TopWinner(b, w)} : Better(b, w, TopWinner(b, w), n)
<1> DEFINE Good == {T \in SUBSET Members : T # {} => \E m \in T : \A n \in T \ {m} : Better(b, w, m, n)}
<1>1. \A m \in Members : b[m][w] \in Nat /\ m \in Nat
  BY ConsensusAssumption DEF IsBook
<1>2. ASSUME NEW T \in SUBSET Members, \A x \in T : T \ {x} \in Good
      PROVE  T \in Good
  <2> SUFFICES ASSUME T # {} PROVE \E m \in T : \A n \in T \ {m} : Better(b, w, m, n)
    OBVIOUS
  <2>1. PICK x \in T : TRUE
    OBVIOUS
  <2>2. CASE T \ {x} = {}
    BY <2>1, <2>2
  <2>3. CASE T \ {x} # {}
    <3>1. PICK y \in T \ {x} : \A n \in (T \ {x}) \ {y} : Better(b, w, y, n)
      BY <1>2, <2>1, <2>3
    <3>2. b[x][w] \in Nat /\ b[y][w] \in Nat /\ x \in Nat /\ y \in Nat /\ x # y
      BY <1>1, <2>1, <3>1
    <3>3. CASE Better(b, w, y, x)
      BY <2>1, <3>1, <3>3
    <3>4. CASE ~Better(b, w, y, x)
      <4>1. Better(b, w, x, y)
        BY <3>2, <3>4 DEF Better
      <4>2. ASSUME NEW n \in T \ {x} PROVE Better(b, w, x, n)
        <5>1. CASE n = y
          BY <4>1, <5>1
        <5>2. CASE n # y
          <6>1. Better(b, w, y, n) /\ b[n][w] \in Nat /\ n \in Nat
            BY <1>1, <3>1, <4>2, <5>2
          <6>. QED BY <3>2, <4>1, <6>1 DEF Better
        <5>. QED BY <5>1, <5>2
      <4>. QED BY <2>1, <4>2
    <3>. QED BY <3>3, <3>4
  <2>. QED BY <2>2, <2>3
<1>3. Members \in Good
  <2>1. \A T \in SUBSET Members : T \in Good
    <3>1. IsFiniteSet(Members)
      BY ConsensusAssumption
    <3> HIDE DEF Good
    <3>. QED BY <1>2, <3>1, SubsetInduction
  <2> HIDE DEF Good
  <2>. QED BY <2>1
<1>4. \E m \in Members : \A n \in Members \ {m} : Better(b, w, m, n)
  BY <1>3
<1>5. TopWinner(b, w) = CHOOSE m \in Members : \A n \in Members \ {m} : Better(b, w, m, n)
  BY DEF TopWinner, Better
<1>. QED BY <1>4, <1>5

\* Every winner is paid its share, and the one with the largest stake the remainder too.
LEMMA PaidAsShared ==
    ASSUME NEW b, IsBook(b), NEW w \in Outcomes, OnOutcome(b, w) > 0, DigitsFor(b, w)
    PROVE  /\ TopWinner(b, w) \in Members /\ b[TopWinner(b, w)][w] > 0
           /\ \A n \in Members : b[TopWinner(b, w)][w] >= b[n][w]
           /\ SettlementOf(b, w) = [m \in Members |->
                  Shares(b, w)[m] + (IF m = TopWinner(b, w) THEN Remainder(b, w) ELSE 0)]
<1> DEFINE top == TopWinner(b, w)
           on == [m \in Members |-> b[m][w]]
<1>1. IsFiniteSet(Members) /\ (\A m \in Members : b[m][w] \in Nat) /\ (\A m \in Members : on[m] = b[m][w])
      /\ OnOutcome(b, w) = SumFunctionOnSet(on, Members)
  BY ConsensusAssumption DEF IsBook, OnOutcome, SumFunction
<1> HIDE DEF on
<1>2. \E m \in Members : b[m][w] > 0
  <2> SUFFICES ASSUME \A m \in Members : ~(b[m][w] > 0) PROVE FALSE
    OBVIOUS
  <2>1. \A m \in Members : on[m] = 0
    BY <1>1
  <2>2. SumFunctionOnSet(on, Members) = 0 * Cardinality(Members)
    BY <1>1, <2>1, SumOfEqual
  <2>3. Cardinality(Members) \in Nat
    BY <1>1, FS_CardinalityType
  <2>. QED BY <1>1, <2>2, <2>3
<1>3. top \in Members /\ \A n \in Members \ {top} : Better(b, w, top, n)
  <2>1. Members # {}
    BY <1>2
  <2>. QED BY <2>1, TopWinnerIsBest
<1> HIDE DEF top
<1>4. \A n \in Members : b[top][w] >= b[n][w]
  BY <1>1, <1>3 DEF Better
<1>5. b[top][w] > 0
  BY <1>1, <1>2, <1>3, <1>4
<1>6. SettlementOf(b, w) = IF Remainder(b, w) > 0
                           THEN [Shares(b, w) EXCEPT ![top] = @ + Remainder(b, w)]
                           ELSE Shares(b, w)
  BY SMT DEF SettlementOf, Shares, Remainder, Distributable, top
<1>7. Shares(b, w) \in [Members -> Nat] /\ Remainder(b, w) \in Nat
  BY SharesAreClose, RemainderIsSmall
<1>8. SettlementOf(b, w) = [m \in Members |->
          Shares(b, w)[m] + (IF m = top THEN Remainder(b, w) ELSE 0)]
  <2> DEFINE f == Shares(b, w)
             rest == Remainder(b, w)
             g == [m \in Members |-> f[m] + (IF m = top THEN rest ELSE 0)]
  <2>1. f \in [Members -> Nat] /\ rest \in Nat
    BY <1>7
  <2> HIDE DEF f, rest
  <2>2. CASE rest > 0
    <3>1. \A m \in Members : [f EXCEPT ![top] = @ + rest][m] = g[m]
      BY <1>3, <2>1
    <3>2. [f EXCEPT ![top] = @ + rest] = g
      BY <2>1, <3>1
    <3>. QED BY <1>6, <2>2, <3>2 DEF f, rest
  <2>3. CASE rest = 0
    <3>1. \A m \in Members : f[m] = g[m]
      BY <2>1, <2>3
    <3>2. f = g
      BY <2>1, <3>1
    <3>3. ~(rest > 0)
      BY <2>3
    <3>. QED BY <1>6, <3>2, <3>3 DEF f, rest
  <2>. QED BY <2>1, <2>2, <2>3
<1>. QED BY <1>3, <1>4, <1>5, <1>8 DEF top

\* What a settlement hands out: with this and the types, AlgorithmsAssumption of
\* MarketLifecycle holds of the present settlement for all books the digits suffice for.
LEMMA SettlementConserves ==
    ASSUME NEW b, IsBook(b), NEW w \in Outcomes, DigitsFor(b, w)
    PROVE  /\ SettlementOf(b, w) \in [Members -> Nat]
           /\ SumFunction(SettlementOf(b, w)) = Pool(b) - Rake(b, w)
<1>1. CASE OnOutcome(b, w) = 0
  <2>1. SettlementOf(b, w) = [m \in Members |-> Stake(b[m])]
    BY <1>1 DEF SettlementOf
  <2>2. Rake(b, w) = 0 /\ Pool(b) \in Nat
    BY <1>1, RakeBounds
  <2>3. \A m \in Members : Stake(b[m]) \in Nat
    BY DEF IsBook, Stake, Outcomes
  <2>4. SumFunction(SettlementOf(b, w)) = Pool(b)
    BY <2>1 DEF Pool
  <2>. QED BY <2>1, <2>2, <2>3, <2>4
<1>2. CASE OnOutcome(b, w) > 0
  <2> DEFINE top == TopWinner(b, w)
             f == Shares(b, w)
             g == SettlementOf(b, w)
             rest == Remainder(b, w)
  <2>1. top \in Members /\ g = [m \in Members |-> f[m] + (IF m = top THEN rest ELSE 0)]
    BY <1>2, PaidAsShared
  <2>2. f \in [Members -> Nat] /\ rest \in Nat /\ rest = Pool(b) - Rake(b, w) - SumFunction(f)
        /\ Pool(b) \in Nat /\ Rake(b, w) \in Nat
    BY <1>2, SharesAreClose, RemainderIsSmall, RakeBounds DEF Remainder, Distributable
  <2> HIDE DEF top, f, g, rest
  <2>3. g \in [Members -> Nat]
    BY <2>1, <2>2
  <2>4. f \in [Members -> Int] /\ g \in [Members -> Int] /\ IsFiniteSet(Members)
        /\ \A m \in Members \ {top} : g[m] = f[m]
    BY <2>1, <2>2, <2>3, ConsensusAssumption
  <2>5. SumFunction(g) = SumFunction(f) + g[top] - f[top] /\ SumFunction(f) \in Int
    BY <2>1, <2>4, SumChanged, SumFunctionIsInteger
  <2>6. g[top] = f[top] + rest /\ f[top] \in Nat
    BY <2>1, <2>2
  <2>7. SumFunction(g) = Pool(b) - Rake(b, w)
    BY <2>2, <2>5, <2>6
  <2>. QED BY <2>3, <2>7 DEF g
<1>. QED BY <1>1, <1>2, RakeBounds

-----------------------------------------------------------------------------
(* What settle_parimutuel promises                                           *)

\* No outcome has more than the largest stake of each member.
LEMMA OutcomeIsBounded ==
    ASSUME InputInv, NEW w \in Outcomes
    PROVE  \E a \in Stakes \cup {0} : OnOutcome(book, w) <= Cardinality(Members) * a
<1> DEFINE on == [m \in Members |-> book[m][w]]
<1>1. IsBook(book) /\ IsFiniteSet(Members) /\ OnOutcome(book, w) = SumFunctionOnSet(on, Members)
  BY BooksAreBooks, ConsensusAssumption DEF OnOutcome, SumFunction
<1>2. \A m \in Members : on[m] = book[m][w] /\ on[m] \in Nat
  BY <1>1 DEF IsBook
<1> HIDE DEF on
<1>3. CASE Members = {}
  <2>1. SumFunctionOnSet(on, Members) = 0 /\ Cardinality(Members) = 0
    BY <1>3, SumOfNone, FS_EmptySet
  <2>. QED BY <1>1, <2>1
<1>4. CASE Members # {}
  <2> DEFINE top == TopWinner(book, w)
  <2>1. top \in Members /\ \A n \in Members \ {top} : Better(book, w, top, n)
    BY <1>1, <1>4, TopWinnerIsBest
  <2> HIDE DEF top
  <2> DEFINE a == book[top][w]
  <2>2. a \in Stakes \cup {0} /\ a \in Int
    BY <1>2, <2>1 DEF InputInv
  <2>3. \A m \in Members : on[m] \in Int /\ on[m] <= a
    BY <1>2, <2>1 DEF Better
  <2> HIDE DEF a
  <2>4. SumFunctionOnSet(on, Members) <= a * Cardinality(Members)
    BY <1>1, <2>2, <2>3, SumAtMost
  <2>5. Cardinality(Members) \in Nat
    BY <1>1, FS_CardinalityType
  <2>6. a * Cardinality(Members) = Cardinality(Members) * a
    BY <2>2, <2>5
  <2>. QED BY <1>1, <2>2, <2>4, <2>6
<1>. QED BY <1>3, <1>4

\* The digits suffice for every book of the walk.
LEMMA DigitsSuffice ==
    ASSUME InputInv, NEW w \in Outcomes
    PROVE  DigitsFor(book, w)
<1> DEFINE n == Cardinality(Members)
           on(o) == OnOutcome(book, o)
<1>1. n \in Nat
  BY ConsensusAssumption, FS_CardinalityType
<1>2. Pool(book) \in Nat /\ (\A o \in Outcomes : on(o) \in Nat)
      /\ Pool(book) = on("BUY") + on("SELL") + on("HOLD")
  BY BooksAreBooks, PoolOfOutcomes
<1>3. PICK top \in [Outcomes -> Stakes \cup {0}] : \A o \in Outcomes : on(o) <= n * top[o]
  <2> DEFINE fits(o, a) == on(o) <= n * a
  <2>1. \A o \in Outcomes : \E a \in Stakes \cup {0} : fits(o, a)
    BY OutcomeIsBounded
  <2> HIDE DEF fits
  <2> DEFINE pick == [o \in Outcomes |-> CHOOSE a \in Stakes \cup {0} : fits(o, a)]
  <2>2. \A o \in Outcomes : pick[o] \in Stakes \cup {0} /\ fits(o, pick[o])
    BY <2>1
  <2>3. pick \in [Outcomes -> Stakes \cup {0}]
    BY <2>2
  <2> HIDE DEF pick
  <2>. QED BY <2>2, <2>3 DEF fits
<1> HIDE DEF n, on
<1>4. \A o \in Outcomes : top[o] \in Nat
  <2>1. Stakes \cup {0} \subseteq Nat
    BY InputsAssumption
  <2>. QED BY <1>3, <2>1
<1>5. PICK o \in Outcomes : \A p \in Outcomes : top[p] <= top[o]
  BY <1>4 DEF Outcomes
<1> DEFINE N == n * top[o]
<1>6. N \in Nat /\ \A p \in Outcomes : on(p) <= N
  <2>1. ASSUME NEW p \in Outcomes PROVE on(p) <= N
    <3>1. n * top[p] <= n * top[o] /\ n * top[p] \in Nat /\ n * top[o] \in Nat
      BY <1>1, <1>4, <1>5
    <3>2. on(p) <= n * top[p] /\ on(p) \in Nat
      BY <1>2, <1>3
    <3>. QED BY <3>1, <3>2
  <2>2. N \in Nat
    BY <1>1, <1>4
  <2>. QED BY <2>1, <2>2
<1>7. 33 * N * N < 2 * TenTo[Precision - 1]
  <2>1. CASE top[o] \in Stakes
    BY <2>1, InputsAssumption DEF n
  <2>2. CASE top[o] = 0
    <3>1. N = 0
      BY <1>1, <2>2
    <3>2. TenTo[Precision - 1] \in Nat /\ TenTo[Precision - 1] > 0
      <4>1. Precision - 1 \in Nat
        BY ConsensusAssumption
      <4>. QED BY <4>1, PowersOfTen
    <3>. QED BY <3>1, <3>2
  <2>. QED BY <1>3, <2>1, <2>2
<1> HIDE DEF N
<1>8. Pool(book) <= 3 * N /\ on(w) <= N /\ on(w) \in Nat
  BY <1>2, <1>6 DEF Outcomes
<1>9. Pool(book) * on(w) <= (3 * N) * N /\ (3 * N) * N = 3 * (N * N) /\ 33 * N * N = 33 * (N * N)
  <2>1. Pool(book) * on(w) <= (3 * N) * on(w)
    BY <1>2, <1>6, <1>8
  <2>2. (3 * N) * on(w) <= (3 * N) * N
    BY <1>6, <1>8
  <2>3. Pool(book) * on(w) \in Int /\ (3 * N) * on(w) \in Int /\ (3 * N) * N \in Int
    BY <1>2, <1>6, <1>8
  <2>. QED BY <1>6, <2>1, <2>2, <2>3
<1>10. 11 * (Pool(book) * on(w)) < 2 * TenTo[Precision - 1]
  <2> DEFINE x == Pool(book) * on(w)
             y == N * N
  <2>1. x \in Int /\ y \in Int /\ x <= 3 * y /\ 33 * y < 2 * TenTo[Precision - 1]
    BY <1>2, <1>6, <1>7, <1>8, <1>9
  <2>2. TenTo[Precision - 1] \in Nat
    <3>1. Precision - 1 \in Nat
      BY ConsensusAssumption
    <3>. QED BY <3>1, PowersOfTen
  <2> HIDE DEF x, y
  <2>3. 11 * x < 2 * TenTo[Precision - 1]
    BY <2>1, <2>2
  <2>. QED BY <2>3 DEF x
<1>. QED BY <1>10 DEF DigitsFor, on

\* Not a cent is created or lost by the rounding, whatever the stakes.
THEOREM ConservedTheorem == Spec => []PoolConserved
<1>1. InputInv => PoolConserved
  BY BooksAreBooks, DigitsSuffice, SettlementConserves DEF PoolConserved, TotalPaid, Paid
<1>. QED BY <1>1, InputHolds, PTL

\* The winners together never get less than they staked on the winning outcome.
THEOREM RakeTheorem == Spec => []RakeOnLosersOnly
<1>1. InputInv => RakeOnLosersOnly
  <2> SUFFICES ASSUME InputInv, NEW w \in Outcomes PROVE TotalPaid(w) >= OnOutcome(book, w)
    BY DEF RakeOnLosersOnly
  <2>1. TotalPaid(w) = Distributable(book, w)
    BY BooksAreBooks, DigitsSuffice, SettlementConserves DEF TotalPaid, Paid, Distributable
  <2>. QED BY <2>1, BooksAreBooks, RakeBounds
<1>. QED BY <1>1, InputHolds, PTL

\* A winner is paid the share of its stake to within a cent below and a cent a winner
\* above, and a loser nothing.
THEOREM ShareTheorem == Spec => []SharesAreProportional
<1>1. ASSUME InputInv, NEW w \in Outcomes, NEW m \in Members, OnOutcome(book, w) > 0
      PROVE  LET winningPool   == OnOutcome(book, w)
                 distributable == Pool(book) - Rake(book, w)
                 exact         == distributable * book[m][w]
                 paid          == Paid(w)[m] * winningPool
                 winners       == Cardinality({n \in Members : book[n][w] > 0})
             IN  IF book[m][w] = 0 THEN paid = 0
                 ELSE /\ paid >= exact - winningPool
                      /\ paid <= exact + winners * winningPool
  <2> DEFINE W == OnOutcome(book, w)
             D == Distributable(book, w)
             a == book[m][w]
             k == Cardinality(WinnersOf(book, w))
             f == Shares(book, w)
             rest == Remainder(book, w)
             top == TopWinner(book, w)
             extra == IF m = top THEN rest ELSE 0
             pays == Paid(w)[m]
  <2>1. IsBook(book) /\ DigitsFor(book, w)
    BY <1>1, BooksAreBooks, DigitsSuffice
  <2>2. W \in Nat \ {0} /\ D \in Nat
    BY <1>1, <2>1, RakeBounds
  <2>3. a \in Nat
    BY <2>1, StakeWithinOutcome
  <2>4. f[m] \in Nat /\ (a = 0 => f[m] = 0) /\ f[m] * W <= D * a /\ (a > 0 => f[m] * W >= D * a - W)
    BY <1>1, <2>1, SharesAreClose
  <2>5. rest \in Nat /\ k \in Nat /\ rest <= k
    BY <1>1, <2>1, RemainderIsSmall
  <2>6. book[top][w] > 0 /\ Paid(w) = [n \in Members |-> f[n] + (IF n = top THEN rest ELSE 0)]
    BY <1>1, <2>1, PaidAsShared DEF Paid
  <2>7. pays = f[m] + extra
    BY <2>6
  <2>8. k = Cardinality({n \in Members : book[n][w] > 0}) /\ D = Pool(book) - Rake(book, w)
    BY DEF WinnersOf, Distributable
  <2>9. a = 0 => m # top
    BY <2>6
  <2> HIDE DEF W, D, k, f, rest, top, pays
  <2>10. extra \in Nat /\ extra <= k /\ (a = 0 => extra = 0)
    BY <2>5, <2>9
  <2> HIDE DEF a, extra
  <2>11. a = 0 => pays * W = 0
    BY <2>2, <2>4, <2>7, <2>10
  <2>12. a # 0 => pays * W >= D * a - W /\ pays * W <= D * a + k * W
    <3> SUFFICES ASSUME a # 0 PROVE pays * W >= D * a - W /\ pays * W <= D * a + k * W
      OBVIOUS
    <3>1. pays * W = f[m] * W + extra * W
      BY <2>2, <2>4, <2>7, <2>10
    <3>2. extra * W >= 0 /\ extra * W <= k * W
      BY <2>2, <2>5, <2>10
    <3> DEFINE x == f[m] * W
               y == extra * W
               z == k * W
               e == D * a
    <3>3. x \in Int /\ y \in Int /\ z \in Int /\ e \in Int /\ y >= 0 /\ y <= z /\ x <= e /\ x >= e - W
      BY <2>2, <2>3, <2>4, <2>5, <2>10, <3>2
    <3> HIDE DEF x, y, z, e
    <3>4. x + y >= e - W /\ x + y <= e + z
      BY <2>2, <3>3
    <3>. QED BY <3>1, <3>4 DEF x, y, z, e
  <2>. QED BY <2>8, <2>11, <2>12 DEF W, D, a, pays, k
<1>2. InputInv => SharesAreProportional
  BY <1>1 DEF SharesAreProportional
<1>. QED BY <1>2, InputHolds, PTL

\* The rounding and the remainder never pay a larger stake less than a smaller one.
THEOREM LargerTheorem == Spec => []LargerStakeEarnsMore
<1>1. ASSUME InputInv, NEW w \in Outcomes, NEW m \in Members, NEW n \in Members,
             OnOutcome(book, w) > 0, book[m][w] > book[n][w]
      PROVE  Paid(w)[m] >= Paid(w)[n]
  <2> DEFINE W == OnOutcome(book, w)
             D == Distributable(book, w)
             f == Shares(book, w)
             rest == Remainder(book, w)
             top == TopWinner(book, w)
             a == book[m][w]
             c == book[n][w]
  <2>1. IsBook(book) /\ DigitsFor(book, w)
    BY <1>1, BooksAreBooks, DigitsSuffice
  <2>2. W \in Nat \ {0} /\ D \in Nat /\ W <= D
    BY <1>1, <2>1, RakeBounds
  <2>3. a \in Nat /\ c \in Nat /\ a >= c + 1
    BY <1>1, <2>1, StakeWithinOutcome
  <2>4. f[m] \in Nat /\ f[m] * W >= D * a - W /\ f[n] \in Nat /\ f[n] * W <= D * c
    BY <1>1, <2>1, <2>3, SharesAreClose
  <2>5. rest \in Nat
    BY <1>1, <2>1, RemainderIsSmall
  <2>6. book[top][w] >= a /\ Paid(w) = [i \in Members |-> f[i] + (IF i = top THEN rest ELSE 0)]
    BY <1>1, <2>1, PaidAsShared DEF Paid
  <2>7. n # top
    BY <2>3, <2>6
  <2> HIDE DEF W, D, f, rest, top
  <2>8. Paid(w)[m] >= f[m] /\ Paid(w)[n] = f[n]
    BY <2>4, <2>5, <2>6, <2>7
  <2> HIDE DEF a, c
  <2>9. f[m] * W >= f[n] * W
    <3>1. D * a >= D * (c + 1) /\ D * (c + 1) = D * c + D
      BY <2>2, <2>3
    <3> DEFINE x == D * a
               y == D * c
               p == f[m] * W
               q == f[n] * W
    <3>2. x \in Int /\ y \in Int /\ p \in Int /\ q \in Int /\ x >= y + D /\ p >= x - W /\ q <= y
      BY <2>2, <2>3, <2>4, <3>1
    <3> HIDE DEF x, y, p, q
    <3>3. p >= q
      BY <2>2, <3>2
    <3>. QED BY <3>3 DEF p, q
  <2>10. f[m] >= f[n]
    <3> SUFFICES ASSUME f[n] >= f[m] + 1 PROVE FALSE
      BY <2>4
    <3>1. f[n] * W >= (f[m] + 1) * W /\ (f[m] + 1) * W = f[m] * W + W
      BY <2>2, <2>4
    <3> DEFINE p == f[m] * W
               q == f[n] * W
    <3>2. p \in Int /\ q \in Int /\ p >= q /\ q >= p + W
      BY <2>2, <2>4, <2>9, <3>1
    <3> HIDE DEF p, q
    <3>. QED BY <2>2, <3>2
  <2>11. Paid(w)[m] \in Int /\ Paid(w)[n] \in Int
    <3>1. SettlementOf(book, w) \in [Members -> Nat]
      BY <2>1, SettlementConserves
    <3>. QED BY <3>1 DEF Paid
  <2>. QED BY <2>4, <2>8, <2>10, <2>11
<1>2. InputInv => LargerStakeEarnsMore
  BY <1>1 DEF LargerStakeEarnsMore
<1>. QED BY <1>2, InputHolds, PTL

-----------------------------------------------------------------------------
(* What current_session promises                                             *)

\* Korea's day begins nine hours before the one of UTC, at 15:00.
InKorea(i, d, t) ==
    /\ t < 1800 => Weekday(i) = d /\ Korean(i) % 2880 = t + 1080
    /\ t >= 1800 => /\ Weekday(i) = IF d = 6 THEN 0 ELSE d + 1
                    /\ Korean(i) % 2880 = t - 1800

\* So says the conversion of every instant.
LEMMA KoreanDay ==
    ASSUME NEW i \in Instants
    PROVE  InKorea(i, i \div OneDay, i % OneDay)
<1> DEFINE k == Korean(i)
           d == i \div OneDay
           t == i % OneDay
<1>1. k = (i + 1080) % 20160 /\ Weekday(i) = k \div 2880 /\ i \in Nat /\ i < 20160
  BY DEF Korean, Weekday, At, OneDay, Instants
<1>2. d \in 0..6 /\ t \in 0..2879 /\ i = 2880 * d + t
  <2>1. OneDay = 2880
    BY DEF OneDay, At
  <2>. QED BY <1>1, <2>1
<1> SUFFICES InKorea(i, d, t)
  OBVIOUS
<1> HIDE DEF k, d, t
<1>3. CASE t < 1800
  <2>1. k = 2880 * d + (t + 1080)
    BY <1>1, <1>2, <1>3
  <2>. QED BY <1>1, <1>2, <1>3, <2>1 DEF k, InKorea
<1>4. CASE t >= 1800 /\ d < 6
  <2>1. k = 2880 * (d + 1) + (t - 1800)
    BY <1>1, <1>2, <1>4
  <2>. QED BY <1>1, <1>2, <1>4, <2>1 DEF k, InKorea
<1>5. CASE t >= 1800 /\ d = 6
  <2>1. k = t - 1800
    BY <1>1, <1>2, <1>5
  <2>. QED BY <1>1, <1>2, <1>5, <2>1 DEF k, InKorea
<1>. QED BY <1>2, <1>3, <1>4, <1>5

\* The hour of UTC decides as the table in Korean time does.
THEOREM HoursTheorem == Spec => []HoursMatchTheTable
<1>1. ASSUME InputInv PROVE HoursMatchTheTable
  <2> DEFINE d == instant \div OneDay
             t == instant % OneDay
             session == CurrentSession(instant)
  <2>1. instant \in Instants /\ instant \in Nat /\ instant < 20160 /\ OneDay = 2880
    BY <1>1 DEF InputInv, Instants, OneDay, At
  <2>2. d \in 0..6 /\ t \in 0..2879 /\ instant = 2880 * d + t
    BY <2>1
  <2> HIDE DEF d, t
  <2>3. InKorea(instant, d, t)
    BY <2>1, KoreanDay DEF d, t
  <2> DEFINE k == Korean(instant) % 2880
             wd == Weekday(instant)
  <2>4. session = IF wd >= 5 THEN "closed"
                  ELSE IF k \in 960..1079 THEN "pre_market"
                  ELSE IF k \in 1080..1860 THEN "regular"
                  ELSE IF k \in 1880..2160 THEN "after_market"
                  ELSE "closed"
    BY <2>1 DEF CurrentSession, At
  <2> HIDE DEF session, k, wd
  <2>5. /\ t >= 2760 /\ d \in {6, 0, 1, 2, 3} => session = "pre_market"
        /\ t <= 780 /\ d \in 0..4 => session = "regular"
        /\ t >= 800 /\ t <= 1080 /\ d \in 0..4 => session = "after_market"
        /\ \/ t >= 2760 /\ d \in {6, 0, 1, 2, 3}
           \/ t <= 780 /\ d \in 0..4
           \/ t >= 800 /\ t <= 1080 /\ d \in 0..4
           \/ session = "closed"
    <3>1. CASE t < 1800
      <4>1. wd = d /\ k = t + 1080
        BY <2>3, <3>1 DEF wd, k, InKorea
      <4>. QED BY <2>2, <2>4, <3>1, <4>1
    <3>2. CASE t >= 1800
      <4>1. wd = (IF d = 6 THEN 0 ELSE d + 1) /\ k = t - 1800
        BY <2>3, <3>2 DEF wd, k, InKorea
      <4>. QED BY <2>2, <2>4, <3>2, <4>1
    <3>. QED BY <2>2, <3>1, <3>2
  <2>6. At(23, 0) = 2760 /\ At(6, 30) = 780 /\ At(6, 40) = 800 /\ At(9, 0) = 1080
    BY DEF At
  <2>. QED BY <2>2, <2>5, <2>6 DEF HoursMatchTheTable, d, t, session
<1>. QED BY <1>1, InputHolds, PTL
=============================================================================
