# Verification of fund-polymarket

TLA+ modules for the backend of the study-fund prediction market, the TLC runs
that check them, and proofs for TLAPS. Members stake points on BUY, SELL or
HOLD; the stakes become a trade decision; an administrator approves it and an
order goes to the broker; the market is judged by the price and the points are
paid out. Paths below are relative to `backend/app`.

## The system

| Part | State it keeps | Operations | Works with |
|---|---|---|---|
| Consensus (`services/consensus.py`) | none, pure functions | `compute_consensus`, `settle_parimutuel`, `resolve_outcome`, `brier_score` | called by the services |
| Markets (`services/market_service.py`, `api/v1/markets.py`) | `markets`, `bets`, `trade_decisions` | create, allocate, close, build decision | ledger, consensus, quotes |
| Settlement (`services/settlement.py`) | `markets`, ledger entries | resolve, settle, cancel | ledger, consensus, quotes |
| Ledger (`services/ledger_service.py`) | `ledger_entries`; a balance is a sum | `record`, `has_entry`, `get_balance` | the services |
| Execution (`services/execution.py`, `risk.py`, `api/v1/trading.py`) | `trade_decisions`, `orders`, `positions` | approve, reject, sync | risk guard, broker |
| Scheduler (`scheduler.py`, `db/session.py`) | one job at a time, one session a phase | `tick` | markets, settlement |
| Brokers (`brokers/`) | the account (mock), a token cache (KIS) | quote, order, balance | called by all of the above |
| Scores (`services/scoring.py`) | none, read-only | leaderboard | ledger, consensus |
| Accounts, schemas, settings, migrations, seed, frontend | | parsing, display, set-up | the API |

Everything shared is in one database. A request is one session that commits at
its end; an exception leaves it uncommitted. FastAPI runs requests in threads,
so they overlap with each other and with the tick; nothing reads with a
lock, and no row carries a version. Calls to KIS take time, may fail, and may fail after they took effect.

What makes each part correct, and is hard to test:

* **Consensus**: three numbers rounded apart must add up, payouts rounded apart
  must add up to the pool, and nobody may gain or lose by it.
* **Markets and ledger**: locks, refunds and payouts are separate entries; only
  over a whole history do they agree with the bets, stay within the balances and
  conserve the points. A decision must rest on the stakes it recorded. Between
  what a request reads and what it commits, others commit.
* **Execution**: the database learns of an order after the broker did. Whatever
  is lost between the two, the record must not claim orders that do not exist,
  and the limits must hold at the broker.
* **Market hours, scores**: pure functions whose results have to agree with
  something computed elsewhere - the Korean clock, the balances.
* **Scheduler**: a batch with one commit and a rollback in the middle; steps must
  be whole, no market may be paid twice, and each must end, whatever administrators do in between.

PROJECT.json lists the hazards with the line where each bites.

## Modules

| Module | Models | How it corresponds to the code |
|---|---|---|
| `Domain` | `core/enums.py`, `Decimal.quantize` | the status values; the two rounding modes |
| `Consensus` | `services/consensus.py` | one operator per function and per rounded quantity; a book is a function member -> outcome -> cents |
| `MarketHours` | `services/market_hours.py` | the session of an instant, a half minute in the week of UTC |
| `MCConsensus` | | walks through all small books, pairs of prices and instants |
| `MarketLifecycle` | `market_service`, `settlement`, the status side of `execution`, `tick` | one action per committed request, and per market of a tick; the consensus algorithms are operator constants |
| `Scoring` | `services/scoring.py` | the leaderboard as operators over the states of `MarketLifecycle` |
| `MCMarketLifecycle` | | gives those constants the definitions of `Consensus` |
| `Sessions` | the requests of `market_service` and `settlement` that overlap, `db/session.py`, `api/v1/markets.py` | a session is a record of what a request has read; beginning, each read and the commit are steps of their own |
| `MCSessions` | | what members ask for |
| `MarketLifecycleProofs` | | theorems about `MarketLifecycle` |
| `SessionsProofs` | | theorems about `Sessions`, on top of those |
| `ScoringProofs` | | theorems about `Scoring`, on top of those |
| `OrderExecution` | `execution`, `risk`, `mock.py`, failures of `kis/client.py` | an approval in four steps: start, guard, broker, commit; a rejection in two; any number of them at once |
| `MCOrderExecution` | | prices of two tickers, and the hours of `MarketHours` for `OpenTimes` |
| `OrderExecutionProofs`, `OrderLimitsProofs` | | theorems about `OrderExecution`: the record and the cash; the daily limit and the weight |
| `SchedulerTick` | `scheduler.py`, `session_scope`, the requests of `api/v1/markets.py` and `trading.py` that change a market's status | the session's loaded and flushed statuses, step by step; a request in two steps: read and commit |
| `SchedulerTickProofs` | | theorems about `SchedulerTick` |
| `ConsensusProofs` | | theorems about `Consensus` and `MarketHours` |
| `ArithmeticTheorems` | | lemmas about sums over sets and about the two roundings |

**State.** `MarketLifecycle` does not keep the ledger's entries one by one but
the sums the code asks for: `balance` per member, and per market and member
`locked` (BET_LOCK less BET_REFUND), `payout` and `refund`. `has_entry` is
"the sum is not 0", since no entry of amount 0 is made. A stake of 0 is a bets row
that does not exist. Amounts are cents. A request may carry fractions of a cent
(`Scale`), and the two columns they go to round them (`Stored`).
History variables (`late` and `electorate` in `MarketLifecycle`; `attempts`, `overlapped`
and `contested` in `OrderExecution`; `stale` and `late` in `SchedulerTick`; `staleMarkets`,
`staleRows` and `stalePoints` in `Sessions`) record what happened for the properties to
speak of; no guard reads them, but for the bound `MaxAttempts`.

**Sessions.** `Sessions` extends `MarketLifecycle` and writes its variables, so
the two can be compared step by step. A request reads the market (`Begin`), then rows of bets
(`Load`), then the balance or the entries (`CheckPoints`, `CheckEntries`), and then writes:
READ COMMITTED lets each statement see what was committed before it. The flush
and the commit are one step, since nothing is read between them and the rows written keep other
writers waiting. The `has_entry` queries of one request, one for each member, are
read at once. What a write does depends on what has become of the rows: a `DELETE`
is by id and may find nothing, an `INSERT` may meet `uq_bet_market_member_outcome`, the
`UPDATE` of a deleted row raises `StaleDataError`, and the `UPDATE` of a market
overwrites it. The steps of an approval are left to `OrderExecution`; what it and the tick do to a
market's status in between is in `SchedulerTick`.

**The tick and the administrators.** `SchedulerTick` keeps of a market its status, its deadlines and
whether it was paid or refunded, and has every request that changes the status: close, decide,
resolve, settle, cancel, approve and reject. Such a request checks the status it reads (an approval checks
the decision's only) and writes later over whatever the status has become, as the tick does. So a
market may be RESOLVED or EXECUTED when a tick comes, and EXECUTED again after its end.

**Time** is a tick counter that stops at `Horizon`; every deadline lies within
it. Quotes and holdings are any of a few values at each call. An order has two times: `created_at` is
a default of the database, and on PostgreSQL `now()` is the start of the transaction
(`db/base.py:22-24`), which the query that authenticates the administrator opens (`api/deps.py:38`);
the guard's 24 hours end later, when it runs (`risk.py:51`). `OrderExecution` takes the first from
`Begin` and the second from `Approve`, and assumes that both machines' clocks agree.

**Wrong variants.** Just before some definitions stands one with a comment
`wrong: ...`. No behaviour of the specifications uses it: it is what the
definition would be with a plausible mistake, and putting it in place makes
TLC find the property named in PROJECT.json `mutants` violated. That shows that
the property can fail.

## Runs

| Run | Module, cfg | Question | Distinct states |
|---|---|---|---|
| `consensus` | `MCConsensus` | do the pure functions keep their docstrings' promises? | 39 948 |
| `principal` | `MCConsensus`, `MCPrincipal.cfg` | is a winner's own stake left alone? **No** | |
| `lifecycle` | `MCMarketLifecycle` | do ledger, book, decision, status and leaderboard agree in any order of requests? | 102 498 |
| `two_markets` | `MCMarketLifecycle`, `MCTwoMarkets.cfg` | are points safe across markets, and scores consistent? | 501 738 |
| `sessions` | `MCSessions` | which promises survive requests that overlap? | 398 645 |
| `paid_twice` | `MCMarketLifecycle`, `MCPaidTwice.cfg` | is a market never paid twice? **It is, after a late approval** | |
| `sub_cent` | `MCMarketLifecycle`, `MCSubCent.cfg` | does a cancellation return what was locked? **Not with fractions of a cent** | |
| `execution` | `MCOrderExecution` | do record and limits hold when answers are lost and approvals overlap? | 2 666 177 |
| `unrecorded` | `MCOrderExecution`, `MCUnrecorded.cfg` | does a failed approval leave its row? **No** | |
| `oversold` | `MCOrderExecution`, `MCOversold.cfg` | is never more sold than held? **It is, by two decisions** | |
| `scheduler` | `SchedulerTick`, `MCScheduler.cfg` | are steps whole, is pay single, does every market end, whatever administrators do meanwhile? | 116 421 |
| `starved` | `SchedulerTick`, `MCStarved.cfg` | do others proceed past a market that fails? **No** | |

The six runs that find a violation are the findings of PROJECT.json, each with
the sentence of the repository that it contradicts.

### What the properties say

* `EscrowMatchesBets`, `SettledOnce`, `PointsConserved`, `NoOverdraft` relate
  ledger, book and status over a whole history. `SettledOnce` excludes only
  markets whose decision was approved late, `PointsConserved` only histories
  with one: `paid_twice` shows why. The rake leaves the system, as no
  entry records it.
* `DecisionsRestOnTheBook` and `ClosedBooksAreFrozen` together say that an order
  can always be justified from the stakes still on file.
* `BoardFollowsThePoints` holds the leaderboard's profit, which lists the kinds of
  entries one by one, to the balance, which sums them all, on every order the sort may
  leave members in that tie (`Leaderboards`): the query asks for none.
* `ScoresAgreeWithHits` holds the mean Brier score to the hits; the bounds, two thirds for a
  hit and one half to 2 for a miss, are those of a distribution over three outcomes
  with its largest share on, or off, the winner. A hit rate of 1.0000 does
  not mean hits alone: rounded to four digits it can hide one miss in 20 000
  markets, which the property allows and no more.
* `JudgementFollowsTheReturn` relates the judgement, made on a rounded return, to the
  exact one: a return at a threshold gets its outcome, one judged BUY or SELL is at
  most half a unit short, and a higher price never moves the judgement down. A market
  may have crossed thresholds (`api/v1/markets.py:58` takes from the settings the one that is
  not given); a return that meets both is a BUY.
* `BrierRewardsTheWinner`: the score lies between 0 and 2, reaches both, and every cent moved
  to the winner lowers it. Six digits cannot tell a cent in a stake of more than
  1 414 cents; beyond that it is only said not to rise.
* `HoursMatchTheTable` compares the session with the table of the module's labels
  for every instant of a week, on the clock of Seoul.
* `FreshCommitsAreSerial`: a commit whose reads still hold is a step of
  `MarketLifecycle`. So all that is shown and proved of that module holds of
  overlapping requests too, until the first that commits on stale reads. The other
  properties of `sessions` say what such a request may break, and no more:
  a market's pay, decision and book (`HandedOutOnce`, `OneDecisionOnTheBook`,
  `FrozenUnlessStale`) only where its row, rows of bets or entries had changed
  since they were read; the locks (`EscrowUnlessReplacedTwice`) only where a
  member replaced the same rows twice; a balance (`NoOverdraftByOthers`) only
  through the member's own allocations. Each exemption is needed: without it TLC
  finds two refunds of the same rows, an overdrawn balance, a market that
  pays twice, two decisions of one market, a bet after the close, or a second
  reference price. The repository promises nothing about requests that
  overlap, so these are limits of the promises and not findings.
* `ExecutedOnRecord` excludes decisions that were executed while another request had
  read them: two approvals then make two orders, and a rejection leaves an
  order on record for a REJECTED decision. `NeverOverspends` and
  `DailyLimitHolds` say how far overlapping approvals can go past a limit (by
  one order for each administrator but one), and `BuysKeepTheWeight` ends where approvals overlap.
* `DailyLimitHolds` counts the orders that were begun and submitted within the same 24 hours. It says
  nothing of an order that is begun in them and whose guard runs after them: the guard no longer
  sees the window's first order, and the row is dated back into the window. By `created_at` alone a
  day can hold one order more than the limit without any overlap: one administrator suffices, and a request
  that starts just before the first order is 24 hours old and is judged just after.
* `NeverOverspends` and `BuysKeepTheWeight` are about a broker that fills at
  once, as `MockBroker` does. Repeated orders after lost answers are included:
  the guard reads the account, not the record.
* `PaidOrRefunded` excludes two kinds of markets, and fails without either exclusion. `stale` are those on
  which a step committed that the status they had by then would have refused: the tick writes over a
  cancellation that commits after it loaded the market, and of two requests the later one does. `late` are those of which an
  order was approved after their end: such a market is EXECUTED again, and the next tick
  judges and pays it although it was refunded, with no overlap at all (`paid_twice` is the same
  fault among requests).
* `EveryMarketEnds` names RESOLVED among the ends, as the tick selects OPEN, CLOSED, DECIDED and
  EXECUTED markets only (`scheduler.py:32-36, 49-53`). Of itself it never leaves a market RESOLVED, since it
  settles in the same transaction; one that an administrator judged waits for an
  administrator, and its stakes stay locked until one settles or cancels it. Without RESOLVED among
  the ends the property fails.
* `StepsAreWhole` looks at each step that changes a status: CLOSED or RESOLVED may come from an
  administrator only, so that a tick never commits the first half of a try block.

### Bounds, and why they are enough

* `consensus`: three members give two-way ties, remainders of two cents, and
  winners and losers at once. Pools reach 18 cents with winning pools of up to 6, where four
  significant digits round as the 28 of Python do (`Precision`; compared
  with the Python functions on all these books). For what stakes the digits suffice is
  `InputsAssumption`: 28 do while the pool times its winning part, in cents, stays below
  1.8 * 10^26. Prices lie on, beside and far from both thresholds, and some where
  only the rounding of the return meets one; `MaxMove` keeps two quotes close enough
  for TLC's 32-bit integers. Every boundary of the sessions is a whole minute, so an instant is
  a minute or what follows it before the next.
* `lifecycle`: two members are the least for a winner and a loser, a missed
  quorum and a tie; six points with a limit of one half leave several
  re-allocations; two prices 10% apart give all of BUY, SELL and HOLD, quantities of 0 and 1,
  and holdings of 0 and 1. `Horizon = 2` lets betting end before or after it began to be
  possible, and a tick find both deadlines past.
* `two_markets`: the whole balance may be staked on either market
  (`StakeDen = 1`), so that only the locks of the other one prevent an overdraft.
* `sessions`: two sessions (`Slots`) are the least that overlap, and one that begins
  when another ends overlaps a chain of them. `MaxCommits = 5` leaves an allocation,
  a close, a resolution and two settlements. Two members give a winner and a loser, and a
  second market, on which only bets are made (`Managed`), is what overdrafts need.
  Allocations are everything on BUY or on SELL; judged HOLD, a market has
  no winner. Members and markets are there from the start, and betting does not end
  by the clock: both are `lifecycle`'s.
* `execution`: two administrators and two decisions against a limit of one a day; cash for two
  purchases; a weight limit that the second purchase of a ticker passes;
  two attempts (`MaxAttempts`) for a retry after a lost answer. Ticks are a day
  apart, and the last is a Saturday in Seoul and a Friday in UTC. `unrecorded` and `oversold`
  have three decisions and one administrator.
* `scheduler`: two markets are the least for a batch in which one fails. The administrator
  works on one of them (`Managed`), and the requests of one overlap with the tick; those of two
  would overlap with each other too, which is `sessions`' matter. `MaxFaults = 2` lets quotes
  fail in both transactions, or once and a restart. With `Horizon = 1` a market closes at 0 and is judged at
  1, in one tick or in two, and a market made later is still open when the other is judged.
* Symmetry is used where ids are interchangeable and no liveness is checked:
  markets in `two_markets`, decisions and administrators in `execution`, sessions in `sessions`.
  Members are not: their ids break ties.

### Fairness

Only `SchedulerTick` has liveness. `WF(Tick)`: the job runs every
`scheduler_interval_seconds` with `max_instances=1` and never ends
(`scheduler.py:72-80`), and each of its calls has a timeout. `WF(Advance)`: time
passes. Nothing is assumed of administrators, who need not finish what they began,
nor of the order in which a batch is worked off. `EveryMarketEnds` needs quotes that fail only finitely often,
which is the bound `MaxFaults` and an empty `Suspended`; `starved` drops the second.

## Proofs

Every invariant and every action property that a run checks is also a theorem,
for every value of the constants that the assumptions below admit. Each follows the
same pattern: an inductive invariant, one lemma for each kind of step, and a
last step in temporal logic.

### Markets (`MarketLifecycleProofs`)

For any finite sets of members and markets, any settings and any consensus algorithms:

| Theorem | States | By |
|---|---|---|
| `TypeCorrect` | `[]TypeOK` | `TypeOK` is inductive (`TypeStep`) |
| `EscrowTheorem` | `[]EscrowMatchesBets`, if `Scale = 1` | inductive with `TypeOK`; whole cents are stored as they are (`StoredCents`, `RowsAddUp`) |
| `OverdraftTheorem` | `[]NoOverdraft` | inductive with `TypeOK`, for fractions of a cent too: rounding never takes a lock above a whole balance it did not exceed (`StoredFits`) |
| `SettledOnceTheorem` | `[]SettledOnce`, if `Scale = 1` | `SettlementInv`, which says for each status who holds what, member by member; then `PaidOnce` sums it |
| `ConservationTheorem` | `[]PointsConserved`, if `Scale = 1` | inductive with the three before it; each step moves one term of each sum (`SumChanged`), and what a settlement adds to the balances is what its market stops holding |
| `DecisionsTheorem` | `[]DecisionsRestOnTheBook` | needs `NoDecisionWhileOpen`: a bet could otherwise follow a decision |
| `FrozenTheorem`, `FinalTheorem` | the two action properties | one case per action |

With `Scale > 1` the escrow theorem is false, as `sub_cent` shows. `SettledOnce` is not
inductive: that a market has paid nothing before it is
final says nothing about how much each member will be paid. `SettlementInv`
keeps, per member, a payout equal to the settlement's share and a refund equal to the stake.

### Overlapping requests (`SessionsProofs`)

For any number of sessions, members, markets and commits:

| Theorem | States | By |
|---|---|---|
| `SessionsTypeCorrect` | `[]SessionsTypeOK` | `BaseInv`: types, a budget of commits that covers the open sessions, and `Sound`, what a session's reads say of one another |
| `SerialTheorem` | `FreshCommitsAreSerial` | `LinkInv` and `Undecided`, below |
| `SessionsEscrowTheorem` | `[]EscrowUnlessReplacedTwice`, if `Scale = 1` | an allocation that replaces the rows it read relocks as `MarketLifecycle`'s does |
| `SessionsOverdraftTheorem` | `[]NoOverdraftByOthers` | a lock takes no more than the points read and the rows given back; where the points have shrunk since, the exemption names the member |
| `HandedOutOnceTheorem`, `OneDecisionTheorem` | the two invariants | `OrderlyInv`: a market nobody wrote on stale reads is paid by its book and has at most one decision, which rests on it |
| `FrozenUnlessStaleTheorem` | `FrozenUnlessStale` | a commit that moves a closed book has read an open market |
| `ConservedUnlessStaleTheorem` | `[]ConservedUnlessStale`, if `Scale = 1` | `Accounted`, the three invariants before it, and the sums of `ConservationTheorem` |

A commit tests the rows it read by their ids, the step of `MarketLifecycle` speaks of their
amounts. `LinkInv` closes the gap: rows still alive hold the stakes that were read, and a member whose
rows were replaced has a row the session does not know, so that nothing can look
unchanged and be different. `Undecided` is needed since a session builds a
decision because it found none.

### Orders (`OrderExecutionProofs`, `OrderLimitsProofs`)

For any administrators (finitely many), decisions, funds, prices and limits:

| Theorem | States | By |
|---|---|---|
| `ExecutionTypeCorrect` | `[]TypeOK` | inductive with `Complete`: a request under way has a decision, with a fund and a ticker |
| `KillSwitchTheorem` | `KillSwitchStopsOrders` | `NothingChecked`: while the switch is on, no request has passed the guard |
| `RecordTheorem` | `[]ExecutedOnRecord` | `RecordInv`: a decision nobody contests has no row while a request is at work on it; otherwise the second commit, or a rejection after it, could break the property |
| `PhantomTheorem` | `[]NoPhantomOrders` | `PhantomInv` counts the approvals the broker has answered with the rows they will become |
| `OverspendTheorem` | `[]NeverOverspends` | `SpendInv`, below |
| `DailyLimitTheorem` | `[]DailyLimitHolds` | `LimitInv`, below |
| `WeightTheorem` | `BuysKeepTheWeight` | `WeightInv`: until approvals overlap, a purchase under way still keeps the weight, whatever the guard saw |

`NeverOverspends` bounds the cash after all purchases under way are filled, in any
order, so an invariant has to look ahead. Were every purchase under way as
large as an order may be, the account could go below the bound; but the one that passed
the guard last was covered by the cash of that moment. `Roomy` keeps just that: with one
order limit for each administrator added and one for each purchase under way taken
off, what is left covers an order limit or one of those purchases. A fill takes its
cost from the cash and gives back an order limit, which is no less.

`DailyLimitHolds` speaks of windows that slide over rows which are not in the order of
their times: of two approvals the one that began first may commit last. `LimitInv` counts,
for every window that has begun, the rows begun and submitted in it together with the approvals under way
whose order may still land in it (`Lands`). An approval that passes the guard found room in the window that
ends now; in a window that ends earlier it is not submitted any more.

### The tick (`SchedulerTickProofs`)

For any markets, administrators, suspended tickers and numbers of failures:

| Theorem | States | By |
|---|---|---|
| `SchedulerTypeCorrect` | `[]TypeOK` | inductive |
| `WholeTheorem` | `StepsAreWhole` | `WholeInv`: what is flushed is what the second call of a try block leaves; a rollback leaves nothing |
| `PaidOrRefundedTheorem` | `[]PaidOrRefunded` | `PayInv` adds `ReadInv`: whatever the tick has loaded, and a request has read, was a status that its step accepts. A commit on a status that has changed is then either recorded in `stale` or accepted anyway |

### The algorithms (`ConsensusProofs`)

For any finite set of members, any stakes the digits suffice for, any rake, prices and thresholds. The
state only carries the input (`InputHolds`); the proofs are about the operators.

| Theorem | States | By |
|---|---|---|
| `ProbabilitiesTheorem` | `[]ProbabilitiesAddUp` | each share is rounded by at most half a unit, so the drift is -1, 0 or 1 (`DriftIsSmall`) |
| `LeaderTheorem` | `[]LeaderKeepsTheLead` | rounding is monotone (`HalfUpIsMonotone`) |
| `ConservedTheorem` | `[]PoolConserved` | the shares never exceed the pool less the rake, or a negative remainder would be dropped: `SettlementConserves` |
| `RakeTheorem` | `[]RakeOnLosersOnly` | the rake is at most the losing pool (`RakeBounds`) |
| `ShareTheorem` | `[]SharesAreProportional` | `ShareBounds` for each share, `RemainderIsSmall` for the remainder: below a cent a winner |
| `LargerTheorem` | `[]LargerStakeEarnsMore` | both roundings of a share are monotone, and the remainder goes to the largest stake (`TopWinnerIsBest`) |
| `JudgementTheorem` | `[]JudgementFollowsTheReturn` | `ReturnIsJudged`, `JudgementIsMonotone` |
| `BrierTheorem` | `[]BrierRewardsTheWinner` | the squares in terms of what lies on the two wrong outcomes (`BrierIsMisses`); a cent moved shrinks them by enough to show in six digits, or not at all |
| `HoursTheorem` | `[]HoursMatchTheTable` | the Korean day by cases over the week (`KoreanDay`) |

The hard one is a share: a quotient of P significant digits, times the pool, again
to P digits, then down to a cent. That `ScaleOf` and `Excess` find their scale is
`ScaleExists` and `ExcessExists`. `ShareBounds` shows that both roundings together err by
less than what separates a product that is not a whole number of cents from the
next one, as long as 11 * D * W < 2 * 10^(P-1) for a distributable sum D and a
winning pool W; the cut then loses less than a cent, and a whole product of cents is
never missed by more than one. `InputsAssumption` is that condition for every book
of the run (`DigitsSuffice`).

### The leaderboard (`ScoringProofs`)

Over any history of `MarketLifecycle`, for any score that tells hits from misses:

| Theorem | States | By |
|---|---|---|
| `ProfitTheorem` | `[]ProfitIsTheBalance` | inductive: a balance is the grant and the profit, since each action moves both by what it does to one market (`MovingTogether`) |
| `BoardTheorem` | `[]BoardFollowsThePoints` | `ProfitTheorem`; `SomeBoard` shows that the sort has a result, so the statement is never about nothing |
| `ScoresTheorem` | `[]ScoresAgreeWithHits` | the bounds of each market summed (`TotalScore`), then both means rounded |

### Assumptions

TLC evaluates each in a run, and nothing else is assumed.

* `SettingsAssumption` (`MarketLifecycle`): what settings and inputs may be.
* `AlgorithmsAssumption`: what the transactions need of the algorithms, typed results and payouts
  that add up to the pool less the rake. `ConsensusIsTyped`, `SettlementConserves`,
  `RakeBounds` and `OutcomeIsBounded` prove it of the present ones.
* `ScoreAssumption` (`Scoring`): a hit scores at most two thirds, a miss between one half and
  2. `ScoreTellsHits` proves it of the present score.
* `SessionsAssumption`: finitely many sessions and a bound on commits.
* `ExecutionAssumption`, `SchedulerAssumption`: kinds of the constants; nothing about the brokers or
  the fairness of the job.
* `ConsensusAssumption`, `InputsAssumption`: kinds of the settings, a rake below 100%, and
  digits that suffice.

### How sums and inductions are proved

Totals are `SumFunction` of module Functions, a fold in an order that CHOOSE leaves open.
`ArithmeticTheorems` proves from its definition that the recursion has a solution,
that the order does not matter, and the laws that follow: sums that differ in one
term, are added, scaled, bounded or split. Proofs by induction need a predicate as a
parameter, which the provers cannot instantiate; here the induction is on a set `Good` of
the sets, or numbers, that the statement holds of (`SubsetInduction`,
`UpwardInduction`), which follows from well-foundedness alone.

### Only model-checked

`EveryMarketEnds`: liveness needs ENABLED and fairness, which the prover does not
handle. The six properties that TLC finds violated have no theorem.

## Not modelled

* KIS filling an order late or in part: the account is KIS's own.
* Orders at the market price: `build_decision` makes limit orders only.
* `bets.payout`, a display column apportioned from the payout; the rationale texts;
  the probabilities snapshot of a decision.
* Inactive members: quorum and leaderboard look at active ones, and no endpoint
  makes a member inactive.
* Public holidays: the code does not know them.
* The token cache of KIS: a stale token, or one too many, can only make a call
  fail, which `OrderExecution` has as an order refused.
* What requests that overlap with the tick, and approvals that overlap with a settlement, do to bets and points:
  `SchedulerTick` has them, but of a market it keeps only its status and whether it was paid or refunded.
* Clocks of the database and the server that differ: the guard compares them.
* Authentication, schemas, migrations, seed script, frontend: no state of the market.

## Plan

Done, in this order: `Consensus`, `MarketLifecycle` with proofs, `OrderExecution`,
`SchedulerTick`, `Sessions`, `Scoring` and `MarketHours`; proofs about `OrderExecution` and
`SchedulerTick`; proofs about `Sessions`, the limits of `OrderExecution`, `Consensus`,
`MarketHours` and `Scoring`.

Left:

1. The bets and points of requests and approvals that overlap with the tick, in `Sessions`: the tick as one
   more session, with the rollback of `SchedulerTick`.
2. The hazards of PROJECT.json that no property covers; each says there what is missing.
