------------------------------ MODULE Sessions ------------------------------
(* The requests of MarketLifecycle as sessions that overlap. FastAPI runs    *)
(* requests in threads; each has a session of its own (db/session.py:24-33), *)
(* reads with one statement after the other at READ COMMITTED and locks      *)
(* nothing it reads. No column counts versions, so an UPDATE of a market     *)
(* overwrites whatever has become of it.                                     *)
(*                                                                           *)
(* A session reads the market and checks its status, reads rows of bets,     *)
(* reads the balance or looks for entries, and then writes and commits. The  *)
(* flush and the commit are one step: nothing is read in between, and the    *)
(* rows that are written keep other writers out until the commit.            *)
(*                                                                           *)
(* Members are registered and markets open from the start, and no deadline   *)
(* passes. Approvals are OrderExecution's, the tick is SchedulerTick's.      *)
EXTENDS MarketLifecycle

CONSTANTS
    Slots,          \* sessions that may be open at once
    Allocations,    \* bound: allocations that members ask for
    Managed,        \* bound: markets that administrators send requests for
    MaxCommits      \* bound: requests that commit

ASSUME SessionsAssumption ==
    /\ Allocations \subseteq [Outcomes -> Entries]
    /\ Managed \subseteq Markets
    /\ MaxCommits \in Nat
    /\ IsFiniteSet(Slots)
    /\ Horizon > 1

VARIABLES
    session,        \* what each session has read
    decisions,      \* number of trade_decisions rows of a market
    committed,      \* requests that have committed
    staleMarkets,   \* history: markets written by a request whose reads of the market,
                    \* of all its bets, or of its entries were out of date
    staleRows,      \* history: allocations whose own rows were out of date
    stalePoints     \* history: members with an allocation that saw more points than there were

history == <<staleMarkets, staleRows, stalePoints>>
sessionVars == <<session, decisions, committed, history>>
allVars == <<vars, sessionVars>>

\* The columns of the market that requests read.
Row(k) == [status |-> status[k], reference |-> reference[k], winner |-> winner[k]]

NoRow == [status |-> None, reference |-> 0, winner |-> None]
NoBets == [m \in Members |-> NoStakes]

\* who: the members whose bets the request reads. seen: the stakes it read.
\* live: the rows it read that no commit has deleted since. paid: the members
\* with an entry of the kind the request makes.
Idle ==
    [request |-> None, at |-> None, market |-> None, row |-> NoRow, who |-> {},
     allocation |-> NoStakes, seen |-> NoBets, live |-> {}, points |-> 0, paid |-> {}]

SessionsInit ==
    /\ now = 0 /\ late = {}
    /\ joined = Members
    /\ balance = [m \in Members |-> InitialPoints]
    /\ locked = [k \in Markets |-> NoPoints]
    /\ payout = [k \in Markets |-> NoPoints]
    /\ refund = [k \in Markets |-> NoPoints]
    /\ status = [k \in Markets |-> "OPEN"]
    /\ closesAt = [k \in Markets |-> 1]
    /\ resolveAt = [k \in Markets |-> 2]
    /\ bets = [k \in Markets |-> NoBets]
    /\ reference = [k \in Markets |-> 0]
    /\ winner = [k \in Markets |-> None]
    /\ decision = [k \in Markets |-> NoDecision]
    /\ session = [s \in Slots |-> Idle]
    /\ decisions = [k \in Markets |-> 0]
    /\ committed = 0
    /\ staleMarkets = {} /\ staleRows = {} /\ stalePoints = {}

-----------------------------------------------------------------------------
(* Reading                                                                   *)

Requests == {"allocate", "close", "decide", "resolve", "settle", "cancel"}

ClosableAgain(k) == status[k] \in {"OPEN", "CLOSED"}     \* wrong: a closed market may be closed again
Closable(k) == status[k] = "OPEN"

Decidable(k) == status[k] = "CLOSED"

Settleable(k) == status[k] = "RESOLVED" /\ winner[k] # None

\* The check of the status, on the market as it was read.
Admits(request, k) ==
    \/ request = "allocate" /\ Accepting(k)
    \/ request = "close" /\ Closable(k)
    \/ request = "decide" /\ Decidable(k)
    \/ request = "resolve" /\ Judgeable(k)
    \/ request = "settle" /\ Settleable(k)
    \/ request = "cancel" /\ Cancellable(k)

\* get_market, and the checks that need nothing else.
Begin(s, request, k, who, allocation) ==
    /\ session[s].request = None
    /\ committed + Cardinality({t \in Slots : session[t].request # None}) < MaxCommits
    /\ Admits(request, k)
    /\ session' = [session EXCEPT ![s] =
           [Idle EXCEPT !.request = request, !.at = "begun", !.market = k, !.row = Row(k),
                        !.who = who, !.allocation = allocation]]
    /\ UNCHANGED <<vars, decisions, committed, history>>

BeginAllocation(s, k, m, allocation) ==
    /\ Stake(allocation) > 0
    /\ \A o \in Outcomes : allocation[o] > 0 => allocation[o] >= MinStake * Scale
    /\ Begin(s, "allocate", k, {m}, allocation)

RowsOf(who, book) == {row \in who \X Outcomes : book[row[1]][row[2]] > 0}

\* select(Bet): of one member, or of the whole market. build_decision first
\* looks for a decision of the market.
Load(s) ==
    LET k   == session[s].market
        who == session[s].who
    IN  /\ session[s].at = "begun"
        /\ session[s].request \in {"allocate", "decide", "settle", "cancel"}
        /\ session[s].request = "decide" => decisions[k] = 0
        /\ session' = [session EXCEPT ![s] =
               [@ EXCEPT !.at = "loaded",
                         !.seen = [m \in Members |-> IF m \in who THEN bets[k][m] ELSE NoStakes],
                         !.live = RowsOf(who, bets[k])]]
        /\ UNCHANGED <<vars, decisions, committed, history>>

PointsWithLocks(s, m) ==                                 \* wrong: other markets' locks count too
    balance[m] + SumFunction([k \in Markets |-> locked[k][m]])

\* get_balance and the stakes that were read.
Points(s, m) == balance[m] + Stake(session[s].seen[m])

\* The judgement of the new total.
CheckPoints(s, m) ==
    LET total == Stake(session[s].allocation)
    IN  /\ session[s].request = "allocate" /\ session[s].at = "loaded"
        /\ m \in session[s].who
        /\ total <= Points(s, m) * Scale
        /\ total <= MaxAllowed(Points(s, m)) * Scale
        /\ session' = [session EXCEPT ![s] = [@ EXCEPT !.at = "checked", !.points = balance[m]]]
        /\ UNCHANGED <<vars, decisions, committed, history>>

\* The members whom has_entry finds.
PaidAlready(request, k) ==
    {m \in Members : IF request = "settle" THEN payout[k][m] # 0 ELSE refund[k][m] # 0}

\* has_entry, for every member with a stake.
CheckEntries(s) ==
    /\ session[s].request \in {"settle", "cancel"} /\ session[s].at = "loaded"
    /\ session' = [session EXCEPT ![s] =
           [@ EXCEPT !.at = "checked", !.paid = PaidAlready(session[s].request, session[s].market)]]
    /\ UNCHANGED <<vars, decisions, committed, history>>

-----------------------------------------------------------------------------
(* What has become of it by the commit                                       *)

MarketCurrent(s) == session[s].row = Row(session[s].market)

RowsCurrent(s) == session[s].live = RowsOf(session[s].who, bets[session[s].market])

EntriesCurrent(s) ==
    session[s].request \in {"settle", "cancel"} =>
        session[s].paid = PaidAlready(session[s].request, session[s].market)

DecisionCurrent(s) == session[s].request = "decide" => decisions[session[s].market] = 0

PointsCurrent(s) == session[s].request = "allocate" => \A m \in session[s].who : session[s].points <= balance[m]

Fresh(s) ==
    MarketCurrent(s) /\ RowsCurrent(s) /\ EntriesCurrent(s) /\ DecisionCurrent(s) /\ PointsCurrent(s)

\* Every commit ends its session and notes what was stale.
Ends(s, deleted) ==
    LET k == session[s].market
        allocates == session[s].request = "allocate"
    IN  /\ session' = [t \in Slots |->
               IF t = s THEN Idle
               ELSE IF session[t].market = k THEN [session[t] EXCEPT !.live = @ \ deleted]
               ELSE session[t]]
        /\ staleMarkets' =
               IF MarketCurrent(s) /\ EntriesCurrent(s) /\ DecisionCurrent(s) /\ (RowsCurrent(s) \/ allocates)
               THEN staleMarkets ELSE staleMarkets \cup {k}
        /\ staleRows' =
               IF RowsCurrent(s) \/ ~allocates THEN staleRows ELSE staleRows \cup ({k} \X session[s].who)
        /\ committed' = committed + 1
        /\ stalePoints' = IF PointsCurrent(s) THEN stalePoints ELSE stalePoints \cup session[s].who
        /\ UNCHANGED <<now, joined, closesAt, resolveAt, late>>

-----------------------------------------------------------------------------
(* Writing                                                                   *)

\* An INSERT meets a row that this session did not delete: uq_bet_market_member_outcome.
Conflicts(s, m) ==
    \E o \in Outcomes :
        /\ session[s].allocation[o] > 0
        /\ bets[session[s].market][m][o] > 0 /\ <<m, o>> \notin session[s].live

RowsLeftAdded(s, m) ==                                   \* wrong: no DELETE, the new stakes are added
    [o \in Outcomes |-> bets[session[s].market][m][o] + Stored(session[s].allocation[o])]

RowsLeftKept(s, m) ==                                    \* wrong: outcomes no longer named keep their rows
    [o \in Outcomes |->
        IF session[s].allocation[o] > 0 THEN Stored(session[s].allocation[o])
        ELSE bets[session[s].market][m][o]]

\* The rows that are left: a DELETE is by id, and finds nothing where another
\* request has deleted the row.
RowsLeft(s, m) ==
    [o \in Outcomes |->
        IF session[s].allocation[o] > 0 THEN Stored(session[s].allocation[o])
        ELSE IF <<m, o>> \in session[s].live THEN 0
        ELSE bets[session[s].market][m][o]]

LockOnTop(s, m) == Stored(Stake(session[s].allocation))     \* wrong: no BET_REFUND

\* The entries: BET_REFUND of the stakes that were read, BET_LOCK of the total.
Lock(s, m) == Stored(Stake(session[s].allocation)) - Stake(session[s].seen[m])

\* place_allocation from the first entry to the commit.
CommitAllocation(s, m) ==
    LET k == session[s].market
    IN  /\ session[s].request = "allocate" /\ session[s].at = "checked"
        /\ m \in session[s].who
        /\ ~Conflicts(s, m)
        /\ bets' = [bets EXCEPT ![k] = [@ EXCEPT ![m] = RowsLeft(s, m)]]
        /\ locked' = [locked EXCEPT ![k][m] = @ + Lock(s, m)]
        /\ balance' = [balance EXCEPT ![m] = @ - Lock(s, m)]
        /\ Ends(s, session[s].live)
        /\ UNCHANGED <<payout, refund, status, reference, winner, decision, decisions>>

\* close_market.
CommitClose(s, price) ==
    LET k == session[s].market
    IN  /\ session[s].request = "close"
        /\ reference' = [reference EXCEPT ![k] = price]
        /\ status' = [status EXCEPT ![k] = "CLOSED"]
        /\ Ends(s, {})
        /\ UNCHANGED <<ledgerVars, winner, bets, decision, decisions>>

\* build_decision. Nothing keeps a market from having two.
CommitDecision(s, price, held) ==
    LET k == session[s].market
    IN  /\ session[s].request = "decide" /\ session[s].at = "loaded"
        /\ decision' = [decision EXCEPT ![k] = DecisionFor(ComputeConsensus(session[s].seen), price, held)]
        /\ decisions' = [decisions EXCEPT ![k] = @ + 1]
        /\ status' = [status EXCEPT ![k] = "DECIDED"]
        /\ Ends(s, {})
        /\ UNCHANGED <<ledgerVars, reference, winner, bets>>

\* resolve_market.
CommitResolve(s, price) ==
    LET k == session[s].market
    IN  /\ session[s].request = "resolve"
        /\ winner' = [winner EXCEPT ![k] = ResolveOutcome(session[s].row.reference, price)]
        /\ status' = [status EXCEPT ![k] = "RESOLVED"]
        /\ Ends(s, {})
        /\ UNCHANGED <<ledgerVars, reference, bets, decision, decisions>>

WinningsAndStake(s) ==                                   \* wrong: a payout includes the stake already
    [m \in Members |->
        SettleParimutuel(session[s].seen, session[s].row.winner)[m]
            + session[s].seen[m][session[s].row.winner]]

\* What settle_market pays: nobody who has a PAYOUT entry.
Winnings(s) ==
    [m \in Members |->
        IF m \in session[s].paid THEN 0
        ELSE SettleParimutuel(session[s].seen, session[s].row.winner)[m]]

\* settle_market. It writes bets.payout: the UPDATE of a row that has been
\* deleted matches nothing, and the session raises StaleDataError. Rows that an
\* earlier settlement has filled in may need no UPDATE.
CommitSettlement(s) ==
    LET k   == session[s].market
        due == Winnings(s)
    IN  /\ session[s].request = "settle" /\ session[s].at = "checked"
        /\ session[s].live = RowsOf(Members, session[s].seen) \/ session[s].paid # {}
        /\ payout' = [payout EXCEPT ![k] = [m \in Members |-> @[m] + due[m]]]
        /\ balance' = [m \in Members |-> balance[m] + due[m]]
        /\ status' = [status EXCEPT ![k] = "SETTLED"]
        /\ Ends(s, {})
        /\ UNCHANGED <<locked, refund, reference, winner, bets, decision, decisions>>

\* cancel_market.
CommitCancellation(s) ==
    LET k   == session[s].market
        due == [m \in Members |->
                   IF m \in session[s].paid THEN 0 ELSE Stake(session[s].seen[m])]
    IN  /\ session[s].request = "cancel" /\ session[s].at = "checked"
        /\ refund' = [refund EXCEPT ![k] = [m \in Members |-> @[m] + due[m]]]
        /\ balance' = [m \in Members |-> balance[m] + due[m]]
        /\ status' = [status EXCEPT ![k] = "CANCELLED"]
        /\ Ends(s, {})
        /\ UNCHANGED <<locked, payout, reference, winner, bets, decision, decisions>>

\* The request raises - a check, a quote, a constraint - or its server stops.
Abandon(s) ==
    /\ session[s].request # None
    /\ session' = [session EXCEPT ![s] = Idle]
    /\ UNCHANGED <<vars, decisions, committed, history>>

-----------------------------------------------------------------------------

MemberArrives ==
    \E s \in Slots, k \in Markets, m \in Members, allocation \in Allocations :
        BeginAllocation(s, k, m, allocation)

AdministratorArrives ==
    \E s \in Slots, k \in Managed :
        \/ \E request \in {"close", "resolve"} : Begin(s, request, k, {}, NoStakes)
        \/ \E request \in {"decide", "settle", "cancel"} : Begin(s, request, k, Members, NoStakes)

Read ==
    \E s \in Slots :
        \/ Load(s)
        \/ \E m \in Members : CheckPoints(s, m)
        \/ CheckEntries(s)

Write ==
    \E s \in Slots :
        \/ \E m \in Members : CommitAllocation(s, m)
        \/ \E price \in Prices : CommitClose(s, price)
        \/ \E price \in Prices, held \in Holdings : CommitDecision(s, price, held)
        \/ \E price \in Prices : CommitResolve(s, price)
        \/ CommitSettlement(s)
        \/ CommitCancellation(s)

SessionsNext == MemberArrives \/ AdministratorArrives \/ Read \/ Write \/ (\E s \in Slots : Abandon(s))

SessionsSpec == SessionsInit /\ [][SessionsNext]_allVars

-----------------------------------------------------------------------------

SessionsTypeOK ==
    /\ TypeOK
    /\ session \in [Slots ->
           [request : Requests \cup {None}, at : {None, "begun", "loaded", "checked"},
            market : Markets \cup {None},
            row : [status : MarketStatuses \cup {None}, reference : Prices \cup {0},
                   winner : Outcomes \cup {None}],
            who : SUBSET Members, allocation : [Outcomes -> Entries], seen : Books,
            live : SUBSET (Members \X Outcomes), points : Int, paid : SUBSET Members]]
    /\ decisions \in [Markets -> Nat]
    /\ committed \in 0..MaxCommits
    /\ staleMarkets \subseteq Markets
    /\ staleRows \subseteq Markets \X Members
    /\ stalePoints \subseteq Members

-----------------------------------------------------------------------------
(* Safety                                                                    *)

CommitsFresh(s) ==
    session[s].request # None /\ session'[s].request = None /\ Fresh(s)

\* A commit whose reads still hold is a step of MarketLifecycle, whatever else
\* is in progress: overlap does harm only through stale reads, and all that is
\* shown of MarketLifecycle holds until the first of them (api/v1/markets.py).
FreshCommitsAreSerial == [][\A s \in Slots : CommitsFresh(s) => Next]_vars

\* Locks and rows of a member in a market part only where two allocations of
\* that member in that market replaced the same rows (market_service.py:84-128).
EscrowUnlessReplacedTwice ==
    \A k \in Markets, m \in Members :
        <<k, m>> \notin staleRows => locked[k][m] = Stake(bets[k][m])

\* Only a member's own allocation can overdraw it, one that commits after another
\* of its allocations has taken the points it saw: rows replaced twice, requests
\* of others and of the administrators never do (market_service.py:84-101).
NoOverdraftByOthers == \A m \in Members : balance[m] < 0 => m \in stalePoints

\* A market that nobody wrote on stale grounds hands out its points once, at the
\* end, however many settlements and cancellations were under way
\* (settlement.py:70-126, 131-155).
HandedOutOnce ==
    \A k \in Markets \ staleMarkets :
        /\ status[k] = "SETTLED" => Disbursed(k) = PoolOf(bets[k]) - RakeOf(bets[k], winner[k])
        /\ status[k] = "CANCELLED" => Disbursed(k) = PoolOf(bets[k])
        /\ status[k] \notin {"SETTLED", "CANCELLED"} => Disbursed(k) = 0

\* Even allocations that overdraw a member make and lose no points: that takes
\* a stale market or rows replaced twice (ledger_service.py:14-20).
ConservedUnlessStale ==
    staleMarkets = {} /\ staleRows = {} =>
        SumFunction(balance) + SumFunction([k \in Markets |-> Outstanding(k)])
            = InitialPoints * Cardinality(Members)

\* A market that nobody wrote on stale grounds has at most one decision, and it
\* rests on the stakes of the book that will be settled (market_service.py:170-245).
OneDecisionOnTheBook ==
    \A k \in Markets \ staleMarkets :
        /\ decisions[k] <= 1
        /\ decision[k].status = "PENDING_APPROVAL" =>
               LET consensus == ComputeConsensus(bets[k])
               IN  /\ decision[k].action = consensus.leader
                   /\ decision[k].total = consensus.total
                   /\ Qualified(consensus, decision[k].electorate)

KeepsPublishedBook(k) ==
    status[k] # "OPEN" =>
        bets'[k] = bets[k] /\ reference'[k] = reference[k] /\ status'[k] # "OPEN"

\* No stake and no reference price changes after the close, unless a request
\* that read the market before it commits after it (ARCHITECTURE.md:45).
FrozenUnlessStale == [][\A k \in Markets \ staleMarkets' : KeepsPublishedBook(k)]_allVars
=============================================================================
