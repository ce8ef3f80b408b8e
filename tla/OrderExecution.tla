---------------------------- MODULE OrderExecution ----------------------------
(* From an approval to an order at the broker: execute_decision with its risk *)
(* guard, the broker's answer, and the commit that follows it, each a step of *)
(* its own, so that answers get lost, the requests of several administrators  *)
(* overlap, time passes and the server restarts between them. Nothing that a   *)
(* request reads is locked. Positions are what sync_positions last read.      *)
(*                                                                            *)
(* The broker fills an order when it accepts it, as MockBroker does, and may   *)
(* refuse it or lose its answer, as KIS may behind KISClient.post. Quotes do   *)
(* not move here, so a holding is worth its price and costs it.               *)
EXTENDS Domain, FiniteSets, Functions, Sequences

CONSTANTS
    Admins,                     \* administrators, with a request each at a time
    DecisionIds, Funds, Tickers,
    Price,                      \* the price of each ticker
    Notional,                   \* Market.notional_krw
    InitialCash,                \* cash in the broker's account
    MaxOrder,                   \* settings.max_order_amount_krw
    MaxDailyOrders,             \* settings.max_daily_orders
    WeightNum, WeightDen,       \* settings.max_position_weight
    Day,                        \* 24 hours, in ticks
    OpenTimes,                  \* ticks at which current_session().is_open
    Horizon, MaxAttempts        \* bounds: of the clock, of approvals of one decision

ASSUME ExecutionAssumption ==
    /\ IsFiniteSet(Tickers) /\ IsFiniteSet(Admins)
    /\ Price \in [Tickers -> Nat \ {0}]
    /\ Notional \in Nat /\ InitialCash \in Nat /\ MaxOrder \in Nat /\ MaxDailyOrders \in Nat
    /\ WeightNum \in Nat /\ WeightDen \in Nat \ {0}
    /\ Day \in Nat /\ Horizon \in Nat /\ MaxAttempts \in Nat

VARIABLES
    now,            \* the wall clock
    killSwitch,     \* settings.kill_switch, read when the server starts
    decision,       \* rows of trade_decisions
    orders,         \* committed rows of orders, all SUBMITTED, in commit order
    position,       \* positions.quantity of a fund and ticker
    request,        \* each administrator's approval or rejection
    cash, holdings, \* the broker's account
    booked,         \* orders the broker accepted for a decision
    attempts,       \* history: orders rows that approvals of a decision have added
    overlapped,     \* history: an approval passed the guard while another was under way
    contested       \* history: decisions executed while another request had read them

brokerVars == <<cash, holdings, booked>>
history == <<attempts, overlapped, contested>>
vars == <<now, killSwitch, decision, orders, position, request, brokerVars, history>>

NoDecision == [status |-> None, action |-> None, fund |-> None, ticker |-> None, quantity |-> 0]

\* began: when the transaction started, which the database takes for created_at.
\* submitted: when the broker's answer came.
RequestFor(d, step, began) == [at |-> step, decision |-> d, began |-> began, submitted |-> 0]
Idle == RequestFor(None, None, 0)

Init ==
    /\ now = 0
    /\ killSwitch \in BOOLEAN
    /\ decision = [d \in DecisionIds |-> NoDecision]
    /\ orders = <<>>
    /\ position = [f \in Funds |-> [t \in Tickers |-> 0]]
    /\ request = [a \in Admins |-> Idle]
    /\ cash = InitialCash
    /\ holdings = [t \in Tickers |-> 0]
    /\ booked = [d \in DecisionIds |-> 0]
    /\ attempts = [d \in DecisionIds |-> 0]
    /\ overlapped = FALSE
    /\ contested = {}

-----------------------------------------------------------------------------
(* Decisions and positions                                                   *)

\* build_decision for a consensus that calls for an order; what else it does is
\* MarketLifecycle's. BUY spends the notional, SELL clears the local position.
BuildDecision(d, f, t, action) ==
    LET quantity == IF action = "BUY" THEN Notional \div Price[t] ELSE position[f][t]
    IN  /\ decision[d].status = None
        /\ quantity > 0
        /\ decision' = [decision EXCEPT ![d] =
               [status |-> "PENDING_APPROVAL", action |-> action,
                fund |-> f, ticker |-> t, quantity |-> quantity]]
        /\ UNCHANGED <<now, killSwitch, orders, position, request, brokerVars, history>>

RejectableAlways(d) == decision[d].status # None         \* wrong: an executed decision too
Rejectable(d) == decision[d].status = "PENDING_APPROVAL"

\* reject_decision reads the status ...
BeginReject(a, d) ==
    /\ request[a] = Idle
    /\ Rejectable(d)
    /\ request' = [request EXCEPT ![a] = RequestFor(d, "rejecting", 0)]
    /\ UNCHANGED <<now, killSwitch, decision, orders, position, brokerVars, history>>

\* ... and writes the decision over whatever has become of it.
EndReject(a) ==
    /\ request[a].at = "rejecting"
    /\ decision' = [decision EXCEPT ![request[a].decision] = [@ EXCEPT !.status = "REJECTED"]]
    /\ request' = [request EXCEPT ![a] = Idle]
    /\ UNCHANGED <<now, killSwitch, orders, position, brokerVars, history>>

\* sync_positions: the whole account becomes the fund's positions.
SyncPositions(f) ==
    /\ position' = [position EXCEPT ![f] = holdings]
    /\ UNCHANGED <<now, killSwitch, decision, orders, request, brokerVars, history>>

-----------------------------------------------------------------------------
(* check_order                                                               *)

Worth(d) == Price[decision[d].ticker] * decision[d].quantity

Equity == cash + SumFunction([t \in Tickers |-> Price[t] * holdings[t]])

\* _daily_order_count: rows of the fund no older than a day.
DailyOrders(f) ==
    Cardinality({i \in DOMAIN orders : orders[i].fund = f /\ orders[i].created >= now - Day})

BelowDailyLimitOffByOne(f) == DailyOrders(f) <= MaxDailyOrders    \* wrong: one order too many
BelowDailyLimit(f) == DailyOrders(f) < MaxDailyOrders

WithinPosition(d) ==
    decision[d].action = "SELL" =>
        decision[d].quantity <= position[decision[d].fund][decision[d].ticker]

AffordableUnchecked(d) == TRUE                           \* wrong: the cash is not looked at
Affordable(d) == decision[d].action = "BUY" => Worth(d) <= cash

\* The ticker's share of the account once the order is filled.
WithinWeightBefore(d) ==                                 \* wrong: the order itself is left out
    decision[d].action = "BUY" =>
        Price[decision[d].ticker] * holdings[decision[d].ticker] * WeightDen <= WeightNum * Equity
WithinWeight(d) ==
    decision[d].action = "BUY" /\ Equity > 0 =>
        (Price[decision[d].ticker] * holdings[decision[d].ticker] + Worth(d)) * WeightDen
            <= WeightNum * Equity

SwitchedOnIgnored == TRUE                                \* wrong: the kill switch is not looked at
SwitchedOn == ~killSwitch

Allowed(d) ==
    /\ SwitchedOn
    /\ decision[d].quantity > 0
    /\ Worth(d) <= MaxOrder
    /\ now \in OpenTimes
    /\ BelowDailyLimit(decision[d].fund)
    /\ WithinPosition(d)
    /\ Affordable(d)
    /\ WithinWeight(d)

-----------------------------------------------------------------------------
(* execute_decision                                                          *)

\* The transaction starts with the query that authenticates the administrator,
\* and the decision is read.
Begin(a, d) ==
    /\ request[a] = Idle
    /\ decision[d].status = "PENDING_APPROVAL"
    /\ request' = [request EXCEPT ![a] = RequestFor(d, "begun", now)]
    /\ UNCHANGED <<now, killSwitch, decision, orders, position, brokerVars, history>>

\* The guard comes to a verdict, by the clock and the account of this moment,
\* and an orders row is flushed that nobody else sees.
Judged(a) ==
    LET d == request[a].decision
    IN  /\ request[a].at = "begun"
        /\ attempts[d] < MaxAttempts
        /\ attempts' = [attempts EXCEPT ![d] = @ + 1]
        /\ UNCHANGED <<now, killSwitch, decision, orders, position, brokerVars, contested>>

Approve(a) ==
    /\ Judged(a)
    /\ Allowed(request[a].decision)
    /\ request' = [request EXCEPT ![a] = [@ EXCEPT !.at = "checked"]]
    /\ overlapped' = (overlapped \/ \E b \in Admins : request[b].at \in {"checked", "answered"})

\* The guard blocks the order, or the balance cannot be read. The exception
\* takes the REJECTED row and the FAILED decision with it: nothing is committed.
Block(a) ==
    /\ Judged(a)
    /\ ~Allowed(request[a].decision) \/ decision[request[a].decision].action = "BUY"
    /\ request' = [request EXCEPT ![a] = Idle]
    /\ UNCHANGED overlapped

LeftUnclamped(held, q) == held - q                       \* wrong: max(0, ...) is missing
Left(held, q) == IF held > q THEN held - q ELSE 0

\* The broker accepts and fills. A SELL of more than is held leaves nothing and
\* brings in the whole amount.
Fill(d) ==
    LET t == decision[d].ticker
        q == decision[d].quantity
    IN  /\ booked' = [booked EXCEPT ![d] = @ + 1]
        /\ IF decision[d].action = "BUY"
           THEN /\ cash' = cash - Worth(d)
                /\ holdings' = [holdings EXCEPT ![t] = @ + q]
           ELSE /\ cash' = cash + Worth(d)
                /\ holdings' = [holdings EXCEPT ![t] = Left(@, q)]

\* place_order returns.
Answered(a) ==
    /\ request[a].at = "checked"
    /\ Fill(request[a].decision)
    /\ request' = [request EXCEPT ![a] = [@ EXCEPT !.at = "answered", !.submitted = now]]
    /\ UNCHANGED <<now, killSwitch, decision, orders, position, history>>

\* place_order raises BrokerError: the request raises it again and rolls back.
RaisedSwallowed(a) == [request[a] EXCEPT !.at = "answered", !.submitted = now]    \* wrong: recorded as submitted
Raised(a) == Idle

\* The broker accepts and its answer is lost: post raises after a timeout.
AnswerLost(a) ==
    /\ request[a].at = "checked"
    /\ Fill(request[a].decision)
    /\ request' = [request EXCEPT ![a] = Raised(a)]
    /\ UNCHANGED <<now, killSwitch, decision, orders, position, history>>

\* The broker refuses the order or is not reached.
Refused(a) ==
    /\ request[a].at = "checked"
    /\ request' = [request EXCEPT ![a] = Raised(a)]
    /\ UNCHANGED <<now, killSwitch, decision, orders, position, brokerVars, history>>

\* approve_decision commits, over whatever has become of the decision.
Commit(a) ==
    LET d == request[a].decision
    IN  /\ request[a].at = "answered"
        /\ orders' = Append(orders, [decision |-> d, fund |-> decision[d].fund,
                                     created |-> request[a].began,
                                     submitted |-> request[a].submitted])
        /\ decision' = [decision EXCEPT ![d] = [@ EXCEPT !.status = "EXECUTED"]]
        /\ contested' = IF \E b \in Admins \ {a} : request[b].decision = d
                        THEN contested \cup {d} ELSE contested
        /\ request' = [request EXCEPT ![a] = Idle]
        /\ UNCHANGED <<now, killSwitch, position, brokerVars, attempts, overlapped>>

-----------------------------------------------------------------------------

\* The server stops and starts again, perhaps with other settings. Whatever was
\* in progress is gone.
Restart ==
    /\ request' = [a \in Admins |-> Idle]
    /\ killSwitch' \in BOOLEAN
    /\ UNCHANGED <<now, decision, orders, position, brokerVars, history>>

Advance ==
    /\ now' = IF now < Horizon THEN now + 1 ELSE now
    /\ UNCHANGED <<killSwitch, decision, orders, position, request, brokerVars, history>>

Decide == \E d \in DecisionIds, f \in Funds, t \in Tickers, action \in {"BUY", "SELL"} :
              BuildDecision(d, f, t, action)
Reject == \E a \in Admins : EndReject(a) \/ \E d \in DecisionIds : BeginReject(a, d)
Sync == \E f \in Funds : SyncPositions(f)
Check == \E a \in Admins : Approve(a) \/ Block(a) \/ \E d \in DecisionIds : Begin(a, d)
Place == \E a \in Admins : Answered(a) \/ AnswerLost(a) \/ Refused(a)
Record == \E a \in Admins : Commit(a)

Next == Decide \/ Reject \/ Sync \/ Check \/ Place \/ Record \/ Restart \/ Advance

Spec == Init /\ [][Next]_vars

-----------------------------------------------------------------------------

TypeOK ==
    /\ now \in 0..Horizon
    /\ killSwitch \in BOOLEAN
    /\ decision \in [DecisionIds ->
           [status : DecisionStatuses \cup {None}, action : Outcomes \cup {None},
            fund : Funds \cup {None}, ticker : Tickers \cup {None}, quantity : Nat]]
    /\ orders \in Seq([decision : DecisionIds, fund : Funds, created : 0..Horizon, submitted : 0..Horizon])
    /\ position \in [Funds -> [Tickers -> Nat]]
    /\ request \in [Admins ->
           [at : {None, "begun", "checked", "answered", "rejecting"}, decision : DecisionIds \cup {None},
            began : 0..Horizon, submitted : 0..Horizon]]
    /\ cash \in Int
    /\ holdings \in [Tickers -> Nat]
    /\ booked \in [DecisionIds -> Nat]
    /\ attempts \in [DecisionIds -> 0..MaxAttempts]
    /\ overlapped \in BOOLEAN
    /\ contested \subseteq DecisionIds

-----------------------------------------------------------------------------
(* Safety                                                                    *)

RowsOf(d) == Cardinality({i \in DOMAIN orders : orders[i].decision = d})

\* Whatever gets lost, refused or interrupted, no orders row claims an order the
\* broker did not accept (execution.py:110-130).
NoPhantomOrders == \A d \in DecisionIds : RowsOf(d) <= booked[d]

\* Unless a second request was at work on it when it was executed, a decision is
\* EXECUTED exactly when one order of it is on record, however often it was tried before
\* and whatever a rejection in between did (execution.py:36-54, 121-130).
ExecutedOnRecord ==
    \A d \in DecisionIds \ contested :
        RowsOf(d) = IF decision[d].status = "EXECUTED" THEN 1 ELSE 0

\* What overlapping approvals may add to a limit: one order for each of the
\* other administrators.
Overlap == IF overlapped THEN Cardinality(Admins) - 1 ELSE 0

\* The cash that check_order saw still covers the order when it is placed, also
\* after orders whose answers were lost; overlapping approvals overdraw the
\* account by at most one order limit for each but one (risk.py:111-120).
NeverOverspends == cash >= -(Overlap * MaxOrder)

\* Of the orders of a fund that were begun and submitted within the same 24
\* hours, wherever these begin, there are no more than the daily limit, and one
\* more for each but one of the approvals that overlap. An order begun in them
\* whose guard runs after them is not among these (risk.py:50-63, 100-104,
\* execution.py:125, db/base.py:22-24).
DailyLimitHolds ==
    \A i \in DOMAIN orders :
        Cardinality({j \in DOMAIN orders :
            /\ orders[j].fund = orders[i].fund
            /\ orders[j].created >= orders[i].created
            /\ orders[j].submitted <= orders[i].created + Day})
        <= MaxDailyOrders + Overlap

Bought(d) == decision[d].action = "BUY" /\ booked'[d] > booked[d]

\* Until approvals overlap, a purchase never leaves its ticker with more than its
\* share of the account, measured on the account it leaves behind (risk.py:122-139).
BuysKeepTheWeight ==
    [][\A d \in DecisionIds :
           Bought(d) /\ ~overlapped =>
               Price[decision[d].ticker] * holdings'[decision[d].ticker] * WeightDen
                   <= WeightNum * Equity']_vars

\* While the server runs with the kill switch on, no order reaches the broker,
\* not even one that was approved before the restart (risk.py:81-82).
KillSwitchStopsOrders == [][killSwitch => booked' = booked]_vars

-----------------------------------------------------------------------------
(* What the documents say and the code does not do                           *)

\* execution.py:51: "the Order row stays even on failure". The exception that
\* reports the failure keeps approve_decision from committing it.
FailuresLeaveARow ==
    \A d \in DecisionIds :
        (\A a \in Admins : request[a].decision # d) => RowsOf(d) = attempts[d]

Sold(d) == decision[d].action = "SELL" /\ booked'[d] > booked[d]

\* README.md:57: "a sell order cannot exceed the quantity held". The guard asks
\* the local positions, which an order does not change.
NeverOversells ==
    [][\A d \in DecisionIds :
           Sold(d) => decision[d].quantity <= holdings[decision[d].ticker]]_vars
=============================================================================
