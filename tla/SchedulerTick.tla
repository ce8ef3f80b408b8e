---------------------------- MODULE SchedulerTick ----------------------------
(* scheduler.tick as the database sees it: one transaction closes every due   *)
(* market and a second one judges and settles every due market. A market that *)
(* raises rolls back what the transaction has done so far, and the loop goes   *)
(* on. Administrators close, decide, approve, judge, settle and cancel markets *)
(* themselves meanwhile, and the server restarts.                              *)
(*                                                                            *)
(* Sessions do not lock what they read (READ COMMITTED, db/session.py:17-24):  *)
(* a market keeps the status it was loaded with until it is written or the     *)
(* session rolls back. A row that was written is locked until the commit.      *)
EXTENDS Domain, FiniteSets

CONSTANTS
    Markets,
    Admins,         \* administrators, with a request each at a time
    Managed,        \* bound: markets that administrators take in hand
    Suspended,      \* markets whose ticker the broker never quotes
    Horizon,        \* the clock saturates here
    MaxFaults       \* bound: quotes that fail for the moment, and restarts

ASSUME SchedulerAssumption ==
    /\ Managed \subseteq Markets /\ Suspended \subseteq Markets
    /\ Horizon \in Nat /\ MaxFaults \in Nat

VARIABLES
    now,
    status, closesAt, resolveAt,    \* committed rows of markets
    decided,        \* markets with a committed TradeDecision
    pending,        \* decisions that await approval: the market and who decided it
    paidOut,        \* markets with committed PAYOUT entries
    refunded,       \* markets with committed CANCEL_REFUND entries
    tick,           \* the scheduler's job and its session
    request,        \* each administrator's request
    stale,          \* history: markets written by a step their new status refuses
    late,           \* history: markets approved after their end
    faults          \* failures so far

marketVars == <<status, closesAt, resolveAt, decided, pending, paidOut, refunded>>
history == <<stale, late>>
vars == <<now, marketVars, tick, request, history, faults>>

Nothing == [k \in Markets |-> None]

\* seen: the status the session has loaded, None when it must read it again.
\* written: the status it has flushed.
NoTick == [phase |-> "idle", time |-> 0, queue |-> {}, seen |-> Nothing, written |-> Nothing]

\* seen: the status it has read; maker: who made the decision it approves.
Idle == [kind |-> None, market |-> None, seen |-> None, maker |-> None]

Init ==
    /\ now = 0
    /\ status = Nothing
    /\ closesAt = [k \in Markets |-> 0]
    /\ resolveAt = [k \in Markets |-> 0]
    /\ decided = {} /\ pending = {} /\ paidOut = {} /\ refunded = {}
    /\ tick = NoTick
    /\ request = [a \in Admins |-> Idle]
    /\ stale = {} /\ late = {}
    /\ faults = 0

-----------------------------------------------------------------------------
(* What both the tick and the administrators do to a market                  *)

\* The statuses each step accepts, and the one it leaves.
Accepted ==
    [close |-> {"OPEN"}, decide |-> {"CLOSED"}, resolve |-> {"CLOSED", "DECIDED", "EXECUTED"},
     settle |-> {"RESOLVED"}, cancel |-> MarketStatuses \ {"SETTLED", "CANCELLED"},
     approve |-> MarketStatuses]
Left ==
    [close |-> "CLOSED", decide |-> "DECIDED", resolve |-> "RESOLVED",
     settle |-> "SETTLED", cancel |-> "CANCELLED", approve |-> "EXECUTED"]
Kinds == DOMAIN Accepted

\* The scheduler, among those who make decisions.
Job == "tick"

\* A step that commits now would not be accepted any more.
Stale(kind, seen, committed) == committed # seen /\ committed \notin Accepted[kind]

-----------------------------------------------------------------------------
(* The tick                                                                  *)

\* The two queries.
DueLate(phase, k, time) ==                               \* wrong: the deadline itself is not due
    IF phase = "closing" THEN status[k] \in Accepted.close /\ closesAt[k] < time
                         ELSE status[k] \in Accepted.resolve /\ resolveAt[k] < time
Due(phase, k, time) ==
    IF phase = "closing" THEN status[k] \in Accepted.close /\ closesAt[k] <= time
                         ELSE status[k] \in Accepted.resolve /\ resolveAt[k] <= time

Loaded(phase, time) ==
    LET due == {k \in Markets : Due(phase, k, time)}
    IN  [phase |-> phase, time |-> time, queue |-> due, written |-> Nothing,
         seen |-> [k \in Markets |-> IF k \in due THEN status[k] ELSE None]]

StartClosing ==
    /\ tick.phase = "idle"
    /\ tick' = Loaded("closing", now)
    /\ UNCHANGED <<now, marketVars, request, history, faults>>

StartResolving ==
    /\ tick.phase = "between"
    /\ tick' = Loaded("resolving", tick.time)
    /\ UNCHANGED <<now, marketVars, request, history, faults>>

StatusSeen(k) == IF tick.seen[k] = None THEN status[k] ELSE tick.seen[k]

\* The first step of the try block in each phase.
Step == IF tick.phase = "closing" THEN "close" ELSE "resolve"

\* The status check of close_market or of resolve_market; build_decision finds no decision.
ReadyUnchecked(k) == tick.phase = "closing" => StatusSeen(k) = "OPEN" /\ k \notin decided    \* wrong: resolve_market trusts the query
Ready(k) ==
    /\ StatusSeen(k) \in Accepted[Step]
    /\ tick.phase = "closing" => k \notin decided

\* What the two calls of the try block make of the status.
NextStatusOfDecision == IF tick.phase = "closing" THEN "PENDING_APPROVAL" ELSE "SETTLED"    \* wrong: the decision's status
NextStatus == IF tick.phase = "closing" THEN "DECIDED" ELSE "SETTLED"

\* Both calls of the try block succeed and are flushed. No ORDER BY: the queue
\* is worked off in any order.
Succeed(k) ==
    /\ k \in tick.queue
    /\ Ready(k) /\ k \notin Suspended
    /\ tick' = [tick EXCEPT !.queue = @ \ {k}, !.seen[k] = StatusSeen(k), !.written[k] = NextStatus]
    /\ UNCHANGED <<now, marketVars, request, history, faults>>

\* What the session holds after a failure: the rollback undoes the flushes and
\* expires every loaded market.
AfterFailureKept(k) ==                                   \* wrong: no rollback, the flush of the first call stays
    [tick EXCEPT !.queue = @ \ {k},
                 !.written[k] = IF tick.phase = "closing" THEN "CLOSED" ELSE "RESOLVED"]
AfterFailure(k) ==
    [tick EXCEPT !.queue = @ \ {k}, !.written = Nothing, !.seen = Nothing]

\* One of the two calls raises: its status check, or a quote.
Fail(k) ==
    LET persistent == ~Ready(k) \/ k \in Suspended
    IN  /\ k \in tick.queue
        /\ persistent \/ faults < MaxFaults
        /\ faults' = IF persistent THEN faults ELSE faults + 1
        /\ tick' = AfterFailure(k)
        /\ UNCHANGED <<now, marketVars, request, history>>

\* session_scope commits when the loop is over. It writes over whatever has
\* become of a market since it was loaded. A decision of the consensus awaits
\* approval or is SKIPPED.
Commit ==
    LET wrote(s) == {k \in Markets : tick.written[k] = s}
    IN  /\ tick.phase \in {"closing", "resolving"}
        /\ tick.queue = {}
        /\ status' = [k \in Markets |-> IF tick.written[k] = None THEN status[k] ELSE tick.written[k]]
        /\ decided' = decided \cup wrote("DECIDED")
        /\ \E asked \in SUBSET wrote("DECIDED") : pending' = pending \cup (asked \X {Job})
        /\ paidOut' = paidOut \cup wrote("SETTLED")
        /\ stale' = stale \cup {k \in Markets : /\ tick.written[k] # None
                                               /\ Stale(Step, tick.seen[k], status[k])}
        /\ tick' = IF tick.phase = "closing" THEN [NoTick EXCEPT !.phase = "between", !.time = tick.time]
                                             ELSE NoTick
        /\ UNCHANGED <<now, closesAt, resolveAt, refunded, request, late, faults>>

-----------------------------------------------------------------------------
(* Everybody else                                                            *)

CreateMarket(k, closes, resolves) ==
    /\ status[k] = None
    /\ closes < resolves
    /\ status' = [status EXCEPT ![k] = "OPEN"]
    /\ closesAt' = [closesAt EXCEPT ![k] = closes]
    /\ resolveAt' = [resolveAt EXCEPT ![k] = resolves]
    /\ UNCHANGED <<now, decided, pending, paidOut, refunded, tick, request, history, faults>>

\* A request of an administrator reads the market and checks its status; a
\* second decision is refused. An approval checks the decision only.
Begin(a, kind, k, maker) ==
    /\ request[a] = Idle
    /\ status[k] \in Accepted[kind]
    /\ kind = "decide" => k \notin decided
    /\ IF kind = "approve" THEN <<k, maker>> \in pending ELSE maker = None
    /\ request' = [request EXCEPT ![a] = [kind |-> kind, market |-> k, seen |-> status[k], maker |-> maker]]
    /\ UNCHANGED <<now, marketVars, tick, history, faults>>

\* It writes and commits, over whatever has become of the market, once the tick
\* does not hold the row.
Ends(a, kind) ==
    /\ request[a].kind = kind
    /\ tick.written[request[a].market] = None
    /\ status' = [status EXCEPT ![request[a].market] = Left[kind]]
    /\ stale' = IF Stale(kind, request[a].seen, status[request[a].market])
                THEN stale \cup {request[a].market} ELSE stale
    /\ request' = [request EXCEPT ![a] = Idle]
    /\ UNCHANGED <<now, closesAt, resolveAt, tick, late, faults>>

EndClose(a) == Ends(a, "close") /\ UNCHANGED <<decided, pending, paidOut, refunded>>

EndDecide(a) ==
    /\ Ends(a, "decide")
    /\ decided' = decided \cup {request[a].market}
    /\ pending' \in {pending, pending \cup {<<request[a].market, a>>}}
    /\ UNCHANGED <<paidOut, refunded>>

EndResolve(a) == Ends(a, "resolve") /\ UNCHANGED <<decided, pending, paidOut, refunded>>

EndSettle(a) ==
    /\ Ends(a, "settle")
    /\ paidOut' = paidOut \cup {request[a].market}
    /\ UNCHANGED <<decided, pending, refunded>>

EndCancel(a) ==
    /\ Ends(a, "cancel")
    /\ refunded' = refunded \cup {request[a].market}
    /\ UNCHANGED <<decided, pending, paidOut>>

\* execute_decision after the order was placed. A market that was EXECUTED when
\* it was read is not written again.
EndApprove(a) ==
    LET k == request[a].market
        writes == request[a].seen # "EXECUTED"
    IN  /\ request[a].kind = "approve"
        /\ writes => tick.written[k] = None
        /\ status' = IF writes THEN [status EXCEPT ![k] = "EXECUTED"] ELSE status
        /\ late' = IF writes /\ status[k] \in {"SETTLED", "CANCELLED"} THEN late \cup {k} ELSE late
        /\ pending' = pending \ {<<k, request[a].maker>>}
        /\ request' = [request EXCEPT ![a] = Idle]
        /\ UNCHANGED <<now, closesAt, resolveAt, decided, paidOut, refunded, tick, stale, faults>>

\* A decision is rejected.
Reject(decision) ==
    /\ decision \in pending
    /\ pending' = pending \ {decision}
    /\ UNCHANGED <<now, status, closesAt, resolveAt, decided, paidOut, refunded, tick, request,
                   history, faults>>

\* A quote fails, the guard blocks the order, the broker refuses it: nothing is committed.
Abandon(a) ==
    /\ request[a] # Idle
    /\ request' = [request EXCEPT ![a] = Idle]
    /\ UNCHANGED <<now, marketVars, tick, history, faults>>

\* The process dies: open transactions are gone.
Restart ==
    /\ faults < MaxFaults
    /\ faults' = faults + 1
    /\ tick' = NoTick
    /\ request' = [a \in Admins |-> Idle]
    /\ UNCHANGED <<now, marketVars, history>>

\* Every deadline lies within Horizon: past it time changes nothing.
Advance ==
    /\ now < Horizon
    /\ now' = now + 1
    /\ UNCHANGED <<marketVars, tick, request, history, faults>>

-----------------------------------------------------------------------------

Tick == StartClosing \/ StartResolving \/ (\E k \in Markets : Succeed(k) \/ Fail(k)) \/ Commit

Open == \E k \in Markets, closes, resolves \in 0..Horizon : CreateMarket(k, closes, resolves)
Call == \E a \in Admins, kind \in Kinds, k \in Managed, maker \in Admins \cup {Job, None} :
            Begin(a, kind, k, maker)
Answer == \E a \in Admins :
              \/ EndClose(a) \/ EndDecide(a) \/ EndResolve(a) \/ EndSettle(a)
              \/ EndCancel(a) \/ EndApprove(a) \/ Abandon(a)

Next == Tick \/ Open \/ Call \/ Answer \/ (\E p \in pending : Reject(p)) \/ Restart \/ Advance

\* The job runs every scheduler_interval_seconds (scheduler.py:72-80) and time
\* passes. Nobody has to create a market or to send or finish a request.
Fairness == WF_vars(Tick) /\ WF_vars(Advance)

Spec == Init /\ [][Next]_vars /\ Fairness

-----------------------------------------------------------------------------

Statuses == MarketStatuses \cup {None}
Makers == Admins \cup {Job}
Requests == [kind : Kinds, market : Markets, seen : MarketStatuses, maker : Makers \cup {None}]

TypeOK ==
    /\ now \in 0..Horizon
    /\ status \in [Markets -> Statuses]
    /\ closesAt \in [Markets -> 0..Horizon] /\ resolveAt \in [Markets -> 0..Horizon]
    /\ decided \subseteq Markets /\ paidOut \subseteq Markets /\ refunded \subseteq Markets
    /\ pending \subseteq Markets \X Makers
    /\ tick \in [phase : {"idle", "closing", "between", "resolving"}, time : 0..Horizon,
                 queue : SUBSET Markets, seen : [Markets -> Statuses], written : [Markets -> Statuses]]
    /\ request \in [Admins -> Requests \cup {Idle}]
    /\ stale \subseteq Markets /\ late \subseteq Markets
    /\ faults \in 0..MaxFaults

Finishes(a, k, s) == request[a].market = k /\ request'[a] = Idle /\ Left[request[a].kind] = s

\* The two calls of a try block reach the database together or not at all, also
\* when a later market fails or the server dies: a market becomes CLOSED or
\* RESOLVED by an administrator's request only, DECIDED with its decision and
\* SETTLED with its payouts (scheduler.py:39-61).
StepsAreWhole ==
    [][\A k \in Markets : status'[k] # status[k] =>
           /\ status'[k] \in {"CLOSED", "RESOLVED"} => \E a \in Admins : Finishes(a, k, status'[k])
           /\ status'[k] = "DECIDED" => k \in decided'
           /\ status'[k] = "SETTLED" => k \in paidOut']_vars

\* Whatever the tick and the administrators do to a market, it is never both
\* refunded and paid out, and its status says which, until somebody commits a
\* step on a status that has changed since and would refuse it, or an order of
\* the market is approved after its end (scheduler.py:49-61, settlement.py:129-155).
PaidOrRefunded ==
    \A k \in Markets \ (stale \cup late) :
        /\ ~(k \in paidOut /\ k \in refunded)
        /\ k \in paidOut => status[k] = "SETTLED"
        /\ k \in refunded => status[k] = "CANCELLED"

\* If every ticker is quoted again some day, no market stays where the tick has
\* work to do: it is settled or cancelled without anybody's help, or an
\* administrator has judged it and is to settle it (scheduler.py:1-5, 49-53).
EveryMarketEnds ==
    \A k \in Markets : status[k] \in {"OPEN", "CLOSED", "DECIDED", "EXECUTED"}
                            ~> status[k] \in {"SETTLED", "CANCELLED", "RESOLVED"}

-----------------------------------------------------------------------------
(* What the documents say and the code does not do                           *)

\* scheduler.py:42: "one failing does not keep the other markets from being
\* processed". The rollback takes back the markets processed before it, and a
\* ticker that is never quoted does so in every tick.
OthersAreProcessed ==
    \A k \in Markets \ Suspended : status[k] = "OPEN" ~> status[k] # "OPEN"
=============================================================================
