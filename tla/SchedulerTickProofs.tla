------------------------- MODULE SchedulerTickProofs -------------------------
(* What SchedulerTick keeps for any markets, administrators, suspended tickers *)
(* and number of failures. Fairness plays no part in it.                                    *)
EXTENDS SchedulerTick, TLAPS

-----------------------------------------------------------------------------
(* Types                                                                     *)

Ticks ==
    [phase : {"idle", "closing", "between", "resolving"}, time : 0..Horizon,
     queue : SUBSET Markets, seen : [Markets -> Statuses], written : [Markets -> Statuses]]

\* No status is NONE, and statuses are strings like those the tick writes.
LEMMA StatusFacts ==
    /\ None \notin MarketStatuses
    /\ None \in Statuses
    /\ {"OPEN", "DECIDED", "SETTLED", "CANCELLED"} \subseteq MarketStatuses
    /\ MarketStatuses \subseteq Statuses
BY DEF None, MarketStatuses, Statuses

\* What the steps accept and leave are statuses of markets; none but an approval
\* accepts a market that has ended.
LEMMA StepFacts ==
    /\ Kinds = {"close", "decide", "resolve", "settle", "cancel", "approve"}
    /\ \A kind \in Kinds : Accepted[kind] \subseteq MarketStatuses /\ Left[kind] \in MarketStatuses
    /\ \A kind \in Kinds \ {"approve"} : "SETTLED" \notin Accepted[kind] /\ "CANCELLED" \notin Accepted[kind]
    /\ Accepted.close = {"OPEN"} /\ Accepted.resolve = {"CLOSED", "DECIDED", "EXECUTED"}
    /\ Left.close = "CLOSED" /\ Left.decide = "DECIDED" /\ Left.resolve = "RESOLVED"
    /\ Left.settle = "SETTLED" /\ Left.cancel = "CANCELLED" /\ Left.approve = "EXECUTED"
<1>1. Kinds = {"close", "decide", "resolve", "settle", "cancel", "approve"}
  BY DEF Kinds, Accepted
<1>. QED BY <1>1 DEF Accepted, Left, MarketStatuses

\* An empty session is one.
LEMMA NothingIsTyped ==
    /\ Nothing \in [Markets -> Statuses]
    /\ \A k \in Markets : Nothing[k] = None
BY StatusFacts DEF Nothing

\* The job at rest, before the tick and between its two transactions, has flushed
\* nothing and has nothing to do.
LEMMA NoTickIsTyped ==
    /\ NoTick \in Ticks /\ NoTick.queue = {} /\ NoTick.written = Nothing
    /\ \A time \in 0..Horizon :
           LET rest == [NoTick EXCEPT !.phase = "between", !.time = time]
           IN  rest \in Ticks /\ rest.queue = {} /\ rest.written = Nothing
<1>1. 0 \in 0..Horizon
  BY SchedulerAssumption
<1>2. NoTick \in Ticks
  BY <1>1, NothingIsTyped DEF NoTick, Ticks
<1>3. NoTick.queue = {} /\ NoTick.written = Nothing
  BY DEF NoTick
<1> HIDE DEF NoTick
<1>. QED BY <1>2, <1>3 DEF Ticks

\* A loaded session is typed, has flushed nothing and saw the statuses of the due.
LEMMA LoadedIsTyped ==
    ASSUME TypeOK, NEW phase \in {"closing", "resolving"}, NEW time \in 0..Horizon
    PROVE  /\ Loaded(phase, time) \in Ticks
           /\ Loaded(phase, time).written = Nothing
           /\ \A k \in Loaded(phase, time).queue : Due(phase, k, time)
<1> DEFINE due == {k \in Markets : Due(phase, k, time)}
           seen == [k \in Markets |-> IF k \in due THEN status[k] ELSE None]
<1>1. seen \in [Markets -> Statuses]
  BY StatusFacts DEF TypeOK
<1>2. Loaded(phase, time) =
          [phase |-> phase, time |-> time, queue |-> due, written |-> Nothing, seen |-> seen]
  BY DEF Loaded
<1>3. due \subseteq Markets
  OBVIOUS
<1> HIDE DEF seen
<1>4. Loaded(phase, time) \in Ticks
  BY <1>1, <1>2, <1>3, NothingIsTyped DEF Ticks
<1>. QED BY <1>2, <1>4

\* After a failure the session is empty.
LEMMA FailureIsTyped ==
    ASSUME TypeOK, NEW k \in Markets
    PROVE  /\ AfterFailure(k) \in Ticks
           /\ AfterFailure(k).written = Nothing /\ AfterFailure(k).seen = Nothing
<1>1. tick \in Ticks
  BY DEF TypeOK, Ticks
<1>. QED BY <1>1, NothingIsTyped DEF AfterFailure, Ticks

\* After a success the market has been flushed with its next status.
LEMMA SuccessIsTyped ==
    ASSUME TypeOK, NEW k \in Markets, Succeed(k)
    PROVE  /\ tick' \in Ticks
           /\ tick'.phase = tick.phase
           /\ tick'.written[k] \in {"DECIDED", "SETTLED"} /\ tick'.seen[k] = StatusSeen(k)
           /\ \A j \in Markets \ {k} :
                  tick'.written[j] = tick.written[j] /\ tick'.seen[j] = tick.seen[j]
<1>1. tick \in Ticks
  BY DEF TypeOK, Ticks
<1>2. NextStatus \in {"DECIDED", "SETTLED"}
  BY DEF NextStatus
<1>3. tick' = [tick EXCEPT !.queue = @ \ {k}, !.seen = [@ EXCEPT ![k] = StatusSeen(k)],
                           !.written = [@ EXCEPT ![k] = NextStatus]]
  BY DEF Succeed
<1>5. StatusSeen(k) \in Statuses
  BY <1>1 DEF TypeOK, StatusSeen, Ticks
<1>6. [tick.seen EXCEPT ![k] = StatusSeen(k)] \in [Markets -> Statuses]
  BY <1>1, <1>5 DEF Ticks
<1>4. [tick.written EXCEPT ![k] = NextStatus] \in [Markets -> Statuses]
  BY <1>1, <1>2, StatusFacts DEF Ticks
<1> HIDE DEF NextStatus, StatusSeen
<1>. QED BY <1>1, <1>2, <1>3, <1>4, <1>5, <1>6 DEF Ticks

\* The initial states are typed.
LEMMA TypeInit == Init => TypeOK
<1> SUFFICES ASSUME Init PROVE TypeOK
  OBVIOUS
<1>1. 0 \in 0..Horizon /\ 0 \in 0..MaxFaults
  BY SchedulerAssumption
<1>. QED BY <1>1, NoTickIsTyped, NothingIsTyped DEF Init, TypeOK, Ticks

\* So does what answers a request: every request names a market.
LEMMA AnswerIsTyped ==
    ASSUME TypeOK, NEW a \in Admins,
           EndClose(a) \/ EndDecide(a) \/ EndResolve(a) \/ EndSettle(a) \/ EndCancel(a)
               \/ EndApprove(a) \/ Abandon(a)
    PROVE  TypeOK'
<1> USE DEF TypeOK
<1>1. ASSUME NEW kind \in Kinds, Ends(a, kind)
      PROVE  /\ request[a] \in Requests
             /\ status' \in [Markets -> Statuses]
             /\ stale' \subseteq Markets
             /\ request' \in [Admins -> Requests \cup {Idle}]
  <2>1. request[a] \in Requests
    BY <1>1, StepFacts DEF Ends, Idle, None
  <2>2. Left[kind] \in Statuses
    BY StepFacts, StatusFacts
  <2>. QED BY <1>1, <2>1, <2>2 DEF Ends, Requests
<1>2. CASE EndClose(a)
  <2>. QED BY <1>1, <1>2, StepFacts DEF EndClose, Ends
<1>3. CASE EndDecide(a)
  <2>1. Ends(a, "decide") /\ "decide" \in Kinds
    BY <1>3, StepFacts DEF EndDecide
  <2>2. request[a].market \in Markets /\ a \in Makers
    BY <1>1, <2>1 DEF Requests, Makers
  <2>3. decided' \subseteq Markets /\ pending' \subseteq Markets \X Makers
    BY <1>3, <2>2 DEF EndDecide
  <2>. QED BY <1>1, <1>3, <2>1, <2>3 DEF EndDecide, Ends
<1>4. CASE EndResolve(a)
  <2>. QED BY <1>1, <1>4, StepFacts DEF EndResolve, Ends
<1>5. CASE EndSettle(a)
  <2>1. Ends(a, "settle") /\ "settle" \in Kinds
    BY <1>5, StepFacts DEF EndSettle
  <2>2. paidOut' \subseteq Markets
    BY <1>1, <1>5, <2>1 DEF EndSettle, Requests
  <2>. QED BY <1>1, <1>5, <2>1, <2>2 DEF EndSettle, Ends
<1>6. CASE EndCancel(a)
  <2>1. Ends(a, "cancel") /\ "cancel" \in Kinds
    BY <1>6, StepFacts DEF EndCancel
  <2>2. refunded' \subseteq Markets
    BY <1>1, <1>6, <2>1 DEF EndCancel, Requests
  <2>. QED BY <1>1, <1>6, <2>1, <2>2 DEF EndCancel, Ends
<1>7. CASE EndApprove(a)
  <2>1. request[a].market \in Markets
    BY <1>7 DEF EndApprove, Idle, None, Requests
  <2>2. status' \in [Markets -> Statuses] /\ late' \subseteq Markets
    BY <1>7, <2>1, StatusFacts, StepFacts DEF EndApprove, MarketStatuses, Statuses
  <2>. QED BY <1>7, <2>2 DEF EndApprove
<1>8. CASE Abandon(a)
  BY <1>8 DEF Abandon, marketVars, history
<1>. QED BY <1>2, <1>3, <1>4, <1>5, <1>6, <1>7, <1>8

\* Every step keeps the types.
LEMMA TypeStep == TypeOK /\ [Next]_vars => TypeOK'
<1> SUFFICES ASSUME TypeOK, [Next]_vars PROVE TypeOK'
  OBVIOUS
<1> USE DEF TypeOK
<1>0. tick \in Ticks
  BY DEF Ticks
<1>1. CASE StartClosing
  <2>1. tick' \in Ticks
    BY <1>1, LoadedIsTyped DEF StartClosing
  <2>. QED BY <1>1, <2>1 DEF StartClosing, marketVars, history, Ticks
<1>2. CASE StartResolving
  <2>1. tick' \in Ticks
    BY <1>2, LoadedIsTyped DEF StartResolving
  <2>. QED BY <1>2, <2>1 DEF StartResolving, marketVars, history, Ticks
<1>3. ASSUME NEW k \in Markets, Succeed(k)
      PROVE  TypeOK'
  <2>1. tick' \in Ticks
    BY <1>3, SuccessIsTyped
  <2>. QED BY <1>3, <2>1 DEF Succeed, marketVars, history, Ticks
<1>4. ASSUME NEW k \in Markets, Fail(k)
      PROVE  TypeOK'
  <2>1. tick' \in Ticks
    BY <1>4, FailureIsTyped DEF Fail
  <2>2. faults' \in 0..MaxFaults
    BY <1>4, SchedulerAssumption DEF Fail
  <2>. QED BY <1>4, <2>1, <2>2 DEF Fail, marketVars, history, Ticks
<1>5. CASE Commit
  <2>1. tick' \in Ticks
    BY <1>0, <1>5, NoTickIsTyped DEF Commit, Ticks
  <2>2. status' \in [Markets -> Statuses]
    BY <1>5 DEF Commit
  <2>3. stale' \subseteq Markets /\ pending' \subseteq Markets \X Makers
    BY <1>5 DEF Commit, Makers
  <2>. QED BY <1>5, <2>1, <2>2, <2>3 DEF Commit, Ticks
<1>6. ASSUME NEW k \in Markets, NEW closes \in 0..Horizon, NEW resolves \in 0..Horizon,
             CreateMarket(k, closes, resolves)
      PROVE  TypeOK'
  BY <1>6, StatusFacts DEF CreateMarket, history
<1>7. ASSUME NEW a \in Admins, NEW kind \in Kinds, NEW k \in Managed,
             NEW maker \in Admins \cup {Job, None}, Begin(a, kind, k, maker)
      PROVE  TypeOK'
  <2>1. [kind |-> kind, market |-> k, seen |-> status[k], maker |-> maker] \in Requests
    BY <1>7, SchedulerAssumption, StepFacts DEF Begin, Requests, Makers
  <2>. QED BY <1>7, <2>1 DEF Begin, marketVars, history
<1>8. ASSUME NEW a \in Admins,
             EndClose(a) \/ EndDecide(a) \/ EndResolve(a) \/ EndSettle(a) \/ EndCancel(a)
                 \/ EndApprove(a) \/ Abandon(a)
      PROVE  TypeOK'
  BY <1>8, AnswerIsTyped
<1>12. ASSUME NEW decision \in pending, Reject(decision)
       PROVE  TypeOK'
  BY <1>12 DEF Reject, history
<1>9. CASE Restart
  <2>1. faults' \in 0..MaxFaults
    BY <1>9, SchedulerAssumption DEF Restart
  <2>. QED BY <1>9, <2>1, NoTickIsTyped DEF Restart, marketVars, history, Ticks
<1>10. CASE Advance
  <2>1. now' \in 0..Horizon
    BY <1>10, SchedulerAssumption DEF Advance
  <2>. QED BY <1>10, <2>1 DEF Advance, marketVars, history
<1>11. CASE UNCHANGED vars
  BY <1>11 DEF vars, marketVars, history
<1>. QED BY <1>1, <1>2, <1>3, <1>4, <1>5, <1>6, <1>7, <1>8, <1>9, <1>10, <1>11, <1>12
        DEF Next, Tick, Open, Call, Answer

\* Whatever fails and restarts, the state of the tick is typed.
THEOREM SchedulerTypeCorrect == Spec => []TypeOK
BY TypeInit, TypeStep, PTL DEF Spec

-----------------------------------------------------------------------------
(* Steps are whole                                                           *)

\* What the tick has flushed is the status that the second call leaves.
WholeInv == \A k \in Markets : tick.written[k] \in {None, "DECIDED", "SETTLED"}

\* What StepsAreWhole says of a step.
WholeStep ==
    \A k \in Markets : status'[k] # status[k] =>
        /\ status'[k] \in {"CLOSED", "RESOLVED"} => \E a \in Admins : Finishes(a, k, status'[k])
        /\ status'[k] = "DECIDED" => k \in decided'
        /\ status'[k] = "SETTLED" => k \in paidOut'

\* Nothing is flushed yet.
LEMMA WholeInit == Init => WholeInv
BY NothingIsTyped, NoTickIsTyped DEF Init, WholeInv

\* A transaction starts with nothing flushed, and so does what follows it.
LEMMA NothingFlushed ==
    ASSUME TypeOK, StartClosing \/ StartResolving \/ Restart \/ Commit
    PROVE  \A k \in Markets : tick'.written[k] = None
<1>1. CASE StartClosing
  BY <1>1, LoadedIsTyped, NothingIsTyped DEF StartClosing, TypeOK
<1>2. CASE StartResolving
  BY <1>2, LoadedIsTyped, NothingIsTyped DEF StartResolving, TypeOK
<1>3. CASE Restart
  BY <1>3, NoTickIsTyped, NothingIsTyped DEF Restart
<1>4. CASE Commit
  BY <1>4, NoTickIsTyped, NothingIsTyped DEF Commit, TypeOK
<1>. QED BY <1>1, <1>2, <1>3, <1>4

\* Every step keeps it.
LEMMA WholeKept == TypeOK /\ WholeInv /\ [Next]_vars => WholeInv'
<1> SUFFICES ASSUME TypeOK, WholeInv, [Next]_vars PROVE WholeInv'
  OBVIOUS
<1>1. CASE StartClosing \/ StartResolving \/ Restart \/ Commit
  <2>1. \A k \in Markets : tick'.written[k] = None
    BY <1>1, NothingFlushed
  <2>. QED BY <2>1 DEF WholeInv
<1>2. ASSUME NEW k \in Markets, Succeed(k)
      PROVE  WholeInv'
  BY <1>2, SuccessIsTyped DEF WholeInv
<1>3. ASSUME NEW k \in Markets, Fail(k)
      PROVE  WholeInv'
  BY <1>3, FailureIsTyped, NothingIsTyped DEF Fail, WholeInv
<1>4. CASE UNCHANGED tick
  BY <1>4 DEF WholeInv
<1>. QED BY <1>1, <1>2, <1>3, <1>4
        DEF Next, Tick, Open, Call, Answer, CreateMarket, Begin, Ends, EndClose, EndDecide, EndResolve,
            EndSettle, EndCancel, EndApprove, Reject, Abandon, Advance, vars

\* An answer to a request leaves its status on the market it names.
LEMMA AnswerIsWhole ==
    ASSUME TypeOK, NEW a \in Admins,
           EndClose(a) \/ EndDecide(a) \/ EndResolve(a) \/ EndSettle(a) \/ EndCancel(a)
               \/ EndApprove(a) \/ Abandon(a)
    PROVE  WholeStep
<1>1. ASSUME NEW kind \in Kinds, Ends(a, kind)
      PROVE  /\ status' = [status EXCEPT ![request[a].market] = Left[kind]]
             /\ Finishes(a, request[a].market, Left[kind])
  BY <1>1 DEF Ends, Finishes, TypeOK
<1>2. CASE EndClose(a)
  BY <1>1, <1>2, StepFacts DEF EndClose, WholeStep, TypeOK
<1>3. CASE EndDecide(a)
  <2>1. status' = [status EXCEPT ![request[a].market] = "DECIDED"] /\ request[a].market \in decided'
    BY <1>1, <1>3, StepFacts DEF EndDecide
  <2>. QED BY <2>1 DEF WholeStep, TypeOK
<1>4. CASE EndResolve(a)
  BY <1>1, <1>4, StepFacts DEF EndResolve, WholeStep, TypeOK
<1>5. CASE EndSettle(a)
  <2>1. status' = [status EXCEPT ![request[a].market] = "SETTLED"] /\ request[a].market \in paidOut'
    BY <1>1, <1>5, StepFacts DEF EndSettle
  <2>. QED BY <2>1 DEF WholeStep, TypeOK
<1>6. CASE EndCancel(a)
  <2>1. status' = [status EXCEPT ![request[a].market] = "CANCELLED"]
    BY <1>1, <1>6, StepFacts DEF EndCancel
  <2>. QED BY <2>1 DEF WholeStep, TypeOK
<1>7. CASE EndApprove(a)
  BY <1>7 DEF EndApprove, WholeStep, TypeOK
<1>8. CASE Abandon(a)
  BY <1>8 DEF Abandon, marketVars, WholeStep
<1>. QED BY <1>2, <1>3, <1>4, <1>5, <1>6, <1>7, <1>8

\* Every step is whole.
LEMMA StepIsWhole == TypeOK /\ WholeInv /\ [Next]_vars => [WholeStep]_vars
<1> SUFFICES ASSUME TypeOK, WholeInv, Next PROVE WholeStep
  OBVIOUS
<1>1. CASE Commit
  BY <1>1 DEF Commit, WholeStep, WholeInv, TypeOK, None
<1>2. ASSUME NEW a \in Admins,
             EndClose(a) \/ EndDecide(a) \/ EndResolve(a) \/ EndSettle(a) \/ EndCancel(a)
                 \/ EndApprove(a) \/ Abandon(a)
      PROVE  WholeStep
  BY <1>2, AnswerIsWhole
<1>3. ASSUME NEW k \in Markets, NEW closes \in 0..Horizon, NEW resolves \in 0..Horizon,
             CreateMarket(k, closes, resolves)
      PROVE  WholeStep
  BY <1>3 DEF CreateMarket, WholeStep, TypeOK
<1>4. CASE UNCHANGED status
  BY <1>4 DEF WholeStep
<1>. QED BY <1>1, <1>2, <1>3, <1>4
        DEF Next, Tick, Open, Call, Answer, StartClosing, StartResolving, Succeed, Fail, Begin, Reject,
            Restart, Advance, marketVars

\* Nobody sees a market the tick has closed without a decision or judged without
\* paying, whatever fails and whenever the server dies: only an administrator
\* who asks for one of the two steps leaves a market between them.
THEOREM WholeTheorem == Spec => StepsAreWhole
<1>1. [WholeStep]_vars => [\A k \in Markets : status'[k] # status[k] =>
           /\ status'[k] \in {"CLOSED", "RESOLVED"} => \E a \in Admins : Finishes(a, k, status'[k])
           /\ status'[k] = "DECIDED" => k \in decided'
           /\ status'[k] = "SETTLED" => k \in paidOut']_vars
  BY DEF WholeStep
<1>. QED BY <1>1, WholeInit, WholeKept, StepIsWhole, TypeInit, TypeStep, PTL DEF Spec, StepsAreWhole

-----------------------------------------------------------------------------
(* Paid or refunded                                                          *)

\* What was read was accepted: by the tick of each market it has flushed, by
\* each administrator of the market of the request.
ReadInv ==
    /\ \A k \in Markets : tick.written[k] # None => tick.seen[k] \in Accepted[Step]
    /\ \A a \in Admins : request[a] # Idle => request[a].seen \in Accepted[request[a].kind]

PayInv == PaidOrRefunded /\ ReadInv

\* Nobody has been paid or refunded yet, and nothing was read.
LEMMA PayInit == Init => PayInv
BY NoTickIsTyped, NothingIsTyped DEF Init, PayInv, ReadInv, PaidOrRefunded

\* Every step reads what it accepts.
LEMMA ReadKept == TypeOK /\ ReadInv /\ [Next]_vars => ReadInv'
<1> SUFFICES ASSUME TypeOK, ReadInv, [Next]_vars PROVE ReadInv'
  OBVIOUS
<1>1. CASE StartClosing \/ StartResolving \/ Restart \/ Commit
  <2>1. \A k \in Markets : tick'.written[k] = None
    BY <1>1, NothingFlushed
  <2>2. \A a \in Admins : request'[a] \in {request[a], Idle}
    BY <1>1 DEF StartClosing, StartResolving, Restart, Commit
  <2>. QED BY <2>1, <2>2 DEF ReadInv
<1>2. ASSUME NEW k \in Markets, Succeed(k)
      PROVE  ReadInv'
  <2>1. Step' = Step
    BY <1>2, SuccessIsTyped DEF Step
  <2>2. tick'.seen[k] \in Accepted[Step]
    BY <1>2, SuccessIsTyped DEF Succeed, Ready
  <2>3. request' = request
    BY <1>2 DEF Succeed
  <2> HIDE DEF Step
  <2>. QED BY <1>2, <2>1, <2>2, <2>3, SuccessIsTyped DEF ReadInv
<1>3. ASSUME NEW k \in Markets, Fail(k)
      PROVE  ReadInv'
  BY <1>3, FailureIsTyped, NothingIsTyped DEF Fail, ReadInv
<1>4. ASSUME NEW a \in Admins, NEW kind \in Kinds, NEW k \in Managed,
             NEW maker \in Admins \cup {Job, None}, Begin(a, kind, k, maker)
      PROVE  ReadInv'
  BY <1>4 DEF Begin, ReadInv, TypeOK, Step
<1>5. ASSUME UNCHANGED tick, \A a \in Admins : request'[a] \in {request[a], Idle}
      PROVE  ReadInv'
  BY <1>5 DEF ReadInv, Step
<1>6. CASE Answer
  <2>1. UNCHANGED tick /\ \E a \in Admins : request' = [request EXCEPT ![a] = Idle]
    BY <1>6 DEF Answer, Ends, EndClose, EndDecide, EndResolve, EndSettle, EndCancel, EndApprove, Abandon
  <2>. QED BY <1>5, <2>1 DEF TypeOK
<1>. QED BY <1>1, <1>2, <1>3, <1>4, <1>5, <1>6
        DEF Next, Tick, Open, Call, CreateMarket, Reject, Advance, vars

\* A market whose status does not end it is untouched.
LEMMA StatusSaysUntouched ==
    ASSUME PaidOrRefunded, NEW k \in Markets \ (stale \cup late), status[k] \notin {"SETTLED", "CANCELLED"}
    PROVE  k \notin paidOut /\ k \notin refunded
BY DEF PaidOrRefunded

\* A step that reads what it accepts and is not stale finds a market that has
\* not ended.
LEMMA FreshIsUnended ==
    ASSUME NEW kind \in Kinds \ {"approve"}, NEW seen \in Accepted[kind], NEW committed,
           ~Stale(kind, seen, committed)
    PROVE  committed \notin {"SETTLED", "CANCELLED"}
BY StepFacts DEF Stale

\* An answer to a request keeps the promise.
LEMMA PayAnswer ==
    ASSUME TypeOK, PayInv, NEW a \in Admins,
           EndClose(a) \/ EndDecide(a) \/ EndResolve(a) \/ EndSettle(a) \/ EndCancel(a)
               \/ EndApprove(a) \/ Abandon(a)
    PROVE  PaidOrRefunded'
<1> DEFINE m == request[a].market
<1>1. ASSUME NEW kind \in Kinds \ {"approve"}, Ends(a, kind)
      PROVE  /\ status' = [status EXCEPT ![m] = Left[kind]]
             /\ m \in Markets /\ late' = late /\ stale \subseteq stale'
             /\ m \notin stale' \cup late => m \notin paidOut /\ m \notin refunded
  <2>1. request[a].kind = kind /\ request[a] # Idle
    BY <1>1, StepFacts DEF Ends, Idle, None
  <2>2. request[a].seen \in Accepted[kind] /\ m \in Markets
    BY <2>1 DEF PayInv, ReadInv, TypeOK, Requests
  <2>3. ASSUME m \notin stale' \cup late
        PROVE  m \notin paidOut /\ m \notin refunded
    <3>1. m \notin stale \cup late /\ ~Stale(kind, request[a].seen, status[m])
      BY <1>1, <2>3 DEF Ends
    <3>2. status[m] \notin {"SETTLED", "CANCELLED"}
      BY <2>2, <3>1, FreshIsUnended
    <3>. QED BY <2>2, <3>1, <3>2, StatusSaysUntouched DEF PayInv
  <2>. QED BY <1>1, <2>2, <2>3 DEF Ends
<1> HIDE DEF m
<1>2. CASE EndClose(a)
  BY <1>1, <1>2, StepFacts DEF EndClose, PayInv, PaidOrRefunded, TypeOK
<1>3. CASE EndDecide(a)
  BY <1>1, <1>3, StepFacts DEF EndDecide, PayInv, PaidOrRefunded, TypeOK
<1>4. CASE EndResolve(a)
  BY <1>1, <1>4, StepFacts DEF EndResolve, PayInv, PaidOrRefunded, TypeOK
<1>5. CASE EndSettle(a)
  <2>1. paidOut' = paidOut \cup {m} /\ refunded' = refunded
    BY <1>5 DEF EndSettle, m
  <2>. QED BY <1>1, <1>5, <2>1, StepFacts DEF EndSettle, PayInv, PaidOrRefunded, TypeOK
<1>6. CASE EndCancel(a)
  <2>1. refunded' = refunded \cup {m} /\ paidOut' = paidOut
    BY <1>6 DEF EndCancel, m
  <2>. QED BY <1>1, <1>6, <2>1, StepFacts DEF EndCancel, PayInv, PaidOrRefunded, TypeOK
<1>7. CASE EndApprove(a)
  <2>1. UNCHANGED <<paidOut, refunded, stale>> /\ late \subseteq late'
    BY <1>7 DEF EndApprove
  <2>2. ASSUME NEW k \in Markets \ (stale' \cup late'), status'[k] # status[k]
        PROVE  status[k] \notin {"SETTLED", "CANCELLED"}
    BY <1>7, <2>2 DEF EndApprove, TypeOK
  <2>3. ASSUME NEW k \in Markets \ (stale' \cup late')
        PROVE  status'[k] = status[k] \/ (k \notin paidOut /\ k \notin refunded)
    BY <2>1, <2>2, StatusSaysUntouched DEF PayInv
  <2>. QED BY <2>1, <2>3 DEF PayInv, PaidOrRefunded
<1>8. CASE Abandon(a)
  BY <1>8 DEF Abandon, marketVars, history, PayInv, PaidOrRefunded
<1>. QED BY <1>2, <1>3, <1>4, <1>5, <1>6, <1>7, <1>8

\* Every step keeps it.
LEMMA PayStep == TypeOK /\ PayInv /\ [Next]_vars => PaidOrRefunded'
<1> SUFFICES ASSUME TypeOK, PayInv, [Next]_vars PROVE PaidOrRefunded'
  OBVIOUS
<1>1. CASE Commit
  <2> SUFFICES ASSUME NEW k \in Markets \ (stale' \cup late')
               PROVE  /\ ~(k \in paidOut' /\ k \in refunded')
                      /\ k \in paidOut' => status'[k] = "SETTLED"
                      /\ k \in refunded' => status'[k] = "CANCELLED"
    BY DEF PaidOrRefunded
  <2>1. k \notin stale \cup late /\ UNCHANGED refunded
    BY <1>1 DEF Commit
  <2>2. CASE tick.written[k] = None
    <3>1. status'[k] = status[k] /\ (k \in paidOut' <=> k \in paidOut)
      BY <1>1, <2>2 DEF Commit, None
    <3>. QED BY <2>1, <3>1 DEF PayInv, PaidOrRefunded
  <2>3. CASE tick.written[k] # None
    <3>1. Step \in Kinds \ {"approve"}
      BY StepFacts DEF Step
    <3>2. ~Stale(Step, tick.seen[k], status[k]) /\ tick.seen[k] \in Accepted[Step]
      BY <1>1, <2>3 DEF Commit, PayInv, ReadInv
    <3>3. status[k] \notin {"SETTLED", "CANCELLED"}
      BY <3>1, <3>2, FreshIsUnended
    <3>4. k \notin paidOut /\ k \notin refunded
      BY <2>1, <3>3, StatusSaysUntouched DEF PayInv
    <3>5. status'[k] = tick.written[k] /\ (k \in paidOut' => tick.written[k] = "SETTLED")
      BY <1>1, <2>3, <3>4 DEF Commit
    <3>. QED BY <2>1, <3>4, <3>5
  <2>. QED BY <2>2, <2>3
<1>2. ASSUME NEW a \in Admins,
             EndClose(a) \/ EndDecide(a) \/ EndResolve(a) \/ EndSettle(a) \/ EndCancel(a)
                 \/ EndApprove(a) \/ Abandon(a)
      PROVE  PaidOrRefunded'
  BY <1>2, PayAnswer
<1>3. ASSUME NEW k \in Markets, NEW closes \in 0..Horizon, NEW resolves \in 0..Horizon,
             CreateMarket(k, closes, resolves)
      PROVE  PaidOrRefunded'
  <2>1. k \notin stale \cup late => k \notin paidOut /\ k \notin refunded
    BY <1>3, StatusSaysUntouched DEF CreateMarket, None, PayInv
  <2>. QED BY <1>3, <2>1 DEF CreateMarket, history, PayInv, PaidOrRefunded, TypeOK
<1>4. CASE UNCHANGED <<status, paidOut, refunded, stale, late>>
  BY <1>4 DEF PayInv, PaidOrRefunded
<1>. QED BY <1>1, <1>2, <1>3, <1>4
        DEF Next, Tick, Open, Call, Answer, StartClosing, StartResolving, Succeed, Fail, Begin, Reject,
            Restart, Advance, vars, marketVars, history

\* However the tick, the administrators and restarts interleave: a market that
\* nobody wrote on a status that had changed and would refuse the step, and
\* that was not approved after its end, is not both refunded and paid out.
THEOREM PaidOrRefundedTheorem == Spec => []PaidOrRefunded
<1>1. PayInv => PaidOrRefunded
  BY DEF PayInv
<1>2. TypeOK /\ PayInv /\ [Next]_vars => PayInv'
  BY PayStep, ReadKept DEF PayInv
<1>. QED BY <1>1, <1>2, PayInit, TypeInit, TypeStep, PTL DEF Spec
=============================================================================
