------------------------- MODULE OrderExecutionProofs -------------------------
(* What OrderExecution keeps for any administrators, decisions, accounts and  *)
(* limits that meet its assumption, whatever is lost, refused, overlapping or  *)
(* interrupted.                                                               *)
EXTENDS OrderExecution, FiniteSetTheorems, TLAPS

-----------------------------------------------------------------------------
(* Types                                                                     *)

\* A decision that exists names a fund and a ticker, and a request that is under
\* way a decision that exists.
Complete ==
    /\ \A d \in DecisionIds :
           decision[d].status # None => decision[d].fund \in Funds /\ decision[d].ticker \in Tickers
    /\ \A a \in Admins :
           request[a].at # None =>
               /\ request[a].decision \in DecisionIds
               /\ decision[request[a].decision].status # None

TypeInv == TypeOK /\ Complete

\* The types of a row of trade_decisions and of a request.
DecisionRows ==
    [status : DecisionStatuses \cup {None}, action : Outcomes \cup {None},
     fund : Funds \cup {None}, ticker : Tickers \cup {None}, quantity : Nat]
RequestRecords ==
    [at : {None, "begun", "checked", "answered", "rejecting"}, decision : DecisionIds \cup {None},
     began : 0..Horizon, submitted : 0..Horizon]

\* The type of a row of orders.
OrderRows == [decision : DecisionIds, fund : Funds, created : 0..Horizon, submitted : 0..Horizon]

\* Rows and requests are of their types.
LEMMA RecordsAreTyped ==
    ASSUME TypeOK
    PROVE  /\ decision \in [DecisionIds -> DecisionRows]
           /\ request \in [Admins -> RequestRecords]
           /\ orders \in Seq(OrderRows)
BY DEF TypeOK, DecisionRows, RequestRecords, OrderRows

\* No request under way is a request.
LEMMA IdleIsTyped == Idle \in RequestRecords /\ Idle.at = None
BY ExecutionAssumption DEF Idle, RequestFor, RequestRecords

\* What a decision is worth is a whole amount.
LEMMA WorthIsNatural ==
    ASSUME TypeInv, NEW d \in DecisionIds, decision[d].status # None
    PROVE  Worth(d) \in Nat
<1>1. decision[d].quantity \in Nat /\ decision[d].ticker \in Tickers
  BY DEF TypeInv, TypeOK, Complete
<1>2. Price[decision[d].ticker] \in Nat
  BY <1>1, ExecutionAssumption
<1>. QED BY <1>1, <1>2 DEF Worth

\* A fill leaves an account that is typed.
LEMMA FillIsTyped ==
    ASSUME TypeInv, NEW d \in DecisionIds, decision[d].status # None, Fill(d)
    PROVE  /\ cash' \in Int
           /\ holdings' \in [Tickers -> Nat]
           /\ booked' \in [DecisionIds -> Nat]
<1>1. Worth(d) \in Nat
  BY WorthIsNatural
<1>2. decision[d].quantity \in Nat /\ decision[d].ticker \in Tickers
  BY DEF TypeInv, TypeOK, Complete
<1>3. cash \in Int /\ holdings \in [Tickers -> Nat] /\ booked \in [DecisionIds -> Nat]
  BY DEF TypeInv, TypeOK
<1>4. cash' \in Int
  BY <1>1, <1>3 DEF Fill
<1>5. \A held \in Nat : Left(held, decision[d].quantity) \in Nat
  BY <1>2 DEF Left
<1>6. holdings' \in [Tickers -> Nat]
  BY <1>2, <1>3, <1>5 DEF Fill
<1>. QED BY <1>3, <1>4, <1>6 DEF Fill

\* The request of a step that is under way, and its decision.
LEMMA RequestUnderWay ==
    ASSUME TypeInv, NEW a \in Admins, request[a].at # None
    PROVE  /\ request[a].decision \in DecisionIds
           /\ decision[request[a].decision].status # None
           /\ request[a].began \in 0..Horizon
           /\ request[a].submitted \in 0..Horizon
BY DEF TypeInv, TypeOK, Complete

\* What an approval is after it has passed the guard.
LEMMA RequestApproved ==
    ASSUME TypeOK, NEW a \in Admins, Approve(a)
    PROVE  /\ request'[a].at = "checked"
           /\ request'[a].decision = request[a].decision
           /\ request'[a].began = request[a].began
           /\ \A b \in Admins \ {a} : request'[b] = request[b]
<1>1. request \in [Admins -> RequestRecords]
  BY RecordsAreTyped
<1>2. request[a] \in RequestRecords /\ request' = [request EXCEPT ![a] = [@ EXCEPT !.at = "checked"]]
  BY <1>1 DEF Approve
<1>. QED BY <1>1, <1>2 DEF RequestRecords

\* What an approval is after the broker's answer.
LEMMA RequestAnswered ==
    ASSUME TypeOK, NEW a \in Admins, Answered(a)
    PROVE  /\ request'[a].at = "answered"
           /\ request'[a].decision = request[a].decision
           /\ request'[a].began = request[a].began
           /\ request'[a].submitted = now
           /\ \A b \in Admins \ {a} : request'[b] = request[b]
<1> DEFINE new == [request[a] EXCEPT !.at = "answered", !.submitted = now]
<1>1. request \in [Admins -> RequestRecords]
  BY RecordsAreTyped
<1>2. request[a] \in RequestRecords /\ request' = [request EXCEPT ![a] = new]
  BY <1>1 DEF Answered
<1>3. /\ new.at = "answered" /\ new.decision = request[a].decision
      /\ new.began = request[a].began /\ new.submitted = now
  BY <1>2 DEF RequestRecords
<1> HIDE DEF new
<1>. QED BY <1>1, <1>2, <1>3

\* The initial states are typed.
LEMMA TypeInit == Init => TypeInv
<1>. SUFFICES ASSUME Init PROVE TypeInv
  OBVIOUS
<1>1. 0 \in 0..Horizon /\ 0 \in 0..MaxAttempts
  BY ExecutionAssumption
<1>2. cash \in Int
  BY ExecutionAssumption DEF Init
<1>3. orders \in Seq(OrderRows)
  BY DEF Init
<1>4. NoDecision \in DecisionRows
  BY DEF NoDecision, DecisionRows
<1>5. Idle \in RequestRecords
  BY IdleIsTyped
<1>6. TypeOK
  BY <1>1, <1>2, <1>3, <1>4, <1>5 DEF Init, TypeOK, DecisionRows, RequestRecords, OrderRows
<1>7. Complete
  BY DEF Init, Complete, NoDecision, Idle, RequestFor, None
<1>. QED BY <1>6, <1>7 DEF TypeInv

\* A new status leaves a complete decision.
LEMMA StatusIsTyped ==
    ASSUME TypeInv, NEW d \in DecisionIds, decision[d].status # None,
           NEW status \in DecisionStatuses,
           decision' = [decision EXCEPT ![d] = [@ EXCEPT !.status = status]]
    PROVE  /\ decision' \in [DecisionIds -> DecisionRows]
           /\ \A e \in DecisionIds :
                  /\ decision'[e].status # None <=> decision[e].status # None
                  /\ decision'[e].fund = decision[e].fund
                  /\ decision'[e].ticker = decision[e].ticker
<1> DEFINE old == decision[d]
           new == [old EXCEPT !.status = status]
<1>1. decision \in [DecisionIds -> DecisionRows]
  BY RecordsAreTyped DEF TypeInv
<1>2. old \in DecisionRows
  BY <1>1
<1>3. new \in DecisionRows
  <2> HIDE DEF old
  <2>. QED BY <1>2 DEF DecisionRows
<1>4. new.status # None /\ new.fund = old.fund /\ new.ticker = old.ticker
  <2> HIDE DEF old
  <2>. QED BY <1>2 DEF DecisionRows, DecisionStatuses, None
<1>5. decision' = [decision EXCEPT ![d] = new]
  OBVIOUS
<1> HIDE DEF new
<1>. QED BY <1>1, <1>3, <1>4, <1>5

\* An approval or a rejection that begins or goes on is typed.
LEMMA RequestIsTyped ==
    ASSUME TypeInv, NEW a \in Admins, NEW new \in RequestRecords,
           new.decision \in DecisionIds, decision[new.decision].status # None,
           request' = [request EXCEPT ![a] = new],
           UNCHANGED <<now, killSwitch, decision, orders, position, contested>>,
           cash' \in Int, holdings' \in [Tickers -> Nat], booked' \in [DecisionIds -> Nat],
           attempts' \in [DecisionIds -> 0..MaxAttempts], overlapped' \in BOOLEAN
    PROVE  TypeInv'
<1>1. TypeOK'
  BY DEF TypeInv, TypeOK, RequestRecords
<1>2. Complete'
  BY DEF TypeInv, TypeOK, Complete
<1>. QED BY <1>1, <1>2 DEF TypeInv

\* A request that ends without a commit leaves a typed state.
LEMMA EndIsTyped ==
    ASSUME TypeInv, NEW a \in Admins, request' = [request EXCEPT ![a] = Idle],
           UNCHANGED <<now, killSwitch, decision, orders, position, overlapped, contested>>,
           attempts' \in [DecisionIds -> 0..MaxAttempts],
           cash' \in Int, holdings' \in [Tickers -> Nat], booked' \in [DecisionIds -> Nat]
    PROVE  TypeInv'
<1>1. TypeOK'
  BY IdleIsTyped DEF TypeInv, TypeOK, RequestRecords
<1>2. Complete'
  BY IdleIsTyped DEF TypeInv, TypeOK, Complete
<1>. QED BY <1>1, <1>2 DEF TypeInv

\* Every step keeps the types.
LEMMA TypeStep == TypeInv /\ [Next]_vars => TypeInv'
<1> SUFFICES ASSUME TypeInv, [Next]_vars PROVE TypeInv'
  OBVIOUS
<1> USE DEF TypeInv
<1>1. ASSUME NEW d \in DecisionIds, NEW f \in Funds, NEW t \in Tickers,
             NEW action \in {"BUY", "SELL"}, BuildDecision(d, f, t, action)
      PROVE  TypeInv'
  <2> DEFINE quantity == IF action = "BUY" THEN Notional \div Price[t] ELSE position[f][t]
             new == [status |-> "PENDING_APPROVAL", action |-> action,
                     fund |-> f, ticker |-> t, quantity |-> quantity]
  <2>1. Price[t] \in Nat \ {0} /\ Notional \in Nat
    BY ExecutionAssumption
  <2>2. quantity \in Nat
    <3>1. position[f][t] \in Nat
      BY DEF TypeOK
    <3>2. Notional \div Price[t] \in Nat
      <4> DEFINE price == Price[t]
      <4> HIDE DEF price
      <4>1. price \in Nat \ {0}
        BY <2>1 DEF price
      <4>2. Notional \div price \in Nat
        BY <2>1, <4>1
      <4>. QED BY <4>2 DEF price
    <3>. QED BY <3>1, <3>2
  <2>3. new \in DecisionRows
    <3> HIDE DEF quantity
    <3>. QED BY <2>2 DEF DecisionRows, DecisionStatuses, Outcomes
  <2>4. decision' = [decision EXCEPT ![d] = new] /\ decision[d].status = None
    BY <1>1 DEF BuildDecision
  <2>5. new.fund \in Funds /\ new.ticker \in Tickers /\ new.status # None
    BY DEF None
  <2> HIDE DEF new
  <2>6. TypeOK'
    BY <1>1, <2>3, <2>4 DEF BuildDecision, TypeOK, brokerVars, history, DecisionRows
  <2>7. Complete'
    BY <1>1, <2>4, <2>5 DEF BuildDecision, TypeOK, Complete
  <2>. QED BY <2>6, <2>7
<1>2. ASSUME NEW a \in Admins, NEW d \in DecisionIds, BeginReject(a, d)
      PROVE  TypeInv'
  <2> DEFINE new == RequestFor(d, "rejecting", 0)
  <2>1. decision[d].status # None
    BY <1>2 DEF BeginReject, Rejectable, None
  <2>2. new \in RequestRecords /\ new.decision = d
    BY ExecutionAssumption DEF RequestFor, RequestRecords
  <2>3. request' = [request EXCEPT ![a] = new]
        /\ UNCHANGED <<now, killSwitch, decision, orders, position, brokerVars, history>>
    BY <1>2 DEF BeginReject
  <2> HIDE DEF new
  <2>. QED BY <2>1, <2>2, <2>3, RequestIsTyped DEF TypeOK, brokerVars, history
<1>3. ASSUME NEW a \in Admins, EndReject(a)
      PROVE  TypeInv'
  <2> DEFINE d == request[a].decision
  <2>1. d \in DecisionIds /\ decision[d].status # None
    BY <1>3, RequestUnderWay DEF EndReject, None
  <2>2. decision' = [decision EXCEPT ![d] = [@ EXCEPT !.status = "REJECTED"]]
    BY <1>3 DEF EndReject
  <2>3. decision' \in [DecisionIds -> DecisionRows]
        /\ \A e \in DecisionIds :
              /\ decision'[e].status # None <=> decision[e].status # None
              /\ decision'[e].fund = decision[e].fund /\ decision'[e].ticker = decision[e].ticker
    <3> HIDE DEF d
    <3>1. "REJECTED" \in DecisionStatuses
      BY DEF DecisionStatuses
    <3>. QED BY <2>1, <2>2, <3>1, StatusIsTyped DEF TypeInv
  <2>4. request' = [request EXCEPT ![a] = Idle]
    BY <1>3 DEF EndReject
  <2>5. request' \in [Admins -> RequestRecords]
    BY <2>4, IdleIsTyped, RecordsAreTyped
  <2>6. TypeOK'
    BY <1>3, <2>3, <2>5 DEF EndReject, TypeOK, brokerVars, history, DecisionRows, RequestRecords
  <2>7. Complete'
    BY <2>3, <2>4, IdleIsTyped DEF TypeOK, Complete
  <2>. QED BY <2>6, <2>7
<1>4. ASSUME NEW f \in Funds, SyncPositions(f)
      PROVE  TypeInv'
  BY <1>4 DEF SyncPositions, TypeOK, Complete, brokerVars, history
<1>5. ASSUME NEW a \in Admins, NEW d \in DecisionIds, Begin(a, d)
      PROVE  TypeInv'
  <2> DEFINE new == RequestFor(d, "begun", now)
  <2>1. decision[d].status # None
    BY <1>5 DEF Begin, None
  <2>2. new \in RequestRecords /\ new.decision = d
    BY ExecutionAssumption DEF RequestFor, RequestRecords, TypeOK
  <2>3. request' = [request EXCEPT ![a] = new]
        /\ UNCHANGED <<now, killSwitch, decision, orders, position, brokerVars, history>>
    BY <1>5 DEF Begin
  <2> HIDE DEF new
  <2>. QED BY <2>1, <2>2, <2>3, RequestIsTyped DEF TypeOK, brokerVars, history
<1>6. ASSUME NEW a \in Admins, Approve(a) \/ Block(a)
      PROVE  TypeInv'
  <2> DEFINE d == request[a].decision
             new == [request[a] EXCEPT !.at = "checked"]
  <2>1. Judged(a) /\ request[a].at # None
    BY <1>6 DEF Approve, Block, Judged, None
  <2>2. d \in DecisionIds /\ decision[d].status # None
    BY <2>1, RequestUnderWay
  <2>3. attempts' \in [DecisionIds -> 0..MaxAttempts]
    <3>1. attempts[d] + 1 \in 0..MaxAttempts
      BY <2>1, <2>2, ExecutionAssumption DEF Judged, TypeOK
    <3>. QED BY <2>1, <2>2, <3>1 DEF Judged, TypeOK
  <2>4. /\ UNCHANGED <<now, killSwitch, decision, orders, position, contested>>
        /\ cash' \in Int /\ holdings' \in [Tickers -> Nat] /\ booked' \in [DecisionIds -> Nat]
    BY <2>1 DEF Judged, brokerVars, TypeOK
  <2>5. new \in RequestRecords /\ new.decision = d
    BY RecordsAreTyped DEF RequestRecords
  <2>6. CASE Approve(a)
    <3>1. request' = [request EXCEPT ![a] = new] /\ overlapped' \in BOOLEAN
      BY <2>6 DEF Approve, TypeOK
    <3> HIDE DEF d, new
    <3>. QED BY <2>2, <2>3, <2>4, <2>5, <3>1, RequestIsTyped
  <2>7. CASE Block(a)
    <3>1. request' = [request EXCEPT ![a] = Idle] /\ overlapped' = overlapped
      BY <2>7 DEF Block
    <3>. QED BY <2>3, <2>4, <3>1, EndIsTyped
  <2>. QED BY <1>6, <2>6, <2>7
<1>7. ASSUME NEW a \in Admins, Answered(a)
      PROVE  TypeInv'
  <2> DEFINE d == request[a].decision
             new == [request[a] EXCEPT !.at = "answered", !.submitted = now]
  <2>1. d \in DecisionIds /\ decision[d].status # None
    BY <1>7, RequestUnderWay DEF Answered, None
  <2>2. Fill(d) /\ request' = [request EXCEPT ![a] = new]
        /\ UNCHANGED <<now, killSwitch, decision, orders, position, history>>
    BY <1>7 DEF Answered
  <2>3. cash' \in Int /\ holdings' \in [Tickers -> Nat] /\ booked' \in [DecisionIds -> Nat]
    BY <2>1, <2>2, FillIsTyped
  <2>4. new \in RequestRecords /\ new.decision = d
    BY RecordsAreTyped DEF RequestRecords, TypeOK
  <2> HIDE DEF d, new
  <2>. QED BY <2>1, <2>2, <2>3, <2>4, RequestIsTyped DEF TypeOK, history
<1>8. ASSUME NEW a \in Admins, AnswerLost(a)
      PROVE  TypeInv'
  <2>1. request[a].at # None
    BY <1>8 DEF AnswerLost, None
  <2>2. Fill(request[a].decision)
    BY <1>8 DEF AnswerLost
  <2>3. cash' \in Int /\ holdings' \in [Tickers -> Nat] /\ booked' \in [DecisionIds -> Nat]
    BY <2>1, <2>2, RequestUnderWay, FillIsTyped
  <2>. QED BY <1>8, <2>3, EndIsTyped DEF AnswerLost, Raised, history, TypeOK
<1>9. ASSUME NEW a \in Admins, Refused(a)
      PROVE  TypeInv'
  <2>1. cash' \in Int /\ holdings' \in [Tickers -> Nat] /\ booked' \in [DecisionIds -> Nat]
    BY <1>9 DEF Refused, TypeOK, brokerVars
  <2>. QED BY <1>9, <2>1, EndIsTyped DEF Refused, Raised, history, TypeOK
<1>10. ASSUME NEW a \in Admins, Commit(a)
       PROVE  TypeInv'
  <2> DEFINE d == request[a].decision
             row == [decision |-> d, fund |-> decision[d].fund, created |-> request[a].began,
                     submitted |-> request[a].submitted]
  <2>1. d \in DecisionIds /\ decision[d].status # None
        /\ request[a].began \in 0..Horizon /\ request[a].submitted \in 0..Horizon
    BY <1>10, RequestUnderWay DEF Commit, None
  <2>2. decision' = [decision EXCEPT ![d] = [@ EXCEPT !.status = "EXECUTED"]]
        /\ orders' = Append(orders, row)
    BY <1>10 DEF Commit
  <2>3. decision' \in [DecisionIds -> DecisionRows]
        /\ \A e \in DecisionIds :
              /\ decision'[e].status # None <=> decision[e].status # None
              /\ decision'[e].fund = decision[e].fund /\ decision'[e].ticker = decision[e].ticker
    <3> HIDE DEF d, row
    <3>1. "EXECUTED" \in DecisionStatuses
      BY DEF DecisionStatuses
    <3>. QED BY <2>1, <2>2, <3>1, StatusIsTyped DEF TypeInv
  <2>4. row \in OrderRows
    BY <2>1 DEF Complete, OrderRows
  <2>5. orders' \in Seq(OrderRows)
    <3> HIDE DEF row
    <3>. QED BY <2>2, <2>4, RecordsAreTyped
  <2>6. request' = [request EXCEPT ![a] = Idle]
    BY <1>10 DEF Commit
  <2>7. request' \in [Admins -> RequestRecords]
    BY <2>6, IdleIsTyped, RecordsAreTyped
  <2>8. contested' \subseteq DecisionIds
    BY <1>10, <2>1 DEF Commit, TypeOK
  <2>9. TypeOK'
    BY <1>10, <2>3, <2>5, <2>7, <2>8 DEF Commit, TypeOK, brokerVars, DecisionRows, RequestRecords, OrderRows
  <2>10. Complete'
    BY <2>3, <2>6, IdleIsTyped DEF TypeOK, Complete
  <2>. QED BY <2>9, <2>10
<1>11. CASE Restart
  BY <1>11, IdleIsTyped DEF RequestRecords, Restart, TypeOK, Complete, brokerVars, history
<1>12. CASE Advance
  <2>1. now' \in 0..Horizon
    BY <1>12, ExecutionAssumption DEF Advance, TypeOK
  <2>. QED BY <1>12, <2>1 DEF Advance, TypeOK, Complete, brokerVars, history
<1>13. CASE UNCHANGED vars
  BY <1>13 DEF vars, brokerVars, history, TypeOK, Complete
<1>. QED BY <1>1, <1>2, <1>3, <1>4, <1>5, <1>6, <1>7, <1>8, <1>9, <1>10, <1>11, <1>12, <1>13
        DEF Next, Decide, Reject, Sync, Check, Place, Record

\* Whatever is lost, refused or interrupted, the state of the execution is typed.
THEOREM ExecutionTypeCorrect == Spec => []TypeOK
<1>1. TypeInv => TypeOK
  BY DEF TypeInv
<1>. QED BY <1>1, TypeInit, TypeStep, PTL DEF Spec

-----------------------------------------------------------------------------
(* The kill switch                                                           *)

\* With the switch on no request has passed the guard: the switch changes only
\* when the server restarts, and a restart leaves no request.
NothingChecked == killSwitch => \A a \in Admins : request[a].at # "checked"

\* Every step keeps it.
LEMMA CheckedStep == TypeInv /\ NothingChecked /\ [Next]_vars => NothingChecked'
<1> SUFFICES ASSUME TypeInv, NothingChecked, [Next]_vars PROVE NothingChecked'
  OBVIOUS
<1> USE DEF NothingChecked
<1>0. request \in [Admins -> RequestRecords]
  BY RecordsAreTyped DEF TypeInv
<1>1. Idle.at # "checked"
  BY IdleIsTyped DEF None
<1>2. CASE Decide
  BY <1>2 DEF Decide, BuildDecision
<1>3. ASSUME NEW a \in Admins, NEW d \in DecisionIds, BeginReject(a, d)
      PROVE  NothingChecked'
  BY <1>0, <1>3 DEF BeginReject, RequestFor
<1>4. ASSUME NEW a \in Admins, EndReject(a)
      PROVE  NothingChecked'
  BY <1>0, <1>1, <1>4 DEF EndReject
<1>5. CASE Sync
  BY <1>5 DEF Sync, SyncPositions
<1>6. ASSUME NEW a \in Admins, NEW d \in DecisionIds, Begin(a, d)
      PROVE  NothingChecked'
  BY <1>0, <1>6 DEF Begin, RequestFor
<1>7. ASSUME NEW a \in Admins, Approve(a)
      PROVE  NothingChecked'
  BY <1>7 DEF Approve, Judged, Allowed, SwitchedOn
<1>8. ASSUME NEW a \in Admins, Block(a) \/ Answered(a) \/ AnswerLost(a) \/ Refused(a) \/ Commit(a)
      PROVE  NothingChecked'
  <2>1. /\ killSwitch' = killSwitch
        /\ \E step \in {"answered", Idle.at} :
               request'[a].at = step /\ \A b \in Admins \ {a} : request'[b] = request[b]
    <3>1. CASE Answered(a)
      BY <3>1, RequestAnswered DEF Answered, TypeInv
    <3>2. CASE Block(a) \/ AnswerLost(a) \/ Refused(a) \/ Commit(a)
      BY <1>0, <3>2 DEF Block, Judged, AnswerLost, Refused, Commit, Raised
    <3>. QED BY <1>8, <3>1, <3>2
  <2>. QED BY <1>1, <2>1
<1>9. CASE Restart
  BY <1>1, <1>9 DEF Restart
<1>10. CASE Advance
  BY <1>10 DEF Advance
<1>11. CASE UNCHANGED vars
  BY <1>11 DEF vars
<1>. QED BY <1>2, <1>3, <1>4, <1>5, <1>6, <1>7, <1>8, <1>9, <1>10, <1>11
        DEF Next, Reject, Check, Place, Record

\* Only an order that passed the guard reaches the broker.
LEMMA BookedStep ==
    TypeInv /\ NothingChecked /\ [Next]_vars => [killSwitch => booked' = booked]_vars
<1> SUFFICES ASSUME NothingChecked, killSwitch, [Next]_vars PROVE booked' = booked
  OBVIOUS
<1>1. ASSUME NEW a \in Admins, Answered(a) \/ AnswerLost(a)
      PROVE  FALSE
  BY <1>1 DEF NothingChecked, Answered, AnswerLost
<1>2. ASSUME NEW a \in Admins,
             Approve(a) \/ Block(a) \/ Refused(a) \/ Commit(a) \/ EndReject(a)
      PROVE  booked' = booked
  BY <1>2 DEF Approve, Block, Judged, Refused, Commit, EndReject, brokerVars
<1>3. ASSUME NEW a \in Admins, NEW d \in DecisionIds, Begin(a, d) \/ BeginReject(a, d)
      PROVE  booked' = booked
  BY <1>3 DEF Begin, BeginReject, brokerVars
<1>4. CASE Decide \/ Sync \/ Restart \/ Advance \/ UNCHANGED vars
  BY <1>4 DEF Decide, BuildDecision, Sync, SyncPositions, Restart, Advance, vars, brokerVars
<1>. QED BY <1>1, <1>2, <1>3, <1>4 DEF Next, Reject, Check, Place, Record

\* While the server runs with the kill switch on, no order reaches the broker.
THEOREM KillSwitchTheorem == Spec => KillSwitchStopsOrders
<1>1. Init => NothingChecked
  BY DEF Init, NothingChecked, Idle, RequestFor, None
<1>. QED BY <1>1, TypeInit, TypeStep, CheckedStep, BookedStep, PTL DEF Spec, KillSwitchStopsOrders

-----------------------------------------------------------------------------
(* Orders on record                                                          *)

\* The number of rows of a decision is a number.
LEMMA RowsAreNatural ==
    ASSUME TypeOK, NEW d
    PROVE  /\ IsFiniteSet({i \in DOMAIN orders : orders[i].decision = d})
           /\ RowsOf(d) \in Nat
<1>1. Len(orders) \in Nat /\ DOMAIN orders = 1..Len(orders)
  BY DEF TypeOK
<1>2. IsFiniteSet(DOMAIN orders)
  BY <1>1, FS_Interval
<1>3. IsFiniteSet({i \in DOMAIN orders : orders[i].decision = d})
  BY <1>2, FS_Subset
<1>. QED BY <1>3, FS_CardinalityType DEF RowsOf

\* One more row counts for its own decision only.
LEMMA RowAppended ==
    ASSUME TypeOK, NEW row, orders' = Append(orders, row), NEW d
    PROVE  RowsOf(d)' = IF row.decision = d THEN RowsOf(d) + 1 ELSE RowsOf(d)
<1> DEFINE n == Len(orders)
           old == {i \in DOMAIN orders : orders[i].decision = d}
           new == {i \in DOMAIN orders' : orders'[i].decision = d}
<1>1. n \in Nat /\ DOMAIN orders = 1..n
  BY DEF TypeOK
<1>2. /\ DOMAIN orders' = 1..(n + 1)
      /\ orders'[n + 1] = row
      /\ \A i \in 1..n : orders'[i] = orders[i]
  BY <1>1 DEF TypeOK
<1>3. IsFiniteSet(old)
  BY RowsAreNatural
<1>4. n + 1 \notin old
  BY <1>1
<1>5. new = IF row.decision = d THEN old \cup {n + 1} ELSE old
  BY <1>1, <1>2
<1>6. Cardinality(old \cup {n + 1}) = Cardinality(old) + 1
  BY <1>3, <1>4, FS_AddElement
<1>. QED BY <1>3, <1>5, <1>6 DEF RowsOf

\* Without a new row the counts stay.
LEMMA RowsKept ==
    ASSUME orders' = orders, NEW d
    PROVE  RowsOf(d)' = RowsOf(d)
BY DEF RowsOf

\* A decision nobody contests has no row while a request is at work on it.
NoRowYet(a, d) == request[a].at # None /\ request[a].decision = d => RowsOf(d) = 0

RecordInv ==
    /\ ExecutedOnRecord
    /\ \A a \in Admins, d \in DecisionIds \ contested : NoRowYet(a, d)

\* Nothing is on record yet.
LEMMA RecordInit == Init => RecordInv
<1> SUFFICES ASSUME Init PROVE RecordInv
  OBVIOUS
<1>1. \A d : RowsOf(d) = 0
  BY FS_EmptySet DEF Init, RowsOf
<1>2. \A d \in DecisionIds : decision[d].status # "EXECUTED"
  BY DEF Init, NoDecision, None
<1>3. \A a \in Admins : request[a].at = None
  BY DEF Init, Idle, RequestFor
<1>. QED BY <1>1, <1>2, <1>3 DEF RecordInv, ExecutedOnRecord, NoRowYet

\* A request that begins on a decision that is pending.
LEMMA RecordBegin ==
    ASSUME TypeInv, RecordInv, NEW a \in Admins, NEW d \in DecisionIds,
           decision[d].status = "PENDING_APPROVAL", NEW r, r.decision = d,
           request' = [request EXCEPT ![a] = r],
           UNCHANGED <<decision, orders, contested>>
    PROVE  RecordInv'
<1>1. \A e : RowsOf(e)' = RowsOf(e)
  BY RowsKept
<1>2. ExecutedOnRecord'
  BY <1>1 DEF RecordInv, ExecutedOnRecord
<1>3. d \notin contested => RowsOf(d) = 0
  BY DEF RecordInv, ExecutedOnRecord
<1>4. ASSUME NEW b \in Admins, NEW e \in DecisionIds \ contested
      PROVE  NoRowYet(b, e)'
  <2>1. CASE b = a
    <3>1. request'[b].decision = d
      BY <2>1 DEF TypeInv, TypeOK
    <3>. QED BY <1>1, <1>3, <3>1 DEF NoRowYet
  <2>2. CASE b # a
    <3>1. request'[b] = request[b]
      BY <2>2 DEF TypeInv, TypeOK
    <3>. QED BY <1>1, <3>1 DEF RecordInv, NoRowYet
  <2>. QED BY <2>1, <2>2
<1>. QED BY <1>2, <1>4 DEF RecordInv

\* Steps that neither begin a request nor touch the record. Those that change a
\* decision make it no more and no less EXECUTED.
LEMMA RecordKept ==
    ASSUME TypeInv, RecordInv, UNCHANGED <<orders, contested>>,
           \A d \in DecisionIds \ contested :
               decision'[d].status = "EXECUTED" <=> decision[d].status = "EXECUTED",
           \A a \in Admins :
               \/ request'[a].at = None
               \/ request[a].at # None /\ request'[a].decision = request[a].decision
    PROVE  RecordInv'
<1>1. \A e : RowsOf(e)' = RowsOf(e)
  BY RowsKept
<1>2. ExecutedOnRecord'
  BY <1>1 DEF RecordInv, ExecutedOnRecord
<1>3. ASSUME NEW b \in Admins, NEW e \in DecisionIds \ contested
      PROVE  NoRowYet(b, e)'
  BY <1>1 DEF RecordInv, NoRowYet
<1>. QED BY <1>2, <1>3 DEF RecordInv

\* The commit of an approval.
LEMMA RecordCommit ==
    ASSUME TypeInv, RecordInv, NEW a \in Admins, Commit(a)
    PROVE  RecordInv'
<1>1. request[a].at # None
  BY DEF Commit, None
<1>2. PICK d \in DecisionIds : d = request[a].decision
  BY <1>1, RequestUnderWay
<1>3. PICK row : row.decision = d /\ orders' = Append(orders, row)
  BY <1>2 DEF Commit
<1>4. /\ decision' = [decision EXCEPT ![d] = [@ EXCEPT !.status = "EXECUTED"]]
      /\ request' = [request EXCEPT ![a] = Idle]
      /\ contested' = IF \E b \in Admins \ {a} : request[b].decision = d
                      THEN contested \cup {d} ELSE contested
  BY <1>2 DEF Commit
<1>5. decision'[d].status = "EXECUTED" /\ \A e \in DecisionIds \ {d} : decision'[e] = decision[e]
  <2>1. decision \in [DecisionIds -> DecisionRows]
    BY RecordsAreTyped DEF TypeInv
  <2>. QED BY <1>4, <2>1 DEF DecisionRows
<1>6. d \notin contested => RowsOf(d) = 0
  BY <1>1, <1>2 DEF RecordInv, NoRowYet
<1>7. RowsOf(d)' = RowsOf(d) + 1 /\ \A e : e # d => RowsOf(e)' = RowsOf(e)
  BY <1>3, RowAppended DEF TypeInv
<1>8. \A b \in Admins \ {a} : request'[b] = request[b]
  BY <1>4 DEF TypeInv, TypeOK
<1>9. ASSUME NEW e \in DecisionIds \ contested'
      PROVE  RowsOf(e)' = IF decision'[e].status = "EXECUTED" THEN 1 ELSE 0
  <2>1. e \notin contested
    BY <1>4
  <2>2. CASE e = d
    BY <1>5, <1>6, <1>7, <2>1, <2>2
  <2>3. CASE e # d
    BY <1>5, <1>7, <2>1, <2>3 DEF RecordInv, ExecutedOnRecord
  <2>. QED BY <2>2, <2>3
<1>10. ASSUME NEW b \in Admins, NEW e \in DecisionIds \ contested'
       PROVE  NoRowYet(b, e)'
  <2>1. CASE b = a
    BY <1>4, <2>1, IdleIsTyped DEF NoRowYet, TypeInv, TypeOK
  <2>2. CASE b # a
    <3>1. e \notin contested /\ (request[b].decision = e => e # d)
      BY <1>4, <2>2
    <3>. QED BY <1>7, <1>8, <2>2, <3>1 DEF RecordInv, NoRowYet
  <2>. QED BY <2>1, <2>2
<1>. QED BY <1>9, <1>10 DEF RecordInv, ExecutedOnRecord

\* Every step keeps it.
LEMMA RecordStep == TypeInv /\ RecordInv /\ [Next]_vars => RecordInv'
<1> SUFFICES ASSUME TypeInv, RecordInv, [Next]_vars PROVE RecordInv'
  OBVIOUS
<1>0. request \in [Admins -> RequestRecords] /\ decision \in [DecisionIds -> DecisionRows]
  BY RecordsAreTyped DEF TypeInv
<1>1. ASSUME NEW d \in DecisionIds, NEW f \in Funds, NEW t \in Tickers,
             NEW action \in {"BUY", "SELL"}, BuildDecision(d, f, t, action)
      PROVE  RecordInv'
  <2>1. \A e \in DecisionIds : decision'[e].status = "EXECUTED" <=> decision[e].status = "EXECUTED"
    BY <1>0, <1>1 DEF BuildDecision, None
  <2>. QED BY <1>1, <2>1, RecordKept DEF BuildDecision, history
<1>2. ASSUME NEW a \in Admins, NEW d \in DecisionIds, BeginReject(a, d)
      PROVE  RecordInv'
  <2> DEFINE r == RequestFor(d, "rejecting", 0)
  <2>1. r.decision = d /\ request' = [request EXCEPT ![a] = r]
    BY <1>2 DEF BeginReject, RequestFor
  <2> HIDE DEF r
  <2>. QED BY <1>2, <2>1, RecordBegin DEF BeginReject, Rejectable, history
<1>3. ASSUME NEW a \in Admins, EndReject(a)
      PROVE  RecordInv'
  <2> DEFINE d == request[a].decision
  <2>1. d \in DecisionIds /\ request[a].at # None
    BY <1>3, RequestUnderWay DEF EndReject, None
  <2>2. d \notin contested => decision[d].status # "EXECUTED"
    <3> HIDE DEF d
    <3>1. d \notin contested => RowsOf(d) = 0
      BY <2>1 DEF RecordInv, NoRowYet, d
    <3>. QED BY <2>1, <3>1 DEF RecordInv, ExecutedOnRecord
  <2>3. \A e \in DecisionIds \ contested :
            decision'[e].status = "EXECUTED" <=> decision[e].status = "EXECUTED"
    BY <1>0, <1>3, <2>1, <2>2 DEF EndReject, DecisionRows
  <2>4. \A b \in Admins : request'[b].at = None \/ request'[b] = request[b]
    BY <1>0, <1>3, IdleIsTyped DEF EndReject
  <2>5. \A b \in Admins :
            \/ request'[b].at = None
            \/ request[b].at # None /\ request'[b].decision = request[b].decision
    BY <2>4
  <2>. QED BY <1>3, <2>3, <2>5, RecordKept DEF EndReject, history
<1>4. ASSUME NEW a \in Admins, NEW d \in DecisionIds, Begin(a, d)
      PROVE  RecordInv'
  <2> DEFINE r == RequestFor(d, "begun", now)
  <2>1. r.decision = d /\ request' = [request EXCEPT ![a] = r]
    BY <1>4 DEF Begin, RequestFor
  <2> HIDE DEF r
  <2>. QED BY <1>4, <2>1, RecordBegin DEF Begin, history
<1>5. ASSUME NEW a \in Admins,
             Approve(a) \/ Block(a) \/ Answered(a) \/ AnswerLost(a) \/ Refused(a)
      PROVE  RecordInv'
  <2>1. UNCHANGED <<decision, orders, contested>> /\ request[a].at # None
    BY <1>5 DEF Approve, Block, Judged, Answered, AnswerLost, Refused, history, None
  <2>2. \A b \in Admins :
            \/ request'[b].at = None
            \/ request[b].at # None /\ request'[b].decision = request[b].decision
    <3>1. CASE Block(a) \/ AnswerLost(a) \/ Refused(a)
      BY <1>0, <2>1, <3>1, IdleIsTyped DEF Block, AnswerLost, Refused, Raised
    <3>2. CASE Approve(a) \/ Answered(a)
      BY <2>1, <3>2, RequestApproved, RequestAnswered DEF TypeInv
    <3>. QED BY <1>5, <3>1, <3>2
  <2>. QED BY <2>1, <2>2, RecordKept
<1>6. ASSUME NEW a \in Admins, Commit(a)
      PROVE  RecordInv'
  BY <1>6, RecordCommit
<1>7. CASE Restart
  <2>1. \A b \in Admins : request'[b].at = None
    BY <1>7, IdleIsTyped DEF Restart
  <2>. QED BY <1>7, <2>1, RecordKept DEF Restart, history
<1>8. ASSUME UNCHANGED <<decision, orders, request, contested>>
      PROVE  RecordInv'
  BY <1>8, RecordKept
<1>9. CASE Sync \/ Advance \/ UNCHANGED vars
  BY <1>8, <1>9 DEF Sync, SyncPositions, Advance, vars, history
<1>. QED BY <1>1, <1>2, <1>3, <1>4, <1>5, <1>6, <1>7, <1>9
        DEF Next, Decide, Reject, Check, Place, Record

\* Unless a second request was at work on it when it was executed, a decision is
\* EXECUTED exactly when one order of it is on record.
THEOREM RecordTheorem == Spec => []ExecutedOnRecord
<1>1. RecordInv => ExecutedOnRecord
  BY DEF RecordInv
<1>. QED BY <1>1, RecordInit, RecordStep, TypeInit, TypeStep, PTL DEF Spec

-----------------------------------------------------------------------------
(* The record and the broker                                                 *)

\* Approvals that the broker has answered and that have not been committed.
Waiting(d) == {a \in Admins : request[a].at = "answered" /\ request[a].decision = d}

\* Every row, and every row to come, stands for an order the broker accepted.
PhantomInv == \A d \in DecisionIds : RowsOf(d) + Cardinality(Waiting(d)) <= booked[d]

\* Approvals that wait for their commit can be counted.
LEMMA WaitingIsFinite ==
    ASSUME NEW d
    PROVE  IsFiniteSet(Waiting(d)) /\ Cardinality(Waiting(d)) \in Nat
<1>1. IsFiniteSet(Admins) /\ Waiting(d) \subseteq Admins
  BY ExecutionAssumption DEF Waiting
<1>. QED BY <1>1, FS_Subset, FS_CardinalityType

\* Nothing is on record and nothing waits.
LEMMA PhantomInit == Init => PhantomInv
<1> SUFFICES ASSUME Init, NEW d \in DecisionIds PROVE RowsOf(d) + Cardinality(Waiting(d)) <= booked[d]
  BY DEF PhantomInv
<1>1. RowsOf(d) = 0
  BY FS_EmptySet DEF Init, RowsOf
<1>2. Waiting(d) = {}
  BY DEF Init, Waiting, Idle, RequestFor, None
<1>. QED BY <1>1, <1>2, FS_EmptySet DEF Init

\* Steps that add no row and leave no more approvals to be committed.
LEMMA PhantomKept ==
    ASSUME TypeInv, PhantomInv, TypeInv', orders' = orders,
           \A d \in DecisionIds : booked[d] <= booked'[d],
           \A a \in Admins : request'[a].at = "answered" => request'[a] = request[a]
    PROVE  PhantomInv'
<1> SUFFICES ASSUME NEW d \in DecisionIds
             PROVE  RowsOf(d)' + Cardinality(Waiting(d)') <= booked'[d]
  BY DEF PhantomInv
<1>1. RowsOf(d)' = RowsOf(d) /\ RowsOf(d) \in Nat
  BY RowsKept, RowsAreNatural DEF TypeInv
<1>2. Waiting(d)' \subseteq Waiting(d)
  BY DEF Waiting
<1>3. Cardinality(Waiting(d)') <= Cardinality(Waiting(d)) /\ Cardinality(Waiting(d)') \in Nat
  BY <1>2, WaitingIsFinite, FS_Subset, FS_CardinalityType
<1>4. booked[d] \in Nat /\ booked'[d] \in Nat
  BY DEF TypeInv, TypeOK
<1>. QED BY <1>1, <1>3, <1>4, WaitingIsFinite DEF PhantomInv

\* The broker's answer: one more order, one more approval to be committed.
LEMMA PhantomAnswered ==
    ASSUME TypeInv, PhantomInv, NEW a \in Admins, Answered(a)
    PROVE  PhantomInv'
<1>1. request[a].at = "checked" /\ request[a].decision \in DecisionIds
  BY RequestUnderWay DEF Answered, None
<1>2. request \in [Admins -> RequestRecords] /\ booked \in [DecisionIds -> Nat]
  BY RecordsAreTyped DEF TypeInv, TypeOK
<1>3. /\ booked' = [booked EXCEPT ![request[a].decision] = @ + 1]
      /\ orders' = orders
  BY DEF Answered, Fill
<1>4. request'[a].at = "answered" /\ request'[a].decision = request[a].decision
      /\ \A b \in Admins \ {a} : request'[b] = request[b]
  BY RequestAnswered DEF TypeInv
<1> SUFFICES ASSUME NEW d \in DecisionIds
             PROVE  RowsOf(d)' + Cardinality(Waiting(d)') <= booked'[d]
  BY DEF PhantomInv
<1>5. RowsOf(d)' = RowsOf(d)
  BY <1>3, RowsKept
<1>6. RowsOf(d) \in Nat
  BY RowsAreNatural DEF TypeInv
<1>7. CASE d = request[a].decision
  <2>1. Waiting(d)' = Waiting(d) \cup {a} /\ a \notin Waiting(d)
    BY <1>1, <1>4, <1>7 DEF Waiting
  <2>2. Cardinality(Waiting(d)') = Cardinality(Waiting(d)) + 1
    BY <2>1, WaitingIsFinite, FS_AddElement
  <2>3. booked'[d] = booked[d] + 1
    BY <1>2, <1>3, <1>7
  <2>. QED BY <1>2, <1>5, <1>6, <2>2, <2>3, WaitingIsFinite DEF PhantomInv
<1>8. CASE d # request[a].decision
  <2>1. Waiting(d)' = Waiting(d)
    BY <1>1, <1>4, <1>8 DEF Waiting
  <2>2. booked'[d] = booked[d]
    BY <1>2, <1>3, <1>8
  <2>. QED BY <1>5, <2>1, <2>2 DEF PhantomInv
<1>. QED BY <1>7, <1>8

\* The commit turns an answered approval into a row.
LEMMA PhantomCommit ==
    ASSUME TypeInv, PhantomInv, NEW a \in Admins, Commit(a)
    PROVE  PhantomInv'
<1>1. request[a].at = "answered"
  BY DEF Commit
<1>2. PICK row : row.decision = request[a].decision /\ orders' = Append(orders, row)
  BY DEF Commit
<1>3. /\ request' = [request EXCEPT ![a] = Idle]
      /\ booked' = booked
  BY DEF Commit, brokerVars
<1>4. request'[a].at # "answered" /\ \A b \in Admins \ {a} : request'[b] = request[b]
  BY <1>3, IdleIsTyped DEF TypeInv, TypeOK, None
<1> SUFFICES ASSUME NEW d \in DecisionIds
             PROVE  RowsOf(d)' + Cardinality(Waiting(d)') <= booked'[d]
  BY DEF PhantomInv
<1>5. RowsOf(d) \in Nat /\ RowsOf(d)' = IF row.decision = d THEN RowsOf(d) + 1 ELSE RowsOf(d)
  BY <1>2, RowAppended, RowsAreNatural DEF TypeInv
<1>6. booked[d] \in Nat
  BY DEF TypeInv, TypeOK
<1>7. CASE d = row.decision
  <2>1. Waiting(d)' = Waiting(d) \ {a} /\ a \in Waiting(d)
    BY <1>1, <1>2, <1>4, <1>7 DEF Waiting
  <2>2. Cardinality(Waiting(d)') = Cardinality(Waiting(d)) - 1
    BY <2>1, WaitingIsFinite, FS_RemoveElement
  <2>. QED BY <1>3, <1>5, <1>6, <1>7, <2>2, WaitingIsFinite DEF PhantomInv
<1>8. CASE d # row.decision
  <2>1. Waiting(d)' = Waiting(d)
    BY <1>2, <1>4, <1>8 DEF Waiting
  <2>. QED BY <1>3, <1>5, <1>8, <2>1 DEF PhantomInv
<1>. QED BY <1>7, <1>8

\* Every step keeps it.
LEMMA PhantomStep == TypeInv /\ PhantomInv /\ [Next]_vars => PhantomInv'
<1> SUFFICES ASSUME TypeInv, PhantomInv, [Next]_vars PROVE PhantomInv'
  OBVIOUS
<1>0. /\ TypeInv'
      /\ request \in [Admins -> RequestRecords]
      /\ booked \in [DecisionIds -> Nat]
  BY TypeStep, RecordsAreTyped DEF TypeInv, TypeOK
<1>1. CASE Decide \/ Sync \/ Advance \/ UNCHANGED vars
  <2>1. UNCHANGED <<orders, request, booked>>
    BY <1>1 DEF Decide, BuildDecision, Sync, SyncPositions, Advance, vars, brokerVars
  <2>. QED BY <1>0, <2>1, PhantomKept
<1>2. ASSUME NEW a \in Admins, NEW d \in DecisionIds, BeginReject(a, d) \/ Begin(a, d)
      PROVE  PhantomInv'
  <2>1. UNCHANGED <<orders, booked>>
    BY <1>2 DEF BeginReject, Begin, brokerVars
  <2>2. \A b \in Admins : request'[b].at = "answered" => request'[b] = request[b]
    BY <1>0, <1>2 DEF BeginReject, Begin, RequestFor
  <2>. QED BY <1>0, <2>1, <2>2, PhantomKept
<1>3. ASSUME NEW a \in Admins, EndReject(a) \/ Approve(a) \/ Block(a) \/ Refused(a)
      PROVE  PhantomInv'
  <2>1. UNCHANGED <<orders, booked>>
    BY <1>3 DEF EndReject, Approve, Block, Judged, Refused, brokerVars
  <2>2. \A b \in Admins : request'[b].at = "answered" => request'[b] = request[b]
    BY <1>0, <1>3, IdleIsTyped DEF EndReject, Approve, Block, Refused, Raised, None, RequestRecords
  <2>. QED BY <1>0, <2>1, <2>2, PhantomKept
<1>4. ASSUME NEW a \in Admins, AnswerLost(a)
      PROVE  PhantomInv'
  <2>1. orders' = orders /\ request[a].decision \in DecisionIds
    BY <1>4, RequestUnderWay DEF AnswerLost, None
  <2>2. \A d \in DecisionIds : booked[d] <= booked'[d]
    BY <1>0, <1>4, <2>1 DEF AnswerLost, Fill
  <2>3. \A b \in Admins : request'[b].at = "answered" => request'[b] = request[b]
    BY <1>0, <1>4, IdleIsTyped DEF AnswerLost, Raised, None
  <2>. QED BY <1>0, <2>1, <2>2, <2>3, PhantomKept
<1>5. ASSUME NEW a \in Admins, Answered(a)
      PROVE  PhantomInv'
  BY <1>5, PhantomAnswered
<1>6. ASSUME NEW a \in Admins, Commit(a)
      PROVE  PhantomInv'
  BY <1>6, PhantomCommit
<1>7. CASE Restart
  <2>1. UNCHANGED <<orders, booked>>
    BY <1>7 DEF Restart, brokerVars
  <2>2. \A b \in Admins : request'[b].at # "answered"
    BY <1>7, IdleIsTyped DEF Restart, None
  <2>. QED BY <1>0, <2>1, <2>2, PhantomKept
<1>. QED BY <1>1, <1>2, <1>3, <1>4, <1>5, <1>6, <1>7 DEF Next, Reject, Check, Place, Record

\* Whatever gets lost, refused or interrupted, no orders row claims an order the
\* broker did not accept.
THEOREM PhantomTheorem == Spec => []NoPhantomOrders
<1>1. TypeInv /\ PhantomInv => NoPhantomOrders
  <2> SUFFICES ASSUME TypeInv, PhantomInv, NEW d \in DecisionIds PROVE RowsOf(d) <= booked[d]
    BY DEF NoPhantomOrders
  <2>1. RowsOf(d) \in Nat /\ booked[d] \in Nat
    BY RowsAreNatural DEF TypeInv, TypeOK
  <2>. QED BY <2>1, WaitingIsFinite DEF PhantomInv
<1>. QED BY <1>1, PhantomInit, PhantomStep, TypeInit, TypeStep, PTL DEF Spec

-----------------------------------------------------------------------------
(* The cash                                                                  *)

Active(a) == request[a].at \in {"checked", "answered"}

\* Approvals of purchases that passed the guard and have no answer, and what
\* each will cost.
Buying == {a \in Admins : request[a].at = "checked" /\ decision[request[a].decision].action = "BUY"}
Cost(a) == Worth(request[a].decision)

\* Without overlap an approval is alone, and the cash covers it.
Alone ==
    /\ cash >= 0
    /\ \A a \in Buying : Cost(a) <= cash
    /\ \A a, b \in Admins : Active(a) /\ Active(b) => a = b

\* With overlap: were every purchase under way as large as can be, one of them
\* could still be paid from an order limit for each administrator.
Room == cash + Cardinality(Admins) * MaxOrder - Cardinality(Buying) * MaxOrder
Roomy == Room >= MaxOrder \/ \E a \in Buying : Room >= Cost(a)

SpendInv ==
    /\ \A a \in Buying : Cost(a) <= MaxOrder
    /\ ~overlapped => Alone
    /\ overlapped => Roomy

\* Purchases under way can be counted; there are no more than administrators.
LEMMA BuyingIsFinite ==
    /\ IsFiniteSet(Admins) /\ Cardinality(Admins) \in Nat
    /\ IsFiniteSet(Buying) /\ Cardinality(Buying) \in Nat
    /\ Cardinality(Buying) <= Cardinality(Admins)
<1>1. IsFiniteSet(Admins) /\ Buying \subseteq Admins
  BY ExecutionAssumption DEF Buying
<1>. QED BY <1>1, FS_Subset, FS_CardinalityType

\* A purchase under way costs a whole amount.
LEMMA CostIsNatural ==
    ASSUME TypeInv, NEW a \in Buying
    PROVE  Cost(a) \in Nat
<1>1. a \in Admins /\ request[a].at # None
  BY DEF Buying, None
<1>. QED BY <1>1, RequestUnderWay, WorthIsNatural DEF Cost

\* Multiples of the order limit.
LEMMA Multiples ==
    ASSUME NEW i \in Nat, NEW j \in Nat
    PROVE  /\ i * MaxOrder \in Nat
           /\ (i + 1) * MaxOrder = i * MaxOrder + MaxOrder
           /\ i <= j => i * MaxOrder <= j * MaxOrder
<1>1. MaxOrder \in Nat
  BY ExecutionAssumption
<1>. QED BY <1>1

\* Steps that begin no approval and cost nothing.
LEMMA SpendKept ==
    ASSUME TypeInv, TypeInv', SpendInv, cash' >= cash, Buying' \subseteq Buying,
           \A a \in Buying' : Cost(a)' = Cost(a),
           \A a \in Admins : Active(a)' => Active(a),
           overlapped' = overlapped
    PROVE  SpendInv'
<1> DEFINE n == Cardinality(Buying)
           m == Cardinality(Buying')
           A == Cardinality(Admins) * MaxOrder
<1>1. /\ cash \in Int /\ cash' \in Int /\ MaxOrder \in Nat /\ A \in Nat
      /\ n \in Nat /\ m \in Nat /\ m <= n
  <2>1. IsFiniteSet(Buying) /\ n \in Nat /\ Cardinality(Admins) \in Nat
    BY BuyingIsFinite
  <2>2. m \in Nat /\ m <= n
    BY <2>1, FS_Subset, FS_CardinalityType
  <2>3. A \in Nat
    BY <2>1, Multiples
  <2>. QED BY <2>1, <2>2, <2>3, ExecutionAssumption DEF TypeInv, TypeOK
<1>2. \A a \in Buying' : Cost(a)' <= MaxOrder
  BY DEF SpendInv
<1>3. ASSUME ~overlapped' PROVE Alone'
  <2>1. Alone
    BY <1>3 DEF SpendInv
  <2>2. cash' >= 0
    BY <1>1, <2>1 DEF Alone
  <2>3. \A a \in Buying' : Cost(a)' <= cash'
    BY <1>1, <2>1, CostIsNatural DEF Alone
  <2>. QED BY <2>1, <2>2, <2>3 DEF Alone
<1>4. ASSUME overlapped' PROVE Roomy'
  <2>1. Roomy
    BY <1>4 DEF SpendInv
  <2>2. Room' = cash' + A - m * MaxOrder /\ Room = cash + A - n * MaxOrder
    BY DEF Room
  <2>3. Room' >= Room /\ Room \in Int /\ Room' \in Int
    <3>1. m * MaxOrder <= n * MaxOrder /\ m * MaxOrder \in Nat /\ n * MaxOrder \in Nat
      BY <1>1, Multiples
    <3>. QED BY <1>1, <2>2, <3>1
  <2>4. CASE Room >= MaxOrder
    BY <1>1, <2>3, <2>4 DEF Roomy
  <2>5. ASSUME NEW a \in Buying, a \in Buying', Room >= Cost(a)
        PROVE  Roomy'
    BY <2>3, <2>5, CostIsNatural DEF Roomy
  <2>6. ASSUME NEW a \in Buying, a \notin Buying', Room >= Cost(a)
        PROVE  Roomy'
    <3>1. m + 1 <= n
      <4>1. Buying' \subseteq Buying \ {a}
        BY <2>6
      <4>2. IsFiniteSet(Buying \ {a}) /\ Cardinality(Buying \ {a}) = n - 1
        BY BuyingIsFinite, FS_RemoveElement
      <4>3. m <= n - 1
        BY <4>1, <4>2, FS_Subset
      <4>. QED BY <1>1, <4>3
    <3>2. m * MaxOrder + MaxOrder <= n * MaxOrder /\ m * MaxOrder \in Nat /\ n * MaxOrder \in Nat
      <4>1. (m + 1) * MaxOrder <= n * MaxOrder /\ (m + 1) * MaxOrder = m * MaxOrder + MaxOrder
        BY <1>1, <3>1, Multiples
      <4>. QED BY <1>1, <4>1, Multiples
    <3>3. Cost(a) \in Nat
      BY CostIsNatural
    <3>4. Room' >= MaxOrder
      BY <1>1, <2>2, <2>6, <3>2, <3>3
    <3>. QED BY <3>4 DEF Roomy
  <2>. QED BY <2>1, <2>4, <2>5, <2>6 DEF Roomy
<1>. QED BY <1>2, <1>3, <1>4 DEF SpendInv

\* A purchase is filled, with its answer or without.
LEMMA SpendFill ==
    ASSUME TypeInv, TypeInv', SpendInv, NEW a \in Buying,
           cash' = cash - Cost(a), Buying' = Buying \ {a},
           \A b \in Buying' : Cost(b)' = Cost(b),
           \A b \in Admins : Active(b)' => Active(b),
           overlapped' = overlapped
    PROVE  SpendInv'
<1> DEFINE n == Cardinality(Buying)
           m == Cardinality(Buying')
           A == Cardinality(Admins) * MaxOrder
<1>1. /\ cash \in Int /\ MaxOrder \in Nat /\ A \in Nat
      /\ n \in Nat /\ m \in Nat /\ n = m + 1
  <2>1. IsFiniteSet(Buying) /\ n \in Nat /\ Cardinality(Admins) \in Nat
    BY BuyingIsFinite
  <2>2. m = n - 1 /\ IsFiniteSet(Buying')
    BY <2>1, FS_RemoveElement
  <2>3. m \in Nat
    BY <2>2, FS_CardinalityType
  <2>4. A \in Nat
    BY <2>1, Multiples
  <2>. QED BY <2>1, <2>2, <2>3, <2>4, ExecutionAssumption DEF TypeInv, TypeOK
<1>2. \A b \in Buying' : Cost(b)' <= MaxOrder
  BY DEF SpendInv
<1>3. ASSUME ~overlapped' PROVE Alone'
  <2>1. Alone
    BY <1>3 DEF SpendInv
  <2>2. Cost(a) <= cash /\ Cost(a) \in Nat
    BY <2>1, CostIsNatural DEF Alone
  <2>3. cash' >= 0
    BY <1>1, <2>2
  <2>4. Buying' = {}
    BY <2>1 DEF Alone, Active, Buying
  <2>. QED BY <2>1, <2>3, <2>4 DEF Alone
<1>4. ASSUME overlapped' PROVE Roomy'
  <2>1. Roomy
    BY <1>4 DEF SpendInv
  <2>2. Cost(a) \in Nat /\ Cost(a) <= MaxOrder
    BY CostIsNatural DEF SpendInv
  <2>3. Room' = Room - Cost(a) + MaxOrder /\ Room \in Int
    <3>1. n * MaxOrder = m * MaxOrder + MaxOrder /\ m * MaxOrder \in Nat
      BY <1>1, Multiples
    <3>2. Room' = cash' + A - m * MaxOrder /\ Room = cash + A - n * MaxOrder
      BY DEF Room
    <3>. QED BY <1>1, <2>2, <3>1, <3>2
  <2>4. CASE Room >= MaxOrder
    BY <1>1, <2>2, <2>3, <2>4 DEF Roomy
  <2>5. CASE Room >= Cost(a)
    BY <1>1, <2>2, <2>3, <2>5 DEF Roomy
  <2>6. ASSUME NEW b \in Buying, b # a, Room >= Cost(b)
        PROVE  Roomy'
    <3>1. b \in Buying' /\ Cost(b)' = Cost(b) /\ Cost(b) \in Nat
      BY <2>6, CostIsNatural
    <3>2. Room' >= Cost(b)'
      BY <1>1, <2>2, <2>3, <2>6, <3>1
    <3>. QED BY <3>1, <3>2 DEF Roomy
  <2>. QED BY <2>1, <2>4, <2>5, <2>6 DEF Roomy
<1>. QED BY <1>2, <1>3, <1>4 DEF SpendInv

\* An approval passes the guard.
LEMMA SpendApprove ==
    ASSUME TypeInv, TypeInv', SpendInv, NEW a \in Admins, Approve(a)
    PROVE  SpendInv'
<1> DEFINE n == Cardinality(Buying)
           A == Cardinality(Admins)
<1>0. PICK d \in DecisionIds : d = request[a].decision /\ decision[d].status # None
  BY RequestUnderWay DEF Approve, Judged, None
<1>1. /\ cash \in Int /\ MaxOrder \in Nat /\ n \in Nat /\ A \in Nat /\ n <= A
      /\ request \in [Admins -> RequestRecords]
  BY BuyingIsFinite, ExecutionAssumption, RecordsAreTyped DEF TypeInv, TypeOK
<1>2. /\ request[a].at = "begun"
      /\ request'[a].at = "checked" /\ request'[a].decision = d
      /\ \A b \in Admins \ {a} : request'[b] = request[b]
      /\ UNCHANGED <<decision, cash>>
  BY <1>0, RequestApproved DEF Approve, Judged, brokerVars, TypeInv
<1>3. /\ Worth(d) \in Nat /\ Worth(d) <= MaxOrder
      /\ decision[d].action = "BUY" => Worth(d) <= cash
  BY <1>0, WorthIsNatural DEF Approve, Allowed, Affordable
<1>4. \A b \in Buying : b \in Buying' /\ Cost(b)' = Cost(b) /\ Cost(b) \in Nat /\ Cost(b) <= MaxOrder
  <2>1. ASSUME NEW b \in Buying
        PROVE  b \in Buying' /\ Cost(b)' = Cost(b)
    <3>1. b \in Admins \ {a}
      BY <1>2 DEF Buying
    <3>. QED BY <1>2, <3>1 DEF Buying, Cost, Worth
  <2>. QED BY <2>1, CostIsNatural DEF SpendInv
<1>5. a \notin Buying /\ \A b \in Buying' : b # a => b \in Buying
  BY <1>2 DEF Buying
<1>6. a \in Buying' <=> decision[d].action = "BUY"
  BY <1>2 DEF Buying
<1>7. Cost(a)' = Worth(d)
  BY <1>2 DEF Cost, Worth
<1>8. \A b \in Buying' : Cost(b)' <= MaxOrder
  BY <1>3, <1>4, <1>5, <1>7
<1>9. overlapped' <=> (overlapped \/ \E b \in Admins : Active(b))
  BY DEF Approve, Active, TypeInv, TypeOK
<1>10. ASSUME ~overlapped' PROVE Alone'
  <2>1. Alone /\ \A b \in Admins : ~Active(b)
    BY <1>9, <1>10 DEF SpendInv
  <2>2. \A b \in Admins : Active(b)' => b = a
    BY <1>2, <2>1 DEF Active
  <2>3. \A b \in Buying' : b = a
    BY <2>2 DEF Buying, Active
  <2>4. cash' >= 0
    BY <1>2, <2>1 DEF Alone
  <2>5. \A b \in Buying' : Cost(b)' <= cash'
    BY <1>2, <1>3, <1>6, <1>7, <2>3
  <2>. QED BY <2>2, <2>4, <2>5 DEF Alone
<1>11. ASSUME overlapped', decision[d].action = "BUY" PROVE Roomy'
  <2>1. Buying' = Buying \cup {a}
    BY <1>4, <1>5, <1>6, <1>11
  <2>2. Cardinality(Buying') = n + 1
    BY <1>5, <2>1, BuyingIsFinite, FS_AddElement
  <2>3. n + 1 <= A
    <3>1. Buying' \subseteq Admins
      BY DEF Buying
    <3>. QED BY <2>2, <3>1, BuyingIsFinite, FS_Subset
  <2>4. (n + 1) * MaxOrder <= A * MaxOrder /\ (n + 1) * MaxOrder \in Nat /\ A * MaxOrder \in Nat
    BY <1>1, <2>3, Multiples
  <2>5. Room' = cash + A * MaxOrder - (n + 1) * MaxOrder
    BY <1>2, <2>2 DEF Room
  <2>6. Room' >= Cost(a)'
    BY <1>1, <1>3, <1>7, <1>11, <2>4, <2>5
  <2>. QED BY <1>6, <1>11, <2>6 DEF Roomy
<1>12. ASSUME overlapped', decision[d].action # "BUY" PROVE Roomy'
  <2>1. Buying' = Buying
    BY <1>4, <1>5, <1>6, <1>12
  <2>2. Room' = Room
    BY <1>2, <2>1 DEF Room
  <2>3. Roomy
    <3>1. CASE overlapped
      BY <3>1 DEF SpendInv
    <3>2. CASE ~overlapped
      <4>1. Alone
        BY <3>2 DEF SpendInv
      <4>2. CASE Buying = {}
        <5>1. n = 0 /\ n * MaxOrder = 0
          BY <4>2, FS_EmptySet, ExecutionAssumption
        <5>2. A # 0
          BY BuyingIsFinite, FS_EmptySet
        <5>3. 1 * MaxOrder <= A * MaxOrder /\ A * MaxOrder \in Nat /\ 1 * MaxOrder = MaxOrder
          BY <1>1, <5>2, Multiples
        <5>4. Room = cash + A * MaxOrder
          BY <1>1, <5>1, <5>3 DEF Room
        <5>. QED BY <1>1, <4>1, <5>3, <5>4 DEF Alone, Roomy
      <4>3. ASSUME NEW b \in Buying PROVE Roomy
        <5>1. Cost(b) <= cash /\ Cost(b) \in Nat
          BY <4>1, CostIsNatural DEF Alone
        <5>2. n * MaxOrder <= A * MaxOrder /\ n * MaxOrder \in Nat /\ A * MaxOrder \in Nat
          BY <1>1, Multiples
        <5>3. Room >= Cost(b)
          BY <1>1, <5>1, <5>2 DEF Room
        <5>. QED BY <5>3 DEF Roomy
      <4>. QED BY <4>2, <4>3
    <3>. QED BY <3>1, <3>2
  <2>. QED BY <1>4, <2>1, <2>2, <2>3 DEF Roomy
<1>. QED BY <1>8, <1>10, <1>11, <1>12 DEF SpendInv

\* The broker fills the order of a request that then has an answer or has failed.
LEMMA SpendPlaced ==
    ASSUME TypeInv, TypeInv', SpendInv, NEW a \in Admins, request[a].at = "checked",
           Fill(request[a].decision), request'[a].at # "checked",
           \A b \in Admins \ {a} : request'[b] = request[b],
           UNCHANGED <<decision, overlapped>>
    PROVE  SpendInv'
<1>1. request[a].at # None
  BY DEF None
<1>2. Cost(a) \in Nat /\ cash \in Int
  BY <1>1, RequestUnderWay, WorthIsNatural DEF Cost, TypeInv, TypeOK
<1>3. Buying' = Buying \ {a}
  BY DEF Buying
<1>4. \A b \in Buying' : Cost(b)' = Cost(b)
  BY <1>3 DEF Buying, Cost, Worth
<1>5. \A b \in Admins : Active(b)' => Active(b)
  BY DEF Active
<1>6. CASE decision[request[a].decision].action = "BUY"
  <2>1. cash' = cash - Cost(a)
    BY <1>6 DEF Fill, Cost
  <2>2. a \in Buying
    BY <1>6 DEF Buying
  <2>. QED BY <1>3, <1>4, <1>5, <2>1, <2>2, SpendFill
<1>7. CASE decision[request[a].decision].action # "BUY"
  <2>1. cash' = cash + Cost(a)
    BY <1>7 DEF Fill, Cost
  <2>2. cash' >= cash
    BY <1>2, <2>1
  <2>. QED BY <1>3, <1>4, <1>5, <2>2, SpendKept
<1>. QED BY <1>6, <1>7

\* Requests that begin no approval, or end one without an order.
LEMMA SpendIdle ==
    ASSUME TypeInv, TypeInv', SpendInv, UNCHANGED <<cash, overlapped>>,
           \A d \in DecisionIds : decision[d].status # None =>
               /\ decision'[d].action = decision[d].action
               /\ decision'[d].ticker = decision[d].ticker
               /\ decision'[d].quantity = decision[d].quantity,
           \A a \in Admins : request'[a] = request[a] \/ ~Active(a)'
    PROVE  SpendInv'
<1>1. \A a \in Buying' : a \in Buying /\ Cost(a)' = Cost(a)
  <2> SUFFICES ASSUME NEW a \in Buying' PROVE a \in Buying /\ Cost(a)' = Cost(a)
    OBVIOUS
  <2>1. a \in Admins /\ request'[a] = request[a] /\ request[a].at = "checked"
    BY DEF Buying, Active
  <2>2. request[a].decision \in DecisionIds /\ decision[request[a].decision].status # None
    BY <2>1, RequestUnderWay DEF None
  <2>. QED BY <2>1, <2>2 DEF Buying, Cost, Worth
<1>2. \A a \in Admins : Active(a)' => Active(a)
  BY DEF Active
<1>3. cash' >= cash
  BY DEF TypeInv, TypeOK
<1>. QED BY <1>1, <1>2, <1>3, SpendKept

\* Every step keeps it.
LEMMA SpendStep == TypeInv /\ SpendInv /\ [Next]_vars => SpendInv'
<1> SUFFICES ASSUME TypeInv, SpendInv, [Next]_vars PROVE SpendInv'
  OBVIOUS
<1>0. /\ TypeInv'
      /\ request \in [Admins -> RequestRecords]
      /\ decision \in [DecisionIds -> DecisionRows]
  BY TypeStep, RecordsAreTyped DEF TypeInv
<1>1. ASSUME NEW d \in DecisionIds, NEW f \in Funds, NEW t \in Tickers,
             NEW action \in {"BUY", "SELL"}, BuildDecision(d, f, t, action)
      PROVE  SpendInv'
  <2>1. UNCHANGED <<cash, overlapped, request>>
        /\ \A e \in DecisionIds : decision[e].status # None => decision'[e] = decision[e]
    BY <1>0, <1>1 DEF BuildDecision, brokerVars, history
  <2>. QED BY <1>0, <2>1, SpendIdle
<1>2. CASE Sync \/ Advance \/ UNCHANGED vars
  <2>1. UNCHANGED <<cash, overlapped, request, decision>>
    BY <1>2 DEF Sync, SyncPositions, Advance, vars, brokerVars, history
  <2>. QED BY <1>0, <2>1, SpendIdle
<1>3. ASSUME NEW a \in Admins, NEW d \in DecisionIds, BeginReject(a, d) \/ Begin(a, d)
      PROVE  SpendInv'
  <2>1. UNCHANGED <<cash, overlapped, decision>>
    BY <1>3 DEF BeginReject, Begin, brokerVars, history
  <2>2. \A b \in Admins : request'[b] = request[b] \/ ~Active(b)'
    BY <1>0, <1>3 DEF BeginReject, Begin, RequestFor, Active
  <2>. QED BY <1>0, <2>1, <2>2, SpendIdle
<1>4. ASSUME NEW a \in Admins, EndReject(a) \/ Commit(a)
      PROVE  SpendInv'
  <2>1. UNCHANGED <<cash, overlapped>>
    BY <1>4 DEF EndReject, Commit, brokerVars, history
  <2>2. request[a].decision \in DecisionIds
    BY <1>4, RequestUnderWay DEF EndReject, Commit, None
  <2>3. \A d \in DecisionIds :
            /\ decision'[d].action = decision[d].action
            /\ decision'[d].ticker = decision[d].ticker
            /\ decision'[d].quantity = decision[d].quantity
    <3> DEFINE e == request[a].decision
    <3>1. PICK status \in {"REJECTED", "EXECUTED"} :
              decision' = [decision EXCEPT ![e] = [@ EXCEPT !.status = status]]
      BY <1>4 DEF EndReject, Commit
    <3> HIDE DEF e
    <3>. QED BY <1>0, <2>2, <3>1 DEF DecisionRows
  <2>4. \A b \in Admins : request'[b] = request[b] \/ ~Active(b)'
    BY <1>0, <1>4, IdleIsTyped DEF EndReject, Commit, Active, None
  <2>. QED BY <1>0, <2>1, <2>3, <2>4, SpendIdle
<1>5. ASSUME NEW a \in Admins, Approve(a)
      PROVE  SpendInv'
  BY <1>0, <1>5, SpendApprove
<1>6. ASSUME NEW a \in Admins, Answered(a) \/ AnswerLost(a)
      PROVE  SpendInv'
  <2>1. /\ request[a].at = "checked" /\ Fill(request[a].decision)
        /\ UNCHANGED <<decision, overlapped>>
    BY <1>6 DEF Answered, AnswerLost, history
  <2>2. request'[a].at # "checked" /\ \A b \in Admins \ {a} : request'[b] = request[b]
    <3>1. CASE Answered(a)
      BY <3>1, RequestAnswered DEF TypeInv
    <3>2. CASE AnswerLost(a)
      BY <1>0, <3>2, IdleIsTyped DEF AnswerLost, Raised, None
    <3>. QED BY <1>6, <3>1, <3>2
  <2>. QED BY <1>0, <2>1, <2>2, SpendPlaced
<1>7. ASSUME NEW a \in Admins, Block(a) \/ Refused(a)
      PROVE  SpendInv'
  <2>1. UNCHANGED <<cash, overlapped, decision>>
    BY <1>7 DEF Block, Judged, Refused, brokerVars, history
  <2>2. \A b \in Admins : request'[b] = request[b] \/ ~Active(b)'
    BY <1>0, <1>7, IdleIsTyped DEF Block, Refused, Raised, Active, None
  <2>. QED BY <1>0, <2>1, <2>2, SpendIdle
<1>8. CASE Restart
  <2>1. UNCHANGED <<cash, overlapped, decision>>
    BY <1>8 DEF Restart, brokerVars, history
  <2>2. \A b \in Admins : ~Active(b)'
    BY <1>8, IdleIsTyped DEF Restart, Active, None
  <2>. QED BY <1>0, <2>1, <2>2, SpendIdle
<1>. QED BY <1>1, <1>2, <1>3, <1>4, <1>5, <1>6, <1>7, <1>8
        DEF Next, Decide, Reject, Check, Place, Record

\* With any number of administrators, orders and lost answers, the account is
\* overdrawn by at most one order limit for each approval that may overlap with another.
THEOREM OverspendTheorem == Spec => []NeverOverspends
<1>1. Init => SpendInv
  <2> SUFFICES ASSUME Init PROVE SpendInv
    OBVIOUS
  <2>1. \A a \in Admins : request[a].at = None
    BY DEF Init, Idle, RequestFor
  <2>2. Buying = {} /\ \A a \in Admins : ~Active(a)
    BY <2>1 DEF Buying, Active, None
  <2>3. cash \in Nat /\ ~overlapped
    BY ExecutionAssumption DEF Init
  <2>. QED BY <2>2, <2>3 DEF SpendInv, Alone
<1>2. TypeInv /\ SpendInv => NeverOverspends
  <2> SUFFICES ASSUME TypeInv, SpendInv PROVE NeverOverspends
    OBVIOUS
  <2> DEFINE n == Cardinality(Buying)
             A == Cardinality(Admins)
  <2>1. cash \in Int /\ MaxOrder \in Nat /\ n \in Nat /\ A \in Nat
    BY BuyingIsFinite, ExecutionAssumption DEF TypeInv, TypeOK
  <2>2. CASE ~overlapped
    <3>1. cash >= 0
      BY <2>2 DEF SpendInv, Alone
    <3>2. Overlap * MaxOrder = 0
      BY <2>1, <2>2 DEF Overlap
    <3>. QED BY <2>1, <3>1, <3>2 DEF NeverOverspends
  <2>3. CASE overlapped
    <3>1. Overlap * MaxOrder = A * MaxOrder - MaxOrder /\ A * MaxOrder \in Nat
      BY <2>1, <2>3, Multiples DEF Overlap
    <3>2. cash + A * MaxOrder >= MaxOrder
      <4>1. n * MaxOrder \in Nat /\ Room = cash + A * MaxOrder - n * MaxOrder
        BY <2>1, Multiples DEF Room
      <4>2. CASE Room >= MaxOrder
        BY <2>1, <3>1, <4>1, <4>2
      <4>3. ASSUME NEW a \in Buying, Room >= Cost(a)
            PROVE  cash + A * MaxOrder >= MaxOrder
        <5>1. n # 0
          BY BuyingIsFinite, FS_EmptySet
        <5>2. 1 * MaxOrder <= n * MaxOrder /\ 1 * MaxOrder = MaxOrder
          BY <2>1, <5>1, Multiples
        <5>3. Cost(a) \in Nat
          BY CostIsNatural
        <5>. QED BY <2>1, <3>1, <4>1, <4>3, <5>2, <5>3
      <4>. QED BY <2>3, <4>2, <4>3 DEF SpendInv, Roomy
    <3>. QED BY <2>1, <3>1, <3>2 DEF NeverOverspends
  <2>. QED BY <2>2, <2>3
<1>. QED BY <1>1, <1>2, TypeInit, TypeStep, SpendStep, PTL DEF Spec
=============================================================================
