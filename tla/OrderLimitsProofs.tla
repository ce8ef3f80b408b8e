-------------------------- MODULE OrderLimitsProofs --------------------------
(* The limits of the risk guard that are kept between the check and the record *)
(* of an order: how many orders a day holds, and how much of the account one   *)
(* ticker takes.                                                               *)
EXTENDS OrderExecutionProofs, ArithmeticTheorems

-----------------------------------------------------------------------------
(* Approvals under way                                                       *)

\* When the order of an approval under way was submitted, or the earliest
\* moment it can be.
Lands(a) == IF request[a].at = "checked" THEN now ELSE request[a].submitted

\* A request under way keeps its decision and the time it began, its order is
\* submitted no earlier, and an existing decision keeps what it orders.
Standing ==
    /\ \A a \in Admins : Active(a)' =>
           /\ Active(a)
           /\ request'[a].decision = request[a].decision
           /\ request'[a].began = request[a].began
           /\ Lands(a)' >= Lands(a)
           /\ request'[a].at = "checked" => request[a].at = "checked"
    /\ \A d \in DecisionIds : decision[d].status # None =>
           /\ decision'[d].action = decision[d].action
           /\ decision'[d].fund = decision[d].fund
           /\ decision'[d].ticker = decision[d].ticker
           /\ decision'[d].quantity = decision[d].quantity

\* A step that leaves the requests under way as they are, or ends them, while
\* the clock does not go back.
LEMMA StandingKept ==
    ASSUME TypeInv, now' \in Int, now' >= now,
           \A a \in Admins : request'[a] = request[a] \/ ~Active(a)',
           \A d \in DecisionIds : decision[d].status # None =>
               /\ decision'[d].action = decision[d].action
               /\ decision'[d].fund = decision[d].fund
               /\ decision'[d].ticker = decision[d].ticker
               /\ decision'[d].quantity = decision[d].quantity
    PROVE  Standing
<1>1. ASSUME NEW a \in Admins, Active(a)'
      PROVE  request'[a] = request[a] /\ Active(a) /\ Lands(a)' >= Lands(a)
  <2>1. request'[a] = request[a]
    BY <1>1
  <2>2. Active(a) /\ request[a].submitted \in Int
    BY <1>1, <2>1, RequestUnderWay DEF Active, None
  <2>. QED BY <2>1, <2>2 DEF Lands, TypeInv, TypeOK
<1>. QED BY <1>1 DEF Standing

\* Only an approval that passes the guard adds a request under way.
LEMMA OnlyApprovalsBegin ==
    ASSUME TypeInv, [Next]_vars, \A a \in Admins : ~Approve(a)
    PROVE  Standing /\ overlapped' = overlapped
<1>0. /\ request \in [Admins -> RequestRecords] /\ decision \in [DecisionIds -> DecisionRows]
      /\ now \in Int
  BY RecordsAreTyped DEF TypeInv, TypeOK
<1>1. ASSUME NEW d \in DecisionIds, NEW f \in Funds, NEW t \in Tickers,
             NEW action \in {"BUY", "SELL"}, BuildDecision(d, f, t, action)
      PROVE  Standing /\ overlapped' = overlapped
  <2>1. UNCHANGED <<now, overlapped, request>>
        /\ \A e \in DecisionIds : decision[e].status # None => decision'[e] = decision[e]
    BY <1>0, <1>1 DEF BuildDecision, history
  <2>. QED BY <1>0, <2>1, StandingKept
<1>2. CASE Sync \/ Advance \/ UNCHANGED vars
  <2>1. UNCHANGED <<overlapped, request, decision>>
    BY <1>2 DEF Sync, SyncPositions, Advance, vars, history
  <2>2. now' \in Int /\ now' >= now
    BY <1>0, <1>2 DEF Sync, SyncPositions, Advance, vars
  <2>. QED BY <2>1, <2>2, StandingKept
<1>3. ASSUME NEW a \in Admins, NEW d \in DecisionIds, BeginReject(a, d) \/ Begin(a, d)
      PROVE  Standing /\ overlapped' = overlapped
  <2>1. UNCHANGED <<now, overlapped, decision>>
    BY <1>3 DEF BeginReject, Begin, history
  <2>2. \A b \in Admins : request'[b] = request[b] \/ ~Active(b)'
    BY <1>0, <1>3 DEF BeginReject, Begin, RequestFor, Active
  <2>. QED BY <1>0, <2>1, <2>2, StandingKept
<1>4. ASSUME NEW a \in Admins, EndReject(a) \/ Commit(a)
      PROVE  Standing /\ overlapped' = overlapped
  <2>1. UNCHANGED <<now, overlapped>>
    BY <1>4 DEF EndReject, Commit, history
  <2>2. request[a].decision \in DecisionIds
    BY <1>4, RequestUnderWay DEF EndReject, Commit, None
  <2>3. \A d \in DecisionIds :
            /\ decision'[d].action = decision[d].action
            /\ decision'[d].fund = decision[d].fund
            /\ decision'[d].ticker = decision[d].ticker
            /\ decision'[d].quantity = decision[d].quantity
    <3> DEFINE e == request[a].decision
    <3>1. PICK status \in {"REJECTED", "EXECUTED"} :
              decision' = [decision EXCEPT ![e] = [@ EXCEPT !.status = status]]
      BY <1>4 DEF EndReject, Commit
    <3> HIDE DEF e
    <3>. QED BY <1>0, <2>2, <3>1 DEF DecisionRows
  <2>4. \A b \in Admins : request'[b] = request[b] \/ ~Active(b)'
    BY <1>0, <1>4, IdleIsTyped DEF EndReject, Commit, Active, None
  <2>. QED BY <1>0, <2>1, <2>3, <2>4, StandingKept
<1>5. ASSUME NEW a \in Admins, Answered(a)
      PROVE  Standing /\ overlapped' = overlapped
  <2>1. UNCHANGED <<now, overlapped, decision>> /\ request[a].at = "checked"
    BY <1>5 DEF Answered, history
  <2>2. /\ request'[a].at = "answered" /\ request'[a].submitted = now
        /\ request'[a].decision = request[a].decision /\ request'[a].began = request[a].began
        /\ \A b \in Admins \ {a} : request'[b] = request[b]
    BY <1>5, RequestAnswered DEF TypeInv
  <2>3. Active(a) /\ Lands(a)' = Lands(a) /\ Lands(a) \in Int
    BY <1>0, <2>1, <2>2 DEF Active, Lands
  <2>4. ASSUME NEW b \in Admins \ {a}, Active(b)'
        PROVE  Active(b) /\ Lands(b)' = Lands(b) /\ Lands(b) \in Int
    <3>1. Active(b)
      BY <2>2, <2>4 DEF Active
    <3>2. request[b].submitted \in Int
      BY <3>1, RequestUnderWay DEF Active, None
    <3>. QED BY <1>0, <2>1, <2>2, <3>1, <3>2 DEF Lands
  <2>5. \A b \in Admins : Active(b)' => Lands(b)' >= Lands(b)
    BY <2>3, <2>4
  <2>. QED BY <2>1, <2>2, <2>3, <2>4, <2>5 DEF Standing
<1>6. ASSUME NEW a \in Admins, Block(a) \/ AnswerLost(a) \/ Refused(a)
      PROVE  Standing /\ overlapped' = overlapped
  <2>1. UNCHANGED <<now, overlapped, decision>>
    BY <1>6 DEF Block, Judged, AnswerLost, Refused, history
  <2>2. \A b \in Admins : request'[b] = request[b] \/ ~Active(b)'
    BY <1>0, <1>6, IdleIsTyped DEF Block, AnswerLost, Refused, Raised, Active, None
  <2>. QED BY <1>0, <2>1, <2>2, StandingKept
<1>7. CASE Restart
  <2>1. UNCHANGED <<now, overlapped, decision>>
    BY <1>7 DEF Restart, history
  <2>2. \A b \in Admins : ~Active(b)'
    BY <1>7, IdleIsTyped DEF Restart, Active, None
  <2>. QED BY <1>0, <2>1, <2>2, StandingKept
<1>. QED BY <1>1, <1>2, <1>3, <1>4, <1>5, <1>6, <1>7
        DEF Next, Decide, Reject, Check, Place, Record

-----------------------------------------------------------------------------
(* The daily limit                                                           *)

\* Rows of a fund that were begun and submitted within the day that begins at c,
\* and approvals under way that may still add one.
RowsIn(f, c) ==
    {i \in DOMAIN orders :
        orders[i].fund = f /\ orders[i].created >= c /\ orders[i].submitted <= c + Day}
Pending(f, c) ==
    {a \in Admins :
        /\ Active(a)
        /\ decision[request[a].decision].fund = f
        /\ request[a].began >= c
        /\ Lands(a) <= c + Day}

\* What the guard has let through counts from then on, committed or not.
LimitInv ==
    \A f \in Funds, c \in 0..Horizon :
        Cardinality(RowsIn(f, c)) + Cardinality(Pending(f, c)) <= MaxDailyOrders + Overlap

\* Rows and approvals can be counted.
LEMMA CountsAreNatural ==
    ASSUME TypeOK, NEW f, NEW c
    PROVE  /\ IsFiniteSet(RowsIn(f, c)) /\ Cardinality(RowsIn(f, c)) \in Nat
           /\ IsFiniteSet(Pending(f, c)) /\ Cardinality(Pending(f, c)) \in Nat
           /\ Overlap \in Int /\ MaxDailyOrders \in Nat
           /\ IsFiniteSet(Admins) /\ Cardinality(Admins) \in Nat
<1>1. Len(orders) \in Nat /\ DOMAIN orders = 1..Len(orders)
  BY DEF TypeOK
<1>2. IsFiniteSet(DOMAIN orders) /\ RowsIn(f, c) \subseteq DOMAIN orders
  BY <1>1, FS_Interval DEF RowsIn
<1>3. IsFiniteSet(Admins) /\ Pending(f, c) \subseteq Admins /\ MaxDailyOrders \in Nat
  BY ExecutionAssumption DEF Pending
<1>. QED BY <1>2, <1>3, FS_Subset, FS_CardinalityType DEF Overlap

\* Each row is of its type.
LEMMA RowsAreTyped ==
    ASSUME TypeOK, NEW i \in DOMAIN orders
    PROVE  orders[i].fund \in Funds /\ orders[i].created \in 0..Horizon
<1>1. orders \in Seq(OrderRows)
  BY RecordsAreTyped
<1>2. orders[i] \in OrderRows
  BY <1>1
<1>. QED BY <1>2 DEF OrderRows

\* Steps that record nothing and let nothing through.
LEMMA LimitKept ==
    ASSUME TypeInv, TypeOK', LimitInv, Standing, UNCHANGED <<orders, overlapped>>
    PROVE  LimitInv'
<1> SUFFICES ASSUME NEW f \in Funds, NEW c \in 0..Horizon
             PROVE  Cardinality(RowsIn(f, c)') + Cardinality(Pending(f, c)')
                        <= MaxDailyOrders + Overlap'
  BY DEF LimitInv
<1>1. RowsIn(f, c)' = RowsIn(f, c) /\ Overlap' = Overlap
  BY DEF RowsIn, Overlap
<1>2. Pending(f, c)' \subseteq Pending(f, c)
  <2> SUFFICES ASSUME NEW a \in Pending(f, c)' PROVE a \in Pending(f, c)
    OBVIOUS
  <2>1. a \in Admins /\ Active(a) /\ request'[a].decision = request[a].decision
        /\ request'[a].began = request[a].began /\ Lands(a)' >= Lands(a) /\ Lands(a)' <= c + Day
    BY DEF Pending, Standing
  <2>2. request[a].decision \in DecisionIds /\ decision[request[a].decision].status # None
        /\ request[a].submitted \in Int
    BY <2>1, RequestUnderWay DEF Active, None
  <2>3. Lands(a) \in Int /\ Lands(a)' \in Int /\ c + Day \in Int
    <3>1. now \in Int /\ now' \in Int /\ request'[a].submitted \in Int
      BY <2>1 DEF TypeInv, TypeOK
    <3>2. c + Day \in Int
      BY ExecutionAssumption
    <3>. QED BY <2>2, <3>1, <3>2 DEF Lands
  <2>4. Lands(a) <= c + Day
    BY <2>1, <2>3
  <2>. QED BY <2>1, <2>2, <2>4 DEF Pending, Standing
<1>3. Cardinality(Pending(f, c)') <= Cardinality(Pending(f, c)) /\ Cardinality(Pending(f, c)') \in Nat
  <2>1. IsFiniteSet(Pending(f, c))
    BY CountsAreNatural DEF TypeInv
  <2>. QED BY <1>2, <2>1, FS_Subset, FS_CardinalityType
<1>4. Cardinality(RowsIn(f, c)) + Cardinality(Pending(f, c)) <= MaxDailyOrders + Overlap
  BY DEF LimitInv
<1>. QED BY <1>1, <1>3, <1>4, CountsAreNatural DEF TypeInv

\* An approval under way becomes a row.
LEMMA LimitCommit ==
    ASSUME TypeInv, TypeOK', LimitInv, NEW a \in Admins, Commit(a), Standing
    PROVE  LimitInv'
<1> DEFINE d == request[a].decision
           n == Len(orders)
<1>1. /\ Active(a) /\ d \in DecisionIds
      /\ request' = [request EXCEPT ![a] = Idle] /\ overlapped' = overlapped
  BY RequestUnderWay DEF Commit, Active, None
<1>2. /\ ~Active(a)'
      /\ \A b \in Admins \ {a} : request'[b] = request[b]
  BY <1>1, IdleIsTyped DEF TypeInv, TypeOK, Active, None
<1>. now' = now
  BY DEF Commit
<1>3. PICK row : /\ orders' = Append(orders, row)
                 /\ row.fund = decision[d].fund /\ row.created = request[a].began
                 /\ row.submitted = Lands(a)
  BY DEF Commit, Lands
<1>4. n \in Nat /\ DOMAIN orders = 1..n
  BY DEF TypeInv, TypeOK
<1>5. /\ DOMAIN orders' = 1..(n + 1)
      /\ orders'[n + 1] = row
      /\ \A i \in 1..n : orders'[i] = orders[i]
  BY <1>3, <1>4 DEF TypeInv, TypeOK
<1>6. \A e \in DecisionIds : decision'[e].fund = decision[e].fund
  <2>1. PICK status \in {"EXECUTED"} :
            decision' = [decision EXCEPT ![d] = [@ EXCEPT !.status = status]]
    BY DEF Commit
  <2>2. decision \in [DecisionIds -> DecisionRows]
    BY RecordsAreTyped DEF TypeInv
  <2> HIDE DEF d
  <2>. QED BY <1>1, <2>1, <2>2 DEF DecisionRows
<1> HIDE DEF d, n
<1> SUFFICES ASSUME NEW f \in Funds, NEW c \in 0..Horizon
             PROVE  Cardinality(RowsIn(f, c)') + Cardinality(Pending(f, c)')
                        <= MaxDailyOrders + Overlap'
  BY DEF LimitInv
<1>7. Overlap' = Overlap
  BY <1>1 DEF Overlap
<1>8. Cardinality(RowsIn(f, c)) + Cardinality(Pending(f, c)) <= MaxDailyOrders + Overlap
  BY DEF LimitInv
<1>9. \A b \in Admins \ {a} : b \in Pending(f, c)' <=> b \in Pending(f, c)
  <2> SUFFICES ASSUME NEW b \in Admins \ {a} PROVE b \in Pending(f, c)' <=> b \in Pending(f, c)
    OBVIOUS
  <2>1. Active(b) => request[b].decision \in DecisionIds
    BY RequestUnderWay DEF Active, None
  <2>2. Lands(b)' = Lands(b)
    BY <1>2 DEF Lands
  <2>. QED BY <1>2, <1>6, <2>1, <2>2 DEF Pending, Active
<1>10. a \notin Pending(f, c)'
  BY <1>2 DEF Pending
<1>11. Pending(f, c) \subseteq Admins /\ Pending(f, c)' \subseteq Admins
  BY DEF Pending
<1>12. Pending(f, c)' = Pending(f, c) \ {a}
  BY <1>9, <1>10, <1>11
<1>13. CASE a \in Pending(f, c)
  <2>1. RowsIn(f, c)' = RowsIn(f, c) \cup {n + 1} /\ n + 1 \notin RowsIn(f, c)
    BY <1>3, <1>4, <1>5, <1>13 DEF RowsIn, Pending, d
  <2>2. Cardinality(RowsIn(f, c)') = Cardinality(RowsIn(f, c)) + 1
    BY <2>1, CountsAreNatural, FS_AddElement DEF TypeInv
  <2>3. Cardinality(Pending(f, c)') = Cardinality(Pending(f, c)) - 1
    BY <1>12, <1>13, CountsAreNatural, FS_RemoveElement DEF TypeInv
  <2>. QED BY <1>7, <1>8, <2>2, <2>3, CountsAreNatural DEF TypeInv
<1>14. CASE a \notin Pending(f, c)
  <2>1. RowsIn(f, c)' = RowsIn(f, c)
    BY <1>1, <1>3, <1>4, <1>5, <1>14 DEF RowsIn, Pending, d
  <2>2. Pending(f, c)' = Pending(f, c)
    BY <1>12, <1>14
  <2>. QED BY <1>7, <1>8, <2>1, <2>2
<1>. QED BY <1>13, <1>14

\* An approval passes the guard. In a day in which its order may still be
\* submitted, the rows that count are rows the guard has counted.
LEMMA LimitApprove ==
    ASSUME TypeInv, TypeOK', LimitInv, NEW a \in Admins, Approve(a)
    PROVE  LimitInv'
<1> DEFINE A == Cardinality(Admins)
           d == request[a].decision
<1>1. /\ UNCHANGED <<now, orders, decision>>
      /\ overlapped' = (overlapped \/ \E b \in Admins : Active(b))
  BY DEF Approve, Judged, Active
<1>2. /\ request'[a].decision = d /\ Lands(a)' = now
      /\ \A b \in Admins \ {a} : request'[b] = request[b] /\ Lands(b)' = Lands(b)
  BY <1>1, RequestApproved DEF TypeInv, Lands
<1>3. A \in Nat /\ A >= 1 /\ now \in Int /\ Day \in Nat /\ overlapped \in BOOLEAN /\ overlapped' \in BOOLEAN
  <2>1. A \in Nat /\ A # 0
    BY CountsAreNatural, FS_EmptySet DEF TypeInv
  <2>2. A >= 1
    BY <2>1
  <2>3. now \in Int /\ overlapped \in BOOLEAN /\ overlapped' \in BOOLEAN
    BY DEF TypeInv, TypeOK
  <2>. QED BY <2>1, <2>2, <2>3, ExecutionAssumption
<1>4. Overlap' >= Overlap
  BY <1>1, <1>3 DEF Overlap
<1> SUFFICES ASSUME NEW f \in Funds, NEW c \in 0..Horizon
             PROVE  Cardinality(RowsIn(f, c)') + Cardinality(Pending(f, c)')
                        <= MaxDailyOrders + Overlap'
  BY DEF LimitInv
<1>5. RowsIn(f, c)' = RowsIn(f, c)
  BY <1>1 DEF RowsIn
<1>6. /\ Cardinality(RowsIn(f, c)) \in Nat /\ Cardinality(Pending(f, c)) \in Nat
      /\ IsFiniteSet(Pending(f, c)') /\ Cardinality(Pending(f, c)') \in Nat
      /\ Overlap \in Int /\ Overlap' \in Int /\ MaxDailyOrders \in Nat
  <2>1. IsFiniteSet(Pending(f, c)')
    <3>1. IsFiniteSet(Admins) /\ Pending(f, c)' \subseteq Admins
      BY ExecutionAssumption DEF Pending
    <3>. QED BY <3>1, FS_Subset
  <2>2. Overlap' \in Int
    BY <1>3 DEF Overlap
  <2>. QED BY <2>1, <2>2, CountsAreNatural, FS_CardinalityType DEF TypeInv
<1>7. CASE a \in Pending(f, c)'
  <2>1. now <= c + Day /\ decision[d].fund = f
    BY <1>1, <1>2, <1>7 DEF Pending
  <2>2. Cardinality(RowsIn(f, c)) < MaxDailyOrders
    <3> DEFINE Counted == {i \in DOMAIN orders : orders[i].fund = f /\ orders[i].created >= now - Day}
    <3>1. Cardinality(Counted) < MaxDailyOrders
      BY <2>1 DEF Approve, Allowed, BelowDailyLimit, DailyOrders
    <3>2. RowsIn(f, c) \subseteq Counted
      <4> SUFFICES ASSUME NEW i \in RowsIn(f, c) PROVE i \in Counted
        OBVIOUS
      <4>1. i \in DOMAIN orders /\ orders[i].fund = f /\ orders[i].created >= c
            /\ orders[i].created \in Int
        BY RowsAreTyped DEF RowsIn, TypeInv
      <4>2. orders[i].created >= now - Day
        BY <1>3, <2>1, <4>1
      <4>. QED BY <4>1, <4>2
    <3>3. IsFiniteSet(Counted)
      <4>1. Len(orders) \in Nat /\ DOMAIN orders = 1..Len(orders)
        BY DEF TypeInv, TypeOK
      <4>2. Counted \subseteq DOMAIN orders /\ IsFiniteSet(DOMAIN orders)
        BY <4>1, FS_Interval
      <4> HIDE DEF Counted
      <4>. QED BY <4>2, FS_Subset
    <3>4. Cardinality(RowsIn(f, c)) <= Cardinality(Counted) /\ Cardinality(Counted) \in Nat
      <4> HIDE DEF Counted
      <4>. QED BY <3>2, <3>3, FS_Subset, FS_CardinalityType
    <3> HIDE DEF Counted
    <3>. QED BY <1>6, <3>1, <3>4
  <2>3. CASE overlapped'
    <3>1. Pending(f, c)' \subseteq Admins /\ IsFiniteSet(Admins)
      BY ExecutionAssumption DEF Pending
    <3>2. Cardinality(Pending(f, c)') <= A
      BY <3>1, FS_Subset
    <3>3. Overlap' = A - 1
      BY <2>3 DEF Overlap
    <3>. QED BY <1>3, <1>5, <1>6, <2>2, <3>2, <3>3
  <2>4. CASE ~overlapped'
    <3>1. Pending(f, c)' = {a}
      BY <1>1, <1>2, <1>7, <2>4 DEF Pending, Active
    <3>2. Cardinality(Pending(f, c)') = 1 /\ Overlap' = 0
      BY <2>4, <3>1, FS_Singleton DEF Overlap
    <3>. QED BY <1>5, <1>6, <2>2, <3>2
  <2>. QED BY <2>3, <2>4
<1>8. CASE a \notin Pending(f, c)'
  <2>1. Pending(f, c)' \subseteq Pending(f, c)
    BY <1>1, <1>2, <1>8 DEF Pending, Active
  <2>2. Cardinality(Pending(f, c)') <= Cardinality(Pending(f, c))
    BY <2>1, CountsAreNatural, FS_Subset DEF TypeInv
  <2>3. Cardinality(RowsIn(f, c)) + Cardinality(Pending(f, c)) <= MaxDailyOrders + Overlap
    BY DEF LimitInv
  <2>. QED BY <1>4, <1>5, <1>6, <2>2, <2>3
<1>. QED BY <1>7, <1>8

\* Every step keeps it.
LEMMA LimitStep == TypeInv /\ LimitInv /\ [Next]_vars => LimitInv'
<1> SUFFICES ASSUME TypeInv, LimitInv, [Next]_vars PROVE LimitInv'
  OBVIOUS
<1>1. TypeOK'
  BY TypeStep DEF TypeInv
<1>2. ASSUME NEW a \in Admins, Approve(a)
      PROVE  LimitInv'
  BY <1>1, <1>2, LimitApprove
<1>3. CASE \A a \in Admins : ~Approve(a)
  <2>1. Standing /\ overlapped' = overlapped
    BY <1>3, OnlyApprovalsBegin
  <2>2. ASSUME NEW a \in Admins, Commit(a)
        PROVE  LimitInv'
    BY <1>1, <2>1, <2>2, LimitCommit
  <2>3. CASE \A a \in Admins : ~Commit(a)
    <3>1. orders' = orders
      BY <1>3, <2>3 DEF Next, Decide, BuildDecision, Reject, BeginReject, EndReject, Sync, SyncPositions,
         Check, Begin, Block, Judged, Place, Answered, AnswerLost, Refused, Record, Restart, Advance, vars
    <3>. QED BY <1>1, <2>1, <3>1, LimitKept
  <2>. QED BY <2>2, <2>3
<1>. QED BY <1>2, <1>3

\* Of the orders of a fund that were begun and submitted within the same day, no
\* more are on record than the limit and one for each but one of the approvals
\* that overlap, whatever the limit, the length of the day, the number of
\* administrators and the time that passes between their steps.
THEOREM DailyLimitTheorem == Spec => []DailyLimitHolds
<1>1. Init => LimitInv
  <2> SUFFICES ASSUME Init, NEW f \in Funds, NEW c \in 0..Horizon
               PROVE  Cardinality(RowsIn(f, c)) + Cardinality(Pending(f, c)) <= MaxDailyOrders + Overlap
    BY DEF LimitInv
  <2>1. RowsIn(f, c) = {}
    BY DEF Init, RowsIn
  <2>2. Pending(f, c) = {}
    BY DEF Init, Pending, Active, Idle, RequestFor, None
  <2>3. Overlap = 0
    BY DEF Init, Overlap
  <2>. QED BY <2>1, <2>2, <2>3, FS_EmptySet, ExecutionAssumption
<1>2. TypeInv /\ LimitInv => DailyLimitHolds
  <2> SUFFICES ASSUME TypeInv, LimitInv, NEW i \in DOMAIN orders
               PROVE  Cardinality(RowsIn(orders[i].fund, orders[i].created)) <= MaxDailyOrders + Overlap
    BY DEF DailyLimitHolds, RowsIn
  <2>1. orders[i].fund \in Funds /\ orders[i].created \in 0..Horizon
    BY RowsAreTyped DEF TypeInv
  <2>2. Cardinality(RowsIn(orders[i].fund, orders[i].created))
            + Cardinality(Pending(orders[i].fund, orders[i].created)) <= MaxDailyOrders + Overlap
    BY <2>1 DEF LimitInv
  <2>. QED BY <2>2, CountsAreNatural DEF TypeInv
<1>. QED BY <1>1, <1>2, LimitStep, TypeInit, TypeStep, PTL DEF Spec
-----------------------------------------------------------------------------
(* The weight of a ticker                                                    *)

Values == [t \in Tickers |-> Price[t] * holdings[t]]

\* Until approvals overlap, the account is still as the guard saw it when a
\* purchase that passed it is placed.
WeightInv ==
    /\ SpendInv
    /\ ~overlapped => \A a \in Buying : WithinWeight(request[a].decision)

\* Holdings are worth whole amounts, none more than all of them.
LEMMA ValuesAreNatural ==
    ASSUME TypeOK
    PROVE  /\ Values \in [Tickers -> Nat]
           /\ SumFunction(Values) \in Nat
           /\ \A t \in Tickers : Values[t] <= SumFunction(Values)
           /\ Equity = cash + SumFunction(Values)
<1>1. \A t \in Tickers : Price[t] \in Nat /\ holdings[t] \in Nat
  BY ExecutionAssumption DEF TypeOK
<1>2. \A i, j \in Nat : i * j \in Nat
  OBVIOUS
<1>3. Values \in [Tickers -> Nat]
  BY <1>1, <1>2 DEF Values
<1>4. Equity = cash + SumFunction(Values)
  BY DEF Equity, Values
<1>5. /\ SumFunctionOnSet(Values, Tickers) \in Nat
      /\ \A t \in Tickers : Values[t] <= SumFunctionOnSet(Values, Tickers)
  <2>1. \A t \in Tickers : Values[t] \in Nat
    BY <1>3
  <2> HIDE DEF Values
  <2>. QED BY <2>1, SumOfNaturals, ExecutionAssumption
<1> HIDE DEF Values
<1>. QED BY <1>3, <1>4, <1>5 DEF SumFunction

\* A purchase moves its worth from the cash into the holdings.
LEMMA PurchaseKeepsEquity ==
    ASSUME TypeInv, TypeInv', NEW d \in DecisionIds, decision[d].status # None,
           decision[d].action = "BUY", Fill(d)
    PROVE  /\ Values'[decision[d].ticker] = Values[decision[d].ticker] + Worth(d)
           /\ Equity' = Equity
<1> DEFINE t == decision[d].ticker
           q == decision[d].quantity
<1>1. t \in Tickers /\ q \in Nat /\ holdings \in [Tickers -> Nat] /\ cash \in Int
  BY DEF TypeInv, TypeOK, Complete
<1>2. Worth(d) = Price[t] * q /\ Worth(d) \in Nat
  BY WorthIsNatural DEF Worth
<1>3. cash' = cash - Worth(d) /\ holdings' = [holdings EXCEPT ![t] = @ + q]
  BY DEF Fill
<1> HIDE DEF t, q
<1>4. Values'[t] = Values[t] + Worth(d)
  <2>1. Price[t] \in Nat /\ holdings[t] \in Nat
    BY <1>1, ExecutionAssumption
  <2>2. Price[t] * (holdings[t] + q) = Price[t] * holdings[t] + Price[t] * q
    BY <1>1, <2>1
  <2>3. Values[t] = Price[t] * holdings[t] /\ Values'[t] = Price[t] * (holdings[t] + q)
    BY <1>1, <1>3 DEF Values
  <2>. QED BY <1>2, <2>2, <2>3
<1>5. \A s \in Tickers \ {t} : Values'[s] = Values[s]
  BY <1>1, <1>3 DEF Values
<1>6. /\ Values \in [Tickers -> Nat] /\ SumFunction(Values) \in Nat
      /\ Equity = cash + SumFunction(Values)
  BY ValuesAreNatural DEF TypeInv
<1>7. Values' \in [Tickers -> Nat]
  <2>1. \A s \in Tickers : Values'[s] \in Nat
    BY <1>1, <1>2, <1>4, <1>5, <1>6
  <2>. QED BY <2>1 DEF Values
<1>8. SumFunction(Values') = SumFunction(Values) + Values'[t] - Values[t]
  <2>1. Values \in [Tickers -> Int] /\ Values' \in [Tickers -> Int]
    BY <1>6, <1>7
  <2>. QED BY <1>1, <1>5, <2>1, SumChanged, ExecutionAssumption
<1>9. Equity' = cash' + SumFunction(Values')
  BY DEF Equity, Values
<1>10. Values[t] \in Nat
  BY <1>1, <1>6
<1>11. Equity' = Equity
  BY <1>1, <1>2, <1>3, <1>4, <1>6, <1>8, <1>9, <1>10
<1>. QED BY <1>4, <1>11 DEF t

\* A purchase that the guard's limits allow leaves its ticker within them.
LEMMA PurchaseWithinWeight ==
    ASSUME TypeInv, TypeInv', NEW d \in DecisionIds, decision[d].status # None,
           decision[d].action = "BUY", Fill(d), Worth(d) <= cash, WithinWeight(d)
    PROVE  Price[decision[d].ticker] * holdings'[decision[d].ticker] * WeightDen
               <= WeightNum * Equity'
<1> DEFINE t == decision[d].ticker
<1>1. t \in Tickers /\ cash \in Int /\ Worth(d) \in Nat
  BY WorthIsNatural DEF TypeInv, TypeOK, Complete
<1>2. Values[t] \in Nat /\ Values[t] <= SumFunction(Values) /\ SumFunction(Values) \in Nat
      /\ Equity = cash + SumFunction(Values)
  BY <1>1, ValuesAreNatural DEF TypeInv
<1>3. Values'[t] = Values[t] + Worth(d) /\ Equity' = Equity
  BY PurchaseKeepsEquity
<1>4. Values[t] = Price[t] * holdings[t] /\ Values'[t] = Price[t] * holdings'[t]
  BY <1>1 DEF Values
<1>5. WeightNum \in Nat /\ WeightDen \in Nat
  BY ExecutionAssumption
<1> SUFFICES Values'[t] * WeightDen <= WeightNum * Equity'
  BY <1>4
<1>6. CASE Equity > 0
  BY <1>3, <1>4, <1>6 DEF WithinWeight
<1>7. CASE ~(Equity > 0)
  <2>1. Equity = 0 /\ Values'[t] = 0
    BY <1>1, <1>2, <1>3, <1>7
  <2>. QED BY <1>3, <1>5, <2>1
<1>. QED BY <1>6, <1>7

\* Every step keeps the account as the guard saw it.
LEMMA WeightStep == TypeInv /\ WeightInv /\ [Next]_vars => WeightInv'
<1> SUFFICES ASSUME TypeInv, WeightInv, [Next]_vars, ~overlapped', NEW a \in Buying'
             PROVE  WithinWeight(request[a].decision)'
  BY SpendStep DEF WeightInv
<1>1. /\ a \in Admins /\ Active(a)'
      /\ request'[a].at = "checked" /\ decision'[request'[a].decision].action = "BUY"
  BY DEF Buying, Active
<1>2. ASSUME NEW b \in Admins, Approve(b)
      PROVE  WithinWeight(request[a].decision)'
  <2>1. /\ \A c \in Admins : ~Active(c)
        /\ UNCHANGED <<decision, cash, holdings>>
        /\ WithinWeight(request[b].decision)
    BY <1>2 DEF Approve, Judged, Active, Allowed, brokerVars
  <2>2. request'[b].decision = request[b].decision
        /\ \A c \in Admins \ {b} : request'[c] = request[c]
    BY <1>2, RequestApproved DEF TypeInv
  <2>3. a = b
    BY <1>1, <2>1, <2>2 DEF Active
  <2>. QED BY <2>1, <2>2, <2>3 DEF WithinWeight, Equity, Worth
<1>3. CASE \A b \in Admins : ~Approve(b)
  <2>1. Standing /\ overlapped' = overlapped
    BY <1>3, OnlyApprovalsBegin
  <2>2. /\ Active(a) /\ request'[a].decision = request[a].decision
        /\ request[a].decision \in DecisionIds
        /\ decision[request[a].decision].status # None
    BY <1>1, <2>1, RequestUnderWay DEF Standing, Active, None
  <2>3. \A b \in Admins : Active(b) => b = a
    BY <1>1, <2>1, <2>2 DEF WeightInv, SpendInv, Alone
  <2>4. UNCHANGED <<cash, holdings>>
    <3>1. ASSUME NEW b \in Admins, Answered(b) \/ AnswerLost(b)
          PROVE  FALSE
      <4>1. b = a
        BY <2>3, <3>1 DEF Answered, AnswerLost, Active
      <4>2. request'[b].at # "checked"
        <5>1. CASE Answered(b)
          BY <5>1, RequestAnswered DEF TypeInv
        <5>2. CASE AnswerLost(b)
          BY <5>2, IdleIsTyped DEF AnswerLost, Raised, TypeInv, TypeOK, None
        <5>. QED BY <3>1, <5>1, <5>2
      <4>. QED BY <1>1, <4>1, <4>2
    <3>. QED
      BY <1>3, <3>1 DEF Next, Decide, BuildDecision, Reject, BeginReject, EndReject, Sync, SyncPositions,
         Check, Begin, Block, Judged, Place, Refused, Record, Commit, Restart, Advance, vars, brokerVars
  <2>5. request[a].at = "checked"
    BY <1>1, <2>1 DEF Standing
  <2>6. a \in Buying /\ WithinWeight(request[a].decision)
    BY <1>1, <2>1, <2>2, <2>5 DEF Buying, Standing, WeightInv
  <2>. QED BY <2>1, <2>2, <2>4, <2>6 DEF WithinWeight, Equity, Worth, Standing
<1>. QED BY <1>2, <1>3

\* Until approvals overlap, no purchase leaves its ticker with more than its
\* share of the account, whatever the prices, the other holdings and the steps
\* between the guard and the broker.
THEOREM WeightTheorem == Spec => BuysKeepTheWeight
<1>1. Init => WeightInv
  <2> SUFFICES ASSUME Init PROVE WeightInv
    OBVIOUS
  <2>1. \A a \in Admins : request[a].at = None
    BY DEF Init, Idle, RequestFor
  <2>2. Buying = {} /\ \A a \in Admins : ~Active(a)
    BY <2>1 DEF Buying, Active, None
  <2>3. cash \in Nat /\ ~overlapped
    BY ExecutionAssumption DEF Init
  <2>. QED BY <2>2, <2>3 DEF WeightInv, SpendInv, Alone
<1>2. ASSUME TypeInv, WeightInv, [Next]_vars, NEW d \in DecisionIds, Bought(d), ~overlapped
      PROVE  Price[decision[d].ticker] * holdings'[decision[d].ticker] * WeightDen
                 <= WeightNum * Equity'
  <2>1. PICK a \in Admins : Answered(a) \/ AnswerLost(a)
    <3>1. booked' # booked
      BY <1>2 DEF Bought, TypeInv, TypeOK
    <3>. QED
      BY <1>2, <3>1 DEF Next, Decide, BuildDecision, Reject, BeginReject, EndReject, Sync, SyncPositions,
         Check, Begin, Approve, Block, Judged, Place, Refused, Record, Commit, Restart, Advance, vars, brokerVars
  <2>2. request[a].at = "checked" /\ Fill(request[a].decision)
    BY <2>1 DEF Answered, AnswerLost
  <2>3. request[a].decision = d
    BY <1>2, <2>2, RequestUnderWay DEF Fill, Bought, TypeInv, TypeOK, None
  <2>4. a \in Buying
    BY <1>2, <2>2, <2>3 DEF Buying, Bought
  <2>5. Worth(d) <= cash /\ WithinWeight(d)
    BY <1>2, <2>3, <2>4 DEF WeightInv, SpendInv, Alone, Cost
  <2>6. decision[d].status # None /\ TypeInv'
    BY <1>2, <2>2, <2>3, RequestUnderWay, TypeStep DEF None
  <2>. QED BY <1>2, <2>2, <2>3, <2>5, <2>6, PurchaseWithinWeight DEF Bought
<1>3. TypeInv /\ WeightInv /\ [Next]_vars =>
          [\A d \in DecisionIds :
              Bought(d) /\ ~overlapped =>
                  Price[decision[d].ticker] * holdings'[decision[d].ticker] * WeightDen
                      <= WeightNum * Equity']_vars
  BY <1>2
<1>. QED BY <1>1, <1>3, WeightStep, TypeInit, TypeStep, PTL DEF Spec, BuysKeepTheWeight
=============================================================================
