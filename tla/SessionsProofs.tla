---------------------------- MODULE SessionsProofs ----------------------------
(* What overlapping sessions keep, for any number of them, of members and of   *)
(* markets: a commit does harm only through what it read too early, and then    *)
(* only to the market or the member it read.                                   *)
EXTENDS Sessions, MarketLifecycleProofs

-----------------------------------------------------------------------------
(* Types                                                                     *)

\* The columns that requests read, and what a session holds.
MarketRows ==
    [status : MarketStatuses \cup {None}, reference : Prices \cup {0}, winner : Outcomes \cup {None}]
SessionRecords ==
    [request : Requests \cup {None}, at : {None, "begun", "loaded", "checked"},
     market : Markets \cup {None}, row : MarketRows,
     who : SUBSET Members, allocation : [Outcomes -> Entries], seen : Books,
     live : SUBSET (Members \X Outcomes), points : Int, paid : SUBSET Members]

\* The history and the bookkeeping of sessions.
Recorded ==
    /\ decisions \in [Markets -> Nat]
    /\ staleMarkets \subseteq Markets
    /\ staleRows \subseteq Markets \X Members
    /\ stalePoints \subseteq Members

\* Sessions that are open; the budget of commits covers each of them.
Running == {s \in Slots : session[s].request # None}
Budget == committed \in Nat /\ committed + Cardinality(Running) <= MaxCommits

\* Whose bets a request reads, and what it asks for.
Asked(request, who, allocation) ==
    /\ request = "allocate" =>
           /\ \E m \in Members : who = {m}
           /\ Stake(allocation) > 0
           /\ \A o \in Outcomes : allocation[o] > 0 => allocation[o] >= MinStake * Scale
    /\ request \in {"close", "resolve"} => who = {}
    /\ request \in {"decide", "settle", "cancel"} => who = Members

\* The check of the status that a request has passed, on the row that it read.
Admitted(request, row) ==
    /\ request \in {"allocate", "close"} => row.status = "OPEN"
    /\ request = "decide" => row.status = "CLOSED"
    /\ request = "resolve" => row.status \in {"CLOSED", "DECIDED", "EXECUTED"} /\ row.reference # 0
    /\ request = "settle" => row.status = "RESOLVED" /\ row.winner # None
    /\ request = "cancel" => row.status \notin {None, "SETTLED", "CANCELLED"}

\* The points that an allocation has seen cover it.
Covers(points, allocation) ==
    /\ Stake(allocation) <= points * Scale
    /\ Stake(allocation) <= MaxAllowed(points) * Scale

\* What a request has read and checked, whatever has become of it since.
Sound(r) ==
    r.request # None =>
        /\ r.market \in Markets
        /\ r.at # None
        /\ r.request \in {"close", "resolve"} => r.at = "begun"
        /\ Asked(r.request, r.who, r.allocation)
        /\ Admitted(r.request, r.row)
        /\ r.request = "allocate" /\ r.at = "checked" =>
               \A m \in r.who : Covers(r.points + Stake(r.seen[m]), r.allocation)

\* The part of the state that sessions leave alone.
Fixed == now = 0 /\ late = {} /\ joined = Members /\ closesAt = [k \in Markets |-> 1]

BaseInv ==
    /\ TypeOK
    /\ session \in [Slots -> SessionRecords]
    /\ Recorded
    /\ Budget
    /\ Fixed
    /\ \A s \in Slots : Sound(session[s])

\* No stakes are a book.
LEMMA NoBetsAreABook ==
    /\ 0 \in Entries /\ Stored(0) = 0
    /\ NoStakes \in [Outcomes -> Entries]
    /\ NoStakes \in [Outcomes -> {Stored(e) : e \in Entries}]
    /\ NoBets \in Books
<1>1. 0 \in Entries /\ Stored(0) = 0
  BY SettingsAssumption DEF Stored, HalfUp
<1>2. 0 \in {Stored(e) : e \in Entries}
  BY <1>1
<1>. QED BY <1>1, <1>2 DEF NoStakes, NoBets, Books

\* No session is one.
LEMMA IdleIsTyped ==
    /\ Idle \in SessionRecords /\ Sound(Idle)
    /\ Idle.request = None /\ Idle.live = {}
<1>1. NoRow \in MarketRows
  BY DEF NoRow, MarketRows
<1>2. Idle.request = None /\ Idle.live = {}
  BY DEF Idle
<1>3. Idle \in SessionRecords
  BY <1>1, NoBetsAreABook DEF Idle, SessionRecords
<1>. QED BY <1>2, <1>3 DEF Sound

\* Reading on keeps a session sound, if its check has been passed.
LEMMA SoundOn ==
    ASSUME NEW q, NEW r, Sound(q), r.at # None,
           r.request = q.request, r.market = q.market, r.row = q.row,
           r.who = q.who, r.allocation = q.allocation,
           r.request \in {"close", "resolve"} => r.at = "begun",
           r.request = "allocate" /\ r.at = "checked" =>
               \A m \in r.who : Covers(r.points + Stake(r.seen[m]), r.allocation)
    PROVE  Sound(r)
BY DEF Sound

\* The types of the module and the records here are the same.
LEMMA BaseIsTyped == BaseInv => SessionsTypeOK
<1> SUFFICES ASSUME BaseInv PROVE SessionsTypeOK
  OBVIOUS
<1>1. committed \in 0..MaxCommits
  <2>1. Running \subseteq Slots /\ IsFiniteSet(Slots)
    BY SessionsAssumption DEF Running
  <2>2. Cardinality(Running) \in Nat
    BY <2>1, FS_Subset, FS_CardinalityType
  <2>. QED BY <2>2, SessionsAssumption DEF BaseInv, Budget
<1>. QED BY <1>1 DEF BaseInv, Recorded, SessionsTypeOK, SessionRecords, MarketRows

\* The row that a request reads.
LEMMA RowIsTyped ==
    ASSUME TypeOK, NEW k \in Markets
    PROVE  Row(k) \in MarketRows
BY DEF TypeOK, Row, MarketRows

\* Rows of a book.
LEMMA RowsOfBook ==
    ASSUME NEW who \in SUBSET Members, NEW book
    PROVE  RowsOf(who, book) \in SUBSET (Members \X Outcomes)
BY DEF RowsOf

-----------------------------------------------------------------------------
(* Reading                                                                   *)

\* A step that only reads: one session changes, to r.
Reads(s, r) ==
    /\ session' = [session EXCEPT ![s] = r]
    /\ UNCHANGED <<vars, decisions, committed, history>>

\* What has been read is typed and sound, and the budget covers it.
LEMMA ReadingIsTyped ==
    ASSUME BaseInv, NEW s \in Slots, NEW r \in SessionRecords, Sound(r), Reads(s, r),
           session[s].request = None /\ r.request # None => committed + Cardinality(Running) < MaxCommits
    PROVE  BaseInv'
<1>1. session' \in [Slots -> SessionRecords] /\ \A t \in Slots : Sound(session'[t])
  BY DEF BaseInv, Reads
<1>2. TypeOK' /\ Fixed' /\ Recorded'
  BY DEF BaseInv, Reads, TypeOK, Fixed, Recorded, vars, ledgerVars, marketVars, history
<1>3. IsFiniteSet(Running) /\ Cardinality(Running) \in Nat
  <2>1. Running \subseteq Slots /\ IsFiniteSet(Slots)
    BY SessionsAssumption DEF Running
  <2>. QED BY <2>1, FS_Subset, FS_CardinalityType
<1>4. Running' \subseteq Running \cup {s}
  BY DEF Reads, Running, BaseInv
<1>5. CASE Running' \subseteq Running
  <2>1. Cardinality(Running') <= Cardinality(Running) /\ Cardinality(Running') \in Nat
    BY <1>3, <1>5, FS_Subset, FS_CardinalityType
  <2>2. Budget'
    BY <1>3, <2>1, SessionsAssumption DEF BaseInv, Budget, Reads
  <2>. QED BY <1>1, <1>2, <2>2 DEF BaseInv
<1>6. CASE ~(Running' \subseteq Running)
  <2>1. session[s].request = None /\ r.request # None
    BY <1>6 DEF Reads, Running, BaseInv
  <2>2. Running' = Running \cup {s} /\ s \notin Running
    BY <2>1 DEF Reads, Running, BaseInv
  <2>3. Cardinality(Running') = Cardinality(Running) + 1
    BY <1>3, <2>2, FS_AddElement
  <2>4. Budget'
    BY <1>3, <2>1, <2>3, SessionsAssumption DEF BaseInv, Budget, Reads
  <2>. QED BY <1>1, <1>2, <2>4 DEF BaseInv
<1>. QED BY <1>5, <1>6

\* A request that begins has read the market and passed its check.
LEMMA BeginReads ==
    ASSUME BaseInv, NEW s \in Slots, NEW request \in Requests, NEW k \in Markets,
           NEW who \in SUBSET Members, NEW allocation \in [Outcomes -> Entries],
           Begin(s, request, k, who, allocation),
           Asked(request, who, allocation)
    PROVE  /\ BaseInv'
           /\ \E r \in SessionRecords : Reads(s, r) /\ r.at = "begun" /\ r.live = {}
<1> DEFINE r == [Idle EXCEPT !.request = request, !.at = "begun", !.market = k, !.row = Row(k),
                             !.who = who, !.allocation = allocation]
<1>1. /\ r.request = request /\ r.at = "begun" /\ r.market = k /\ r.row = Row(k) /\ r.who = who
      /\ r.allocation = allocation /\ r.live = {}
  BY DEF Idle
<1>2. r \in SessionRecords
  <2>1. Row(k) \in MarketRows
    BY RowIsTyped DEF BaseInv
  <2>. QED BY <2>1, IdleIsTyped DEF SessionRecords
<1>3. Reads(s, r)
  BY DEF Begin, Reads
<1>4. Sound(r)
  <2>1. Row(k).status = status[k] /\ Row(k).reference = reference[k] /\ Row(k).winner = winner[k]
    BY DEF Row
  <2>2. Admits(request, k)
    BY DEF Begin
  <2>3. Admitted(request, Row(k))
    BY <2>1, <2>2 DEF Admitted, Admits, Accepting, Closable, Decidable, Judgeable, Settleable, Cancellable
  <2> HIDE DEF r
  <2>. QED BY <1>1, <2>3 DEF Sound, None
<1>5. committed + Cardinality(Running) < MaxCommits
  BY DEF Begin, Running
<1> HIDE DEF r
<1>. QED BY <1>1, <1>2, <1>3, <1>4, <1>5, ReadingIsTyped

\* A request reads its rows.
LEMMA LoadReads ==
    ASSUME BaseInv, NEW s \in Slots, Load(s)
    PROVE  /\ BaseInv'
           /\ \E r \in SessionRecords :
                  /\ Reads(s, r)
                  /\ r.request = session[s].request /\ r.request # None
                  /\ r.market = session[s].market /\ r.who = session[s].who
                  /\ r.live = RowsOf(r.who, bets[r.market])
                  /\ \A m \in r.who : r.seen[m] = bets[r.market][m]
<1> DEFINE q == session[s]
           k == q.market
           seen == [m \in Members |-> IF m \in q.who THEN bets[k][m] ELSE NoStakes]
           r == [q EXCEPT !.at = "loaded", !.seen = seen, !.live = RowsOf(q.who, bets[k])]
<1>1. q \in SessionRecords /\ Sound(q) /\ q.request # None /\ k \in Markets /\ q.who \in SUBSET Members
  <2>1. q \in SessionRecords /\ Sound(q)
    BY DEF BaseInv
  <2>2. q.request # None
    BY DEF Load, None
  <2>. QED BY <2>1, <2>2 DEF Sound, SessionRecords
<1>2. seen \in Books /\ RowsOf(q.who, bets[k]) \in SUBSET (Members \X Outcomes)
  BY <1>1, RowsOfBook, NoBetsAreABook DEF BaseInv, TypeOK, Books
<1>3. \A m \in q.who : seen[m] = bets[k][m]
  BY <1>1
<1>4. Reads(s, r)
  BY DEF Load, Reads
<1>5. q.request \notin {"close", "resolve"}
  BY DEF Load
<1> HIDE DEF q, k, seen
<1>6. /\ r.request = q.request /\ r.at = "loaded" /\ r.market = k /\ r.row = q.row
      /\ r.who = q.who /\ r.allocation = q.allocation /\ r.seen = seen
      /\ r.live = RowsOf(q.who, bets[k]) /\ r.points = q.points /\ r.paid = q.paid
      /\ r \in SessionRecords
  BY <1>1, <1>2 DEF SessionRecords, k
<1> HIDE DEF r
<1>7. Sound(r)
  BY <1>1, <1>5, <1>6, SoundOn DEF k, None
<1>8. BaseInv'
  BY <1>1, <1>4, <1>6, <1>7, ReadingIsTyped DEF q
<1>. QED BY <1>1, <1>3, <1>4, <1>6, <1>8 DEF q, k

\* The checks leave what was read as it is.
LEMMA CheckReads ==
    ASSUME BaseInv, NEW s \in Slots, CheckEntries(s) \/ \E m \in Members : CheckPoints(s, m)
    PROVE  /\ BaseInv'
           /\ session[s].at = "loaded"
           /\ \E r \in SessionRecords :
                  /\ Reads(s, r)
                  /\ r.at = "checked"
                  /\ r.request = session[s].request /\ r.request # None
                  /\ r.market = session[s].market /\ r.who = session[s].who
                  /\ r.live = session[s].live /\ r.seen = session[s].seen
<1> DEFINE q == session[s]
<1>1. q \in SessionRecords /\ Sound(q) /\ q.request # None /\ q.market \in Markets
  <2>1. q \in SessionRecords /\ Sound(q)
    BY DEF BaseInv
  <2>2. q.request # None
    BY DEF CheckEntries, CheckPoints, None
  <2>. QED BY <2>1, <2>2 DEF Sound
<1>2. CASE CheckEntries(s)
  <2> DEFINE paid == PaidAlready(q.request, q.market)
             r == [q EXCEPT !.at = "checked", !.paid = paid]
  <2>1. Reads(s, r) /\ q.request \in {"settle", "cancel"} /\ q.at = "loaded"
    BY <1>2 DEF CheckEntries, Reads
  <2>2. paid \in SUBSET Members
    BY DEF PaidAlready
  <2> HIDE DEF q, paid
  <2>3. /\ r.request = q.request /\ r.at = "checked" /\ r.market = q.market /\ r.row = q.row
        /\ r.who = q.who /\ r.allocation = q.allocation /\ r.seen = q.seen
        /\ r.live = q.live /\ r.points = q.points
        /\ r \in SessionRecords
    BY <1>1, <2>2 DEF SessionRecords
  <2> HIDE DEF r
  <2>4. Sound(r)
    BY <1>1, <2>1, <2>3, SoundOn DEF None
  <2>5. BaseInv'
    BY <1>1, <2>1, <2>3, <2>4, ReadingIsTyped DEF q
  <2>. QED BY <1>1, <2>1, <2>3, <2>5 DEF q
<1>3. ASSUME NEW m \in Members, CheckPoints(s, m)
      PROVE  /\ BaseInv'
             /\ session[s].at = "loaded"
             /\ \E r \in SessionRecords :
                    /\ Reads(s, r)
                    /\ r.at = "checked"
                    /\ r.request = session[s].request /\ r.request # None
                    /\ r.market = session[s].market /\ r.who = session[s].who
                    /\ r.live = session[s].live /\ r.seen = session[s].seen
  <2> DEFINE points == balance[m]
             r == [q EXCEPT !.at = "checked", !.points = points]
  <2>1. /\ Reads(s, r) /\ q.request = "allocate" /\ q.at = "loaded" /\ m \in q.who
        /\ Covers(points + Stake(q.seen[m]), q.allocation)
    BY <1>3 DEF CheckPoints, Reads, Points, Covers
  <2>2. points \in Int
    BY DEF BaseInv, TypeOK
  <2> HIDE DEF q, points
  <2>3. /\ r.request = q.request /\ r.at = "checked" /\ r.market = q.market /\ r.row = q.row
        /\ r.who = q.who /\ r.allocation = q.allocation /\ r.seen = q.seen
        /\ r.live = q.live /\ r.points = points
        /\ r \in SessionRecords
    BY <1>1, <2>2 DEF SessionRecords
  <2> HIDE DEF r
  <2>4. q.who = {m}
    BY <1>1, <2>1 DEF Sound, Asked
  <2>5. Sound(r)
    <3>1. \A n \in r.who : Covers(r.points + Stake(r.seen[n]), r.allocation)
      BY <2>1, <2>3, <2>4
    <3>. QED BY <1>1, <2>1, <2>3, <3>1, SoundOn DEF None
  <2>6. BaseInv'
    BY <1>1, <2>1, <2>3, <2>5, ReadingIsTyped DEF q
  <2>. QED BY <1>1, <2>1, <2>3, <2>6 DEF q
<1>. QED BY <1>2, <1>3

-----------------------------------------------------------------------------
(* Committing                                                                *)

\* All but the rows that are left of what it read.
SameBut(r, q) ==
    /\ r.request = q.request /\ r.at = q.at /\ r.market = q.market /\ r.row = q.row
    /\ r.who = q.who /\ r.allocation = q.allocation /\ r.seen = q.seen
    /\ r.points = q.points /\ r.paid = q.paid

\* A commit ends its session. The others may miss the rows it has deleted.
LEMMA EndsOne ==
    ASSUME BaseInv, NEW s \in Slots, NEW deleted, Ends(s, deleted)
    PROVE  /\ session' \in [Slots -> SessionRecords]
           /\ session'[s] = Idle
           /\ \A t \in Slots \ {s} :
                  /\ SameBut(session'[t], session[t])
                  /\ session'[t].live = IF session[t].market = session[s].market
                                        THEN session[t].live \ deleted ELSE session[t].live
<1>1. \A t \in Slots : session[t] \in SessionRecords
  BY DEF BaseInv
<1>2. session' = [t \in Slots |->
               IF t = s THEN Idle
               ELSE IF session[t].market = session[s].market
                    THEN [session[t] EXCEPT !.live = @ \ deleted]
                    ELSE session[t]]
  BY DEF Ends
<1>3. ASSUME NEW q \in SessionRecords
      PROVE  LET r == [q EXCEPT !.live = @ \ deleted]
             IN  r \in SessionRecords /\ SameBut(r, q) /\ r.live = q.live \ deleted
  BY DEF SessionRecords, SameBut
<1>4. session'[s] = Idle
  BY <1>2
<1>5. ASSUME NEW t \in Slots \ {s}
      PROVE  /\ session'[t] \in SessionRecords
             /\ SameBut(session'[t], session[t])
             /\ session'[t].live = IF session[t].market = session[s].market
                                   THEN session[t].live \ deleted ELSE session[t].live
  <2>1. CASE session[t].market = session[s].market
    <3>1. session'[t] = [session[t] EXCEPT !.live = @ \ deleted]
      BY <1>2, <2>1
    <3>. QED BY <1>1, <1>3, <2>1, <3>1
  <2>2. CASE session[t].market # session[s].market
    <3>1. session'[t] = session[t]
      BY <1>2, <2>2
    <3>. QED BY <1>1, <2>2, <3>1 DEF SameBut
  <2>. QED BY <2>1, <2>2
<1>6. session' \in [Slots -> SessionRecords]
  <2>1. \A t \in Slots : session'[t] \in SessionRecords
    BY <1>4, <1>5, IdleIsTyped
  <2>. QED BY <1>2, <2>1
<1>. QED BY <1>4, <1>5, <1>6

\* Sessions, their history and their budget after a commit.
LEMMA EndsTyped ==
    ASSUME BaseInv, NEW s \in Slots, session[s].request # None, NEW deleted, Ends(s, deleted),
           TypeOK', decisions' \in [Markets -> Nat]
    PROVE  BaseInv'
<1>1. /\ session' \in [Slots -> SessionRecords] /\ session'[s] = Idle
      /\ \A t \in Slots \ {s} : SameBut(session'[t], session[t])
  BY EndsOne
<1>2. \A t \in Slots : Sound(session'[t])
  <2> SUFFICES ASSUME NEW t \in Slots \ {s} PROVE Sound(session'[t])
    BY <1>1, IdleIsTyped
  <2>1. Sound(session[t]) /\ SameBut(session'[t], session[t])
    BY <1>1 DEF BaseInv
  <2>. QED BY <2>1 DEF Sound, SameBut
<1>3. session[s].market \in Markets /\ session[s].who \in SUBSET Members
  BY DEF BaseInv, Sound, SessionRecords
<1>4. Recorded'
  BY <1>3 DEF Ends, BaseInv, Recorded
<1>5. Fixed'
  BY DEF Ends, BaseInv, Fixed
<1>6. Budget'
  <2>1. Running' = Running \ {s} /\ s \in Running
    BY <1>1, IdleIsTyped DEF Running, SameBut
  <2>2. IsFiniteSet(Running)
    <3>1. Running \subseteq Slots /\ IsFiniteSet(Slots)
      BY SessionsAssumption DEF Running
    <3>. QED BY <3>1, FS_Subset
  <2>3. Cardinality(Running') = Cardinality(Running) - 1 /\ Cardinality(Running) \in Nat
    BY <2>1, <2>2, FS_RemoveElement, FS_CardinalityType
  <2>4. committed' = committed + 1
    BY DEF Ends
  <2>. QED BY <2>3, <2>4, SessionsAssumption DEF BaseInv, Budget
<1>. QED BY <1>1, <1>2, <1>4, <1>5, <1>6 DEF BaseInv

\* The allocation of a member as its rows will be.
LEMMA RowsLeftAreTyped ==
    ASSUME BaseInv, NEW s \in Slots, NEW m \in Members, session[s].market \in Markets
    PROVE  RowsLeft(s, m) \in [Outcomes -> {Stored(e) : e \in Entries}]
<1>1. session[s].allocation \in [Outcomes -> Entries]
  BY DEF BaseInv, SessionRecords
<1>2. bets[session[s].market] \in Books
  BY DEF BaseInv, TypeOK
<1>3. bets[session[s].market][m] \in [Outcomes -> {Stored(e) : e \in Entries}]
  BY <1>2 DEF Books
<1>4. 0 \in {Stored(e) : e \in Entries}
  BY NoBetsAreABook
<1>. QED BY <1>1, <1>3, <1>4 DEF RowsLeft

\* An entry changes the lock of one member in one market.
LEMMA LockIsTyped ==
    ASSUME NEW locks \in [Markets -> [Members -> Int]], NEW k \in Markets, NEW m \in Members,
           NEW n \in Int
    PROVE  [locks EXCEPT ![k][m] = @ + n] \in [Markets -> [Members -> Int]]
<1> DEFINE new == [locks[k] EXCEPT ![m] = @ + n]
<1>1. new \in [Members -> Int]
  OBVIOUS
<1> HIDE DEF new
<1>2. [locks EXCEPT ![k] = new] \in [Markets -> [Members -> Int]]
  BY <1>1
<1>. QED BY <1>2 DEF new

\* An allocation commits.
LEMMA AllocationTyped ==
    ASSUME BaseInv, NEW s \in Slots, NEW m \in Members, CommitAllocation(s, m)
    PROVE  BaseInv'
<1> DEFINE k == session[s].market
<1>1. session[s].request # None /\ k \in Markets /\ session[s] \in SessionRecords
  BY DEF CommitAllocation, BaseInv, Sound, None
<1>2. Lock(s, m) \in Int
  <2>1. session[s].allocation \in [Outcomes -> Entries] /\ session[s].seen \in Books
    BY <1>1 DEF SessionRecords
  <2>2. Stored(Stake(session[s].allocation)) \in Nat /\ Stake(session[s].seen[m]) \in Nat
    BY <2>1, TotalIsNatural, StakeIsNatural
  <2>. QED BY <2>2 DEF Lock
<1>3. bets' = [bets EXCEPT ![k] = [@ EXCEPT ![m] = RowsLeft(s, m)]]
  BY DEF CommitAllocation
<1>4. bets' \in [Markets -> Books]
  <2>1. RowsLeft(s, m) \in [Outcomes -> {Stored(e) : e \in Entries}]
    BY <1>1, RowsLeftAreTyped
  <2>2. bets \in [Markets -> Books]
    BY DEF BaseInv, TypeOK
  <2> HIDE DEF k
  <2>3. [bets[k] EXCEPT ![m] = RowsLeft(s, m)] \in Books
    BY <1>1, <2>1, <2>2 DEF Books, k
  <2>. QED BY <1>3, <2>2, <2>3
<1>5. /\ locked' = [locked EXCEPT ![k][m] = @ + Lock(s, m)]
      /\ balance' = [balance EXCEPT ![m] = @ - Lock(s, m)]
      /\ UNCHANGED <<payout, refund, status, reference, winner, decision, decisions>>
      /\ UNCHANGED <<now, joined, closesAt, resolveAt, late>>
  BY DEF CommitAllocation, Ends
<1>6. locked' \in [Markets -> [Members -> Int]] /\ balance' \in [Members -> Int]
  <2>1. locked \in [Markets -> [Members -> Int]] /\ balance \in [Members -> Int]
    BY DEF BaseInv, TypeOK
  <2>2. locked' \in [Markets -> [Members -> Int]]
    BY <1>1, <1>2, <1>5, <2>1, LockIsTyped
  <2>3. balance' \in [Members -> Int]
    BY <1>2, <1>5, <2>1
  <2>. QED BY <2>2, <2>3
<1>7. TypeOK' /\ decisions' \in [Markets -> Nat]
  BY <1>4, <1>5, <1>6 DEF BaseInv, TypeOK, Recorded
<1>. QED BY <1>1, <1>7, EndsTyped DEF CommitAllocation

\* What a cancellation hands out.
Refunds(s) ==
    [m \in Members |-> IF m \in session[s].paid THEN 0 ELSE Stake(session[s].seen[m])]

\* What is handed out are whole amounts.
LEMMA DueIsNatural ==
    ASSUME BaseInv, NEW s \in Slots
    PROVE  /\ session[s].row.winner \in Outcomes => Winnings(s) \in [Members -> Nat]
           /\ Refunds(s) \in [Members -> Nat]
<1>1. session[s].seen \in Books
  BY DEF BaseInv, SessionRecords
<1>2. Refunds(s) \in [Members -> Nat]
  BY <1>1, StakeIsNatural DEF Refunds
<1>3. ASSUME session[s].row.winner \in Outcomes PROVE Winnings(s) \in [Members -> Nat]
  <2>1. SettleParimutuel(session[s].seen, session[s].row.winner) \in [Members -> Nat]
    BY <1>1, <1>3, AlgorithmsAssumption
  <2>. QED BY <2>1 DEF Winnings
<1>. QED BY <1>2, <1>3

\* Entries of what is due.
LEMMA EntriesAreTyped ==
    ASSUME NEW entries \in [Markets -> [Members -> Nat]], NEW due \in [Members -> Nat],
           NEW k \in Markets
    PROVE  [entries EXCEPT ![k] = [m \in Members |-> @[m] + due[m]]] \in [Markets -> [Members -> Nat]]
OBVIOUS

\* A request that settles or cancels commits.
LEMMA PaymentTyped ==
    ASSUME BaseInv, NEW s \in Slots, CommitSettlement(s) \/ CommitCancellation(s)
    PROVE  BaseInv'
<1> DEFINE k == session[s].market
<1>1. session[s].request # None /\ k \in Markets /\ session[s] \in SessionRecords
  BY DEF CommitSettlement, CommitCancellation, BaseInv, Sound, None
<1>2. /\ UNCHANGED <<locked, reference, winner, bets, decision, decisions>>
      /\ UNCHANGED <<now, joined, closesAt, resolveAt, late>>
  BY DEF CommitSettlement, CommitCancellation, Ends
<1>3. CASE CommitSettlement(s)
  <2> DEFINE due == Winnings(s)
  <2>1. session[s].row.winner \in Outcomes
    BY <1>1, <1>3 DEF CommitSettlement, BaseInv, Sound, Admitted, SessionRecords, MarketRows, None
  <2>2. due \in [Members -> Nat]
    BY <2>1, DueIsNatural
  <2>3. /\ payout' = [payout EXCEPT ![k] = [m \in Members |-> @[m] + due[m]]]
        /\ balance' = [m \in Members |-> balance[m] + due[m]]
        /\ status' = [status EXCEPT ![k] = "SETTLED"] /\ refund' = refund
    BY <1>3 DEF CommitSettlement
  <2> HIDE DEF due, k
  <2>4. payout' \in [Markets -> [Members -> Nat]]
    BY <1>1, <2>2, <2>3, EntriesAreTyped DEF BaseInv, TypeOK, k
  <2>5. balance' \in [Members -> Int]
    BY <2>2, <2>3 DEF BaseInv, TypeOK
  <2>6. TypeOK' /\ decisions' \in [Markets -> Nat]
    BY <1>2, <2>3, <2>4, <2>5 DEF BaseInv, TypeOK, Recorded, MarketStatuses
  <2>. QED BY <1>1, <1>3, <2>6, EndsTyped DEF CommitSettlement
<1>4. CASE CommitCancellation(s)
  <2> DEFINE due == Refunds(s)
  <2>2. due \in [Members -> Nat]
    BY DueIsNatural
  <2>3. /\ refund' = [refund EXCEPT ![k] = [m \in Members |-> @[m] + due[m]]]
        /\ balance' = [m \in Members |-> balance[m] + due[m]]
        /\ status' = [status EXCEPT ![k] = "CANCELLED"] /\ payout' = payout
    BY <1>4 DEF CommitCancellation, Refunds
  <2> HIDE DEF due, k
  <2>4. refund' \in [Markets -> [Members -> Nat]]
    BY <1>1, <2>2, <2>3, EntriesAreTyped DEF BaseInv, TypeOK, k
  <2>5. balance' \in [Members -> Int]
    BY <2>2, <2>3 DEF BaseInv, TypeOK
  <2>6. TypeOK' /\ decisions' \in [Markets -> Nat]
    BY <1>2, <2>3, <2>4, <2>5 DEF BaseInv, TypeOK, Recorded, MarketStatuses
  <2>. QED BY <1>1, <1>4, <2>6, EndsTyped DEF CommitCancellation
<1>. QED BY <1>3, <1>4

\* A request that closes, decides or judges commits.
LEMMA VerdictTyped ==
    ASSUME BaseInv, NEW s \in Slots, NEW price \in Prices,
           \/ CommitClose(s, price) \/ CommitResolve(s, price)
           \/ \E held \in Holdings : CommitDecision(s, price, held)
    PROVE  BaseInv'
<1> DEFINE k == session[s].market
<1>1. session[s].request # None /\ k \in Markets /\ session[s] \in SessionRecords
  <2>1. session[s].request # None
    BY DEF CommitClose, CommitDecision, CommitResolve, None
  <2>. QED BY <2>1 DEF BaseInv, Sound
<1>2. CASE CommitClose(s, price)
  <2>1. TypeOK' /\ decisions' \in [Markets -> Nat]
    BY <1>1, <1>2 DEF CommitClose, Ends, BaseInv, TypeOK, Recorded, MarketStatuses, ledgerVars
  <2>. QED BY <1>1, <1>2, <2>1, EndsTyped DEF CommitClose
<1>3. ASSUME NEW held \in Holdings, CommitDecision(s, price, held)
      PROVE  BaseInv'
  <2> DEFINE new == DecisionFor(ComputeConsensus(session[s].seen), price, held)
  <2>1. new \in Decisions
    BY <1>1, DecisionIsTyped DEF BaseInv, SessionRecords
  <2>2. /\ decision' = [decision EXCEPT ![k] = new] /\ decisions' = [decisions EXCEPT ![k] = @ + 1]
        /\ status' = [status EXCEPT ![k] = "DECIDED"]
        /\ UNCHANGED <<ledgerVars, reference, winner, bets>>
        /\ UNCHANGED <<now, joined, closesAt, resolveAt, late>>
    BY <1>3 DEF CommitDecision, Ends
  <2> HIDE DEF new
  <2>3. TypeOK' /\ decisions' \in [Markets -> Nat]
    BY <1>1, <2>1, <2>2 DEF BaseInv, TypeOK, Recorded, MarketStatuses, ledgerVars
  <2>. QED BY <1>1, <1>3, <2>3, EndsTyped DEF CommitDecision
<1>4. CASE CommitResolve(s, price)
  <2> DEFINE w == ResolveOutcome(session[s].row.reference, price)
  <2>1. w \in Outcomes
    <3>1. session[s].row.reference \in Prices
      BY <1>1, <1>4 DEF CommitResolve, BaseInv, Sound, Admitted, SessionRecords, MarketRows, None
    <3>. QED BY <3>1, AlgorithmsAssumption
  <2>2. /\ winner' = [winner EXCEPT ![k] = w] /\ status' = [status EXCEPT ![k] = "RESOLVED"]
        /\ UNCHANGED <<ledgerVars, reference, bets, decision, decisions>>
        /\ UNCHANGED <<now, joined, closesAt, resolveAt, late>>
    BY <1>4 DEF CommitResolve, Ends
  <2> HIDE DEF w
  <2>3. TypeOK' /\ decisions' \in [Markets -> Nat]
    BY <1>1, <2>1, <2>2 DEF BaseInv, TypeOK, Recorded, MarketStatuses, ledgerVars
  <2>. QED BY <1>1, <1>4, <2>3, EndsTyped DEF CommitResolve
<1>. QED BY <1>2, <1>3, <1>4

\* A request that raises leaves nothing.
LEMMA AbandonReads ==
    ASSUME BaseInv, NEW s \in Slots, Abandon(s)
    PROVE  BaseInv' /\ Reads(s, Idle)
<1>1. Reads(s, Idle)
  BY DEF Abandon, Reads
<1>. QED BY <1>1, IdleIsTyped, ReadingIsTyped

\* A request that arrives is of a kind, for a market, with the bets it will read.
LEMMA ArrivalReads ==
    ASSUME BaseInv, MemberArrives \/ AdministratorArrives
    PROVE  /\ BaseInv'
           /\ \E s \in Slots, r \in SessionRecords : Reads(s, r) /\ r.at = "begun" /\ r.live = {}
<1>1. ASSUME NEW s \in Slots, NEW k \in Markets, NEW m \in Members, NEW allocation \in Allocations,
             BeginAllocation(s, k, m, allocation)
      PROVE  /\ BaseInv'
             /\ \E r \in SessionRecords : Reads(s, r) /\ r.at = "begun" /\ r.live = {}
  <2>1. /\ Begin(s, "allocate", k, {m}, allocation) /\ allocation \in [Outcomes -> Entries]
        /\ {m} \in SUBSET Members /\ "allocate" \in Requests
    BY <1>1, SessionsAssumption DEF BeginAllocation, Requests
  <2>2. Asked("allocate", {m}, allocation)
    BY <1>1 DEF BeginAllocation, Asked
  <2>. QED BY <2>1, <2>2, BeginReads
<1>2. ASSUME NEW s \in Slots, NEW k \in Managed, NEW request \in {"close", "resolve"},
             Begin(s, request, k, {}, NoStakes)
      PROVE  /\ BaseInv'
             /\ \E r \in SessionRecords : Reads(s, r) /\ r.at = "begun" /\ r.live = {}
  <2>1. k \in Markets /\ request \in Requests /\ {} \in SUBSET Members
    BY SessionsAssumption DEF Requests
  <2>2. Asked(request, {}, NoStakes)
    BY DEF Asked
  <2>. QED BY <1>2, <2>1, <2>2, NoBetsAreABook, BeginReads
<1>3. ASSUME NEW s \in Slots, NEW k \in Managed, NEW request \in {"decide", "settle", "cancel"},
             Begin(s, request, k, Members, NoStakes)
      PROVE  /\ BaseInv'
             /\ \E r \in SessionRecords : Reads(s, r) /\ r.at = "begun" /\ r.live = {}
  <2>1. k \in Markets /\ request \in Requests /\ Members \in SUBSET Members
    BY SessionsAssumption DEF Requests
  <2>2. Asked(request, Members, NoStakes)
    BY DEF Asked
  <2>. QED BY <1>3, <2>1, <2>2, NoBetsAreABook, BeginReads
<1>. QED BY <1>1, <1>2, <1>3 DEF MemberArrives, AdministratorArrives

\* At the start.
LEMMA BaseInit == SessionsInit => BaseInv
<1> SUFFICES ASSUME SessionsInit PROVE BaseInv
  OBVIOUS
<1>1. TypeOK
  <2>1. 0 \in 0..Horizon /\ 1 \in 0..Horizon /\ 2 \in 0..Horizon
    BY SettingsAssumption, SessionsAssumption
  <2>2. NoDecision \in Decisions
    BY DEF NoDecision, Decisions
  <2>3. bets \in [Markets -> Books]
    BY NoBetsAreABook DEF SessionsInit
  <2>. QED BY <2>1, <2>2, <2>3, SettingsAssumption
       DEF SessionsInit, TypeOK, NoPoints, MarketStatuses
<1>2. session \in [Slots -> SessionRecords] /\ \A s \in Slots : Sound(session[s])
  BY IdleIsTyped DEF SessionsInit
<1>3. Recorded
  BY DEF SessionsInit, Recorded
<1>4. Fixed
  BY DEF SessionsInit, Fixed
<1>5. Budget
  <2>1. Running = {} /\ committed = 0
    BY IdleIsTyped DEF SessionsInit, Running
  <2>. QED BY <2>1, FS_EmptySet, SessionsAssumption DEF Budget
<1>. QED BY <1>1, <1>2, <1>3, <1>4, <1>5 DEF BaseInv

\* Every step keeps it.
LEMMA BaseStep == BaseInv /\ [SessionsNext]_allVars => BaseInv'
<1> SUFFICES ASSUME BaseInv, [SessionsNext]_allVars PROVE BaseInv'
  OBVIOUS
<1>1. CASE UNCHANGED allVars
  BY <1>1 DEF BaseInv, TypeOK, Recorded, Budget, Running, Fixed, allVars, sessionVars, history, vars,
     ledgerVars, marketVars
<1>2. CASE Write
  BY <1>2, AllocationTyped, PaymentTyped, VerdictTyped DEF Write
<1>3. CASE Read
  BY <1>3, LoadReads, CheckReads DEF Read
<1>. QED BY <1>1, <1>2, <1>3, ArrivalReads, AbandonReads DEF SessionsNext

\* Overlapping sessions read and write what the columns and their code allow,
\* and no more of them commit than the bound.
THEOREM SessionsTypeCorrect == SessionsSpec => []SessionsTypeOK
<1>. QED BY BaseInit, BaseStep, BaseIsTyped, PTL DEF SessionsSpec

-----------------------------------------------------------------------------
(* What sessions know of the rows they read                                  *)

\* A row of the member is there that the session has not read.
Replaced(r, m) == \E o \in Outcomes : bets[r.market][m][o] > 0 /\ <<m, o>> \notin r.live

\* Rows that are left of those read are as they were read. Of a member's rows
\* either all are as they were read, or there is one that was not.
Linked(r) ==
    r.request # None /\ r.at # "begun" =>
        /\ r.live \subseteq RowsOf(r.who, bets[r.market])
        /\ \A m \in r.who : r.seen[m] = bets[r.market][m] \/ Replaced(r, m)

LinkInv == \A s \in Slots : Linked(session[s])

\* A pair is a row of a book.
LEMMA InRows ==
    ASSUME NEW who, NEW book, NEW m, NEW o
    PROVE  <<m, o>> \in RowsOf(who, book) <=> m \in who /\ o \in Outcomes /\ book[m][o] > 0
BY DEF RowsOf

\* While its rows are all there and no others, a session has read what is there.
LEMMA CurrentRows ==
    ASSUME BaseInv, LinkInv, NEW s \in Slots, session[s].request # None, session[s].at # "begun",
           RowsCurrent(s)
    PROVE  \A m \in session[s].who : session[s].seen[m] = bets[session[s].market][m]
<1> DEFINE r == session[s]
<1> SUFFICES ASSUME NEW m \in r.who, Replaced(r, m) PROVE FALSE
  BY DEF LinkInv, Linked
<1>1. PICK o \in Outcomes : bets[r.market][m][o] > 0 /\ <<m, o>> \notin r.live
  BY DEF Replaced
<1>2. <<m, o>> \in RowsOf(r.who, bets[r.market])
  BY <1>1, InRows
<1>. QED BY <1>1, <1>2 DEF RowsCurrent

\* Steps that write no bets and delete no rows.
LEMMA LinkKept ==
    ASSUME LinkInv, bets' = bets,
           \A s \in Slots :
               \/ session'[s].request = None \/ session'[s].at = "begun"
               \/ /\ session'[s].request = session[s].request
                  /\ session[s].at # "begun"
                  /\ session'[s].market = session[s].market
                  /\ session'[s].who = session[s].who
                  /\ session'[s].seen = session[s].seen
                  /\ session'[s].live = session[s].live
    PROVE  LinkInv'
<1> SUFFICES ASSUME NEW s \in Slots, session'[s].request # None, session'[s].at # "begun"
             PROVE  /\ session'[s].live \subseteq RowsOf(session'[s].who, bets[session'[s].market])
                    /\ \A m \in session'[s].who :
                           \/ session'[s].seen[m] = bets[session'[s].market][m]
                           \/ \E o \in Outcomes : /\ bets[session'[s].market][m][o] > 0
                                                  /\ <<m, o>> \notin session'[s].live
  BY DEF LinkInv, Linked, Replaced
<1>. QED BY DEF LinkInv, Linked, Replaced

\* A stake that the minimum allows is a row.
LEMMA StakeIsARow ==
    ASSUME NEW amount \in Nat, amount >= MinStake * Scale
    PROVE  Stored(amount) > 0
<1> DEFINE n == 2 * amount + Scale
           d == 2 * Scale
<1>1. Scale \in Nat /\ Scale > 0 /\ MinStake \in Nat /\ MinStake > 0
  BY SettingsAssumption
<1>2. MinStake * Scale >= Scale
  BY <1>1
<1>3. n \in Nat /\ d \in Nat /\ d > 0 /\ n >= d
  BY <1>1, <1>2
<1>4. Stored(amount) = n \div d
  BY DEF Stored, HalfUp
<1> HIDE DEF n, d
<1>. QED BY <1>3, <1>4

\* What is known of an allocation that commits, and what it writes.
LEMMA AllocationCommits ==
    ASSUME BaseInv, LinkInv, NEW s \in Slots, NEW m \in Members, CommitAllocation(s, m)
    PROVE  LET r == session[s]
           IN  /\ r.request = "allocate" /\ r.at = "checked" /\ r.market \in Markets /\ r.who = {m}
               /\ r.allocation \in [Outcomes -> Entries] /\ r.seen \in Books
               /\ Stake(r.allocation) > 0
               /\ \A o \in Outcomes : r.allocation[o] > 0 => r.allocation[o] >= MinStake * Scale
               /\ Covers(r.points + Stake(r.seen[m]), r.allocation)
               /\ r.row.status = "OPEN"
               /\ r.live \subseteq RowsOf({m}, bets[r.market])
               /\ bets'[r.market][m] = RowsLeft(s, m)
               /\ \A n \in Members \ {m} : bets'[r.market][n] = bets[r.market][n]
               /\ \A j \in Markets \ {r.market} : bets'[j] = bets[j]
               /\ locked'[r.market][m] = locked[r.market][m] + Lock(s, m)
               /\ \A j \in Markets, n \in Members :
                      j # r.market \/ n # m => locked'[j][n] = locked[j][n]
               /\ balance'[m] = balance[m] - Lock(s, m)
               /\ \A n \in Members \ {m} : balance'[n] = balance[n]
               /\ Lock(s, m) \in Int
               /\ UNCHANGED <<payout, refund, status, reference, winner, decision, decisions, late, joined>>
<1> DEFINE r == session[s]
<1>1. r \in SessionRecords /\ Sound(r) /\ Linked(r)
  BY DEF BaseInv, LinkInv
<1>2. r.request = "allocate" /\ r.at = "checked" /\ m \in r.who
  BY DEF CommitAllocation
<1>3. /\ r.market \in Markets /\ r.row.status = "OPEN"
      /\ Asked("allocate", r.who, r.allocation)
      /\ Covers(r.points + Stake(r.seen[m]), r.allocation)
  BY <1>1, <1>2 DEF Sound, Admitted, None
<1>4. /\ r.who = {m} /\ Stake(r.allocation) > 0
      /\ \A o \in Outcomes : r.allocation[o] > 0 => r.allocation[o] >= MinStake * Scale
  BY <1>2, <1>3 DEF Asked
<1>5. r.allocation \in [Outcomes -> Entries] /\ r.seen \in Books
  BY <1>1 DEF SessionRecords
<1>6. r.live \subseteq RowsOf({m}, bets[r.market])
  BY <1>1, <1>2, <1>4 DEF Linked, None
<1>7. /\ bets' = [bets EXCEPT ![r.market] = [@ EXCEPT ![m] = RowsLeft(s, m)]]
      /\ locked' = [locked EXCEPT ![r.market][m] = @ + Lock(s, m)]
      /\ balance' = [balance EXCEPT ![m] = @ - Lock(s, m)]
      /\ UNCHANGED <<payout, refund, status, reference, winner, decision, decisions, late, joined>>
  BY DEF CommitAllocation, Ends
<1>8. /\ bets \in [Markets -> Books] /\ locked \in [Markets -> [Members -> Int]]
      /\ balance \in [Members -> Int]
  BY DEF BaseInv, TypeOK
<1>9. Lock(s, m) \in Int
  <2>1. Stored(Stake(r.allocation)) \in Nat /\ Stake(r.seen[m]) \in Nat
    BY <1>5, TotalIsNatural, StakeIsNatural
  <2>. QED BY <2>1 DEF Lock
<1> HIDE DEF r
<1>10. /\ bets'[r.market][m] = RowsLeft(s, m)
       /\ \A n \in Members \ {m} : bets'[r.market][n] = bets[r.market][n]
       /\ \A j \in Markets \ {r.market} : bets'[j] = bets[j]
  BY <1>3, <1>7, <1>8 DEF Books
<1>11. /\ locked'[r.market][m] = locked[r.market][m] + Lock(s, m)
       /\ \A j \in Markets, n \in Members :
              j # r.market \/ n # m => locked'[j][n] = locked[j][n]
  BY <1>3, <1>7, <1>8
<1>12. /\ balance'[m] = balance[m] - Lock(s, m)
       /\ \A n \in Members \ {m} : balance'[n] = balance[n]
  BY <1>7, <1>8
<1>. QED BY <1>2, <1>3, <1>4, <1>5, <1>6, <1>7, <1>9, <1>10, <1>11, <1>12 DEF r

\* An allocation replaces rows of its member: what another session has read of
\* them it deletes, or it meets them and fails.
LEMMA LinkAllocation ==
    ASSUME BaseInv, LinkInv, NEW s \in Slots, NEW m \in Members, CommitAllocation(s, m)
    PROVE  LinkInv'
<1> DEFINE r == session[s]
           k == r.market
<1>1. /\ k \in Markets /\ r.who = {m} /\ r.allocation \in [Outcomes -> Entries]
      /\ Stake(r.allocation) > 0
      /\ \A o \in Outcomes : r.allocation[o] > 0 => r.allocation[o] >= MinStake * Scale
      /\ bets'[k][m] = RowsLeft(s, m)
      /\ \A n \in Members \ {m} : bets'[k][n] = bets[k][n]
      /\ \A j \in Markets \ {k} : bets'[j] = bets[j]
  BY AllocationCommits
<1>2. /\ session'[s] = Idle
      /\ \A t \in Slots \ {s} :
             /\ SameBut(session'[t], session[t])
             /\ session'[t].live = IF session[t].market = k THEN session[t].live \ r.live ELSE session[t].live
  BY EndsOne DEF CommitAllocation
<1>3. \A o \in Outcomes : r.allocation[o] \in Nat
  BY <1>1, SettingsAssumption
<1>4. PICK x \in Outcomes : r.allocation[x] > 0
  BY <1>1, <1>3 DEF Stake, Outcomes
<1>5. \A o \in Outcomes : r.allocation[o] > 0 /\ bets[k][m][o] > 0 => <<m, o>> \in r.live
  BY DEF CommitAllocation, Conflicts
<1>6. bets'[k][m][x] > 0
  <2>1. Stored(r.allocation[x]) > 0
    BY <1>1, <1>3, <1>4, StakeIsARow
  <2>. QED BY <1>1, <1>4, <2>1 DEF RowsLeft
<1>7. \A o \in Outcomes : bets[k][m][o] > 0 /\ <<m, o>> \notin r.live => bets'[k][m][o] > 0
  BY <1>1, <1>5 DEF RowsLeft
<1> SUFFICES ASSUME NEW t \in Slots \ {s}, session'[t].request # None, session'[t].at # "begun"
             PROVE  /\ session'[t].live \subseteq RowsOf(session'[t].who, bets'[session'[t].market])
                    /\ \A n \in session'[t].who :
                           \/ session'[t].seen[n] = bets'[session'[t].market][n]
                           \/ \E o \in Outcomes : /\ bets'[session'[t].market][n][o] > 0
                                                  /\ <<n, o>> \notin session'[t].live
  BY <1>2, IdleIsTyped DEF LinkInv, Linked, Replaced
<1> DEFINE q == session[t]
           live == session'[t].live
<1>8. /\ session'[t].market = q.market /\ session'[t].who = q.who /\ session'[t].seen = q.seen
      /\ q.request # None /\ q.at # "begun"
      /\ live = IF q.market = k THEN q.live \ r.live ELSE q.live
  BY <1>2 DEF SameBut
<1>9. /\ q.live \subseteq RowsOf(q.who, bets[q.market])
      /\ \A n \in q.who : q.seen[n] = bets[q.market][n]
                          \/ \E o \in Outcomes : bets[q.market][n][o] > 0 /\ <<n, o>> \notin q.live
      /\ q.market \in Markets /\ q.who \subseteq Members
  BY <1>8 DEF LinkInv, Linked, Replaced, BaseInv, Sound, SessionRecords
<1> HIDE DEF q, live, r, k
<1>10. CASE q.market # k
  <2>1. bets'[q.market] = bets[q.market] /\ live = q.live
    BY <1>1, <1>8, <1>9, <1>10
  <2>. QED BY <1>8, <1>9, <2>1 DEF live
<1>11. CASE q.market = k
  <2>1. live \subseteq RowsOf(q.who, bets'[k])
    <3> SUFFICES ASSUME NEW p \in live PROVE p \in RowsOf(q.who, bets'[k])
      OBVIOUS
    <3>1. p \in RowsOf(q.who, bets[k]) /\ p \notin r.live
      BY <1>8, <1>9, <1>11
    <3>2. PICK n \in q.who, o \in Outcomes : p = <<n, o>>
      BY <3>1 DEF RowsOf
    <3>3. bets[k][n][o] > 0
      BY <3>1, <3>2, InRows
    <3>4. bets'[k][n][o] > 0
      BY <1>1, <1>7, <1>9, <3>1, <3>2, <3>3
    <3>. QED BY <3>2, <3>4, InRows
  <2>2. ASSUME NEW n \in q.who
        PROVE  q.seen[n] = bets'[k][n] \/ \E o \in Outcomes : bets'[k][n][o] > 0 /\ <<n, o>> \notin live
    <3>1. CASE n = m
      <4>1. <<m, x>> \notin live
        <5> SUFFICES ASSUME <<m, x>> \in live PROVE FALSE
          OBVIOUS
        <5>1. <<m, x>> \in q.live /\ <<m, x>> \notin r.live
          BY <1>8, <1>11
        <5>2. bets[k][m][x] > 0
          BY <1>9, <1>11, <5>1, InRows
        <5>. QED BY <1>4, <1>5, <5>1, <5>2
      <4>. QED BY <1>6, <3>1, <4>1
    <3>2. CASE n # m
      <4>1. bets'[k][n] = bets[k][n]
        BY <1>1, <1>9, <3>2
      <4>. QED BY <1>8, <1>9, <1>11, <4>1
    <3>. QED BY <3>1, <3>2
  <2>. QED BY <1>8, <1>11, <2>1, <2>2 DEF live
<1>. QED BY <1>10, <1>11

\* Every step keeps what sessions know.
LEMMA LinkStep == BaseInv /\ LinkInv /\ [SessionsNext]_allVars => LinkInv'
<1> SUFFICES ASSUME BaseInv, LinkInv, [SessionsNext]_allVars PROVE LinkInv'
  OBVIOUS
<1>0. session \in [Slots -> SessionRecords]
  BY DEF BaseInv
<1>1. CASE UNCHANGED allVars
  BY <1>1, LinkKept DEF allVars, vars, sessionVars
<1>2. ASSUME NEW s \in Slots, NEW r, Reads(s, r), r.request = None \/ r.at = "begun"
      PROVE  LinkInv'
  BY <1>0, <1>2, LinkKept DEF Reads, vars
<1>3. ASSUME NEW s \in Slots, Load(s)
      PROVE  LinkInv'
  <2>1. PICK r : /\ Reads(s, r)
                 /\ r.live = RowsOf(r.who, bets[r.market])
                 /\ \A m \in r.who : r.seen[m] = bets[r.market][m]
    BY <1>3, LoadReads
  <2>2. bets' = bets /\ session'[s] = r /\ \A t \in Slots \ {s} : session'[t] = session[t]
    BY <1>0, <2>1 DEF Reads, vars
  <2>3. Linked(r)'
    BY <2>1, <2>2 DEF Linked
  <2>4. \A t \in Slots \ {s} : Linked(session[t])'
    BY <2>2 DEF LinkInv, Linked, Replaced
  <2>. QED BY <2>2, <2>3, <2>4 DEF LinkInv, Linked, Replaced
<1>4. ASSUME NEW s \in Slots, CheckEntries(s) \/ \E m \in Members : CheckPoints(s, m)
      PROVE  LinkInv'
  <2>1. PICK r : /\ Reads(s, r) /\ session[s].at = "loaded"
                 /\ r.request = session[s].request /\ r.market = session[s].market
                 /\ r.who = session[s].who /\ r.live = session[s].live /\ r.seen = session[s].seen
    BY <1>4, CheckReads
  <2>2. bets' = bets /\ session'[s] = r /\ \A t \in Slots \ {s} : session'[t] = session[t]
    BY <1>0, <2>1 DEF Reads, vars
  <2>. QED BY <2>1, <2>2, LinkKept
<1>5. ASSUME NEW s \in Slots, Ends(s, {}), bets' = bets
      PROVE  LinkInv'
  <2>1. /\ session'[s] = Idle
        /\ \A t \in Slots \ {s} : SameBut(session'[t], session[t]) /\ session'[t].live = session[t].live
    <3>1. \A S : S \ {} = S
      OBVIOUS
    <3>2. /\ session'[s] = Idle
          /\ \A t \in Slots \ {s} :
                 /\ SameBut(session'[t], session[t])
                 /\ session'[t].live = IF session[t].market = session[s].market
                                       THEN session[t].live \ {} ELSE session[t].live
      BY <1>5, EndsOne
    <3>. QED BY <3>1, <3>2
  <2>2. session'[s].request = None
    BY <2>1, IdleIsTyped
  <2>. QED BY <1>5, <2>1, <2>2, LinkKept DEF SameBut
<1>6. CASE Write
  BY <1>5, <1>6, LinkAllocation
  DEF Write, CommitClose, CommitDecision, CommitResolve, CommitSettlement, CommitCancellation
<1>7. ASSUME MemberArrives \/ AdministratorArrives PROVE LinkInv'
  BY <1>2, <1>7, ArrivalReads
<1>8. ASSUME NEW s \in Slots, Abandon(s) PROVE LinkInv'
  BY <1>2, <1>8, AbandonReads, IdleIsTyped
<1>. QED BY <1>1, <1>3, <1>4, <1>6, <1>7, <1>8 DEF SessionsNext, Read

\* At the start.
LEMMA LinkInit == SessionsInit => LinkInv
BY IdleIsTyped DEF SessionsInit, LinkInv, Linked

-----------------------------------------------------------------------------
(* Commits whose reads still hold                                            *)

\* A market without a row of trade_decisions has no decision.
Undecided == \A k \in Markets : decisions[k] = 0 => decision[k].status = None

\* The share of the points that one market may take grows with them.
LEMMA MaxAllowedIsMonotone ==
    ASSUME NEW a \in Int, NEW b \in Int, a <= b
    PROVE  MaxAllowed(a) <= MaxAllowed(b) /\ MaxAllowed(a) \in Int
<1>1. StakeNum \in Nat /\ StakeDen \in Nat /\ StakeDen > 0
  BY SettingsAssumption
<1>2. a * StakeNum \in Int /\ b * StakeNum \in Int /\ a * StakeNum <= b * StakeNum
  BY <1>1
<1>3. HalfEven(a * StakeNum, StakeDen) \in Int
  BY <1>1, <1>2 DEF HalfEven
<1>. QED BY <1>1, <1>2, <1>3, HalfEvenIsMonotone DEF MaxAllowed

\* Points at hand that cover an allocation cover it when there are more.
LEMMA CoversMore ==
    ASSUME NEW a \in Int, NEW b \in Int, a <= b, NEW allocation,
           Stake(allocation) \in Int, Covers(a, allocation)
    PROVE  Covers(b, allocation)
<1>1. Scale \in Nat
  BY SettingsAssumption
<1>2. MaxAllowed(a) \in Int /\ MaxAllowed(b) \in Int /\ MaxAllowed(a) <= MaxAllowed(b)
  BY MaxAllowedIsMonotone
<1>3. a * Scale <= b * Scale /\ MaxAllowed(a) * Scale <= MaxAllowed(b) * Scale
      /\ a * Scale \in Int /\ b * Scale \in Int /\ MaxAllowed(a) * Scale \in Int /\ MaxAllowed(b) * Scale \in Int
  BY <1>1, <1>2
<1>. QED BY <1>3 DEF Covers

\* Requests write when they commit, and only then.
LEMMA OnlyCommitsWrite ==
    ASSUME [SessionsNext]_allVars
    PROVE  Write \/ UNCHANGED <<vars, decisions, committed, history>>
BY DEF SessionsNext, allVars, sessionVars, Read, Load, CheckPoints, CheckEntries, Abandon,
   MemberArrives, AdministratorArrives, BeginAllocation, Begin

\* The decision of a market comes with its row.
LEMMA UndecidedStep == BaseInv /\ Undecided /\ [SessionsNext]_allVars => Undecided'
<1> SUFFICES ASSUME BaseInv, Undecided, [SessionsNext]_allVars PROVE Undecided'
  OBVIOUS
<1>1. ASSUME UNCHANGED <<decision, decisions>> PROVE Undecided'
  BY <1>1 DEF Undecided
<1>2. ASSUME NEW s \in Slots, NEW price \in Prices, NEW held \in Holdings, CommitDecision(s, price, held)
      PROVE  Undecided'
  <2> DEFINE k == session[s].market
             new == DecisionFor(ComputeConsensus(session[s].seen), price, held)
  <2>1. decision' = [decision EXCEPT ![k] = new] /\ decisions' = [decisions EXCEPT ![k] = @ + 1]
    BY <1>2 DEF CommitDecision
  <2> HIDE DEF k, new
  <2>. QED BY <2>1 DEF Undecided, BaseInv, Recorded, TypeOK
<1>3. CASE Write
  BY <1>1, <1>2, <1>3
  DEF Write, CommitAllocation, CommitClose, CommitResolve, CommitSettlement, CommitCancellation
<1>4. CASE UNCHANGED <<vars, decisions, committed, history>>
  BY <1>1, <1>4 DEF vars
<1>. QED BY <1>3, <1>4, OnlyCommitsWrite

\* Cells of a book and of a request.
LEMMA CellsAreNatural ==
    ASSUME NEW o \in Outcomes
    PROVE  /\ \A book \in Books, m \in Members : book[m][o] \in Nat
           /\ \A allocation \in [Outcomes -> Entries] : allocation[o] \in Nat
<1>1. Entries \subseteq Nat
  BY SettingsAssumption
<1>2. \A e \in Entries : Stored(e) \in Nat
  BY <1>1, StoredIsNatural
<1>3. {Stored(e) : e \in Entries} \subseteq Nat
  BY <1>2
<1>. QED BY <1>1, <1>3 DEF Books

\* An allocation whose rows are still there, and no others, leaves its own.
LEMMA FreshRows ==
    ASSUME BaseInv, LinkInv, NEW s \in Slots, NEW m \in Members, CommitAllocation(s, m), RowsCurrent(s)
    PROVE  RowsLeft(s, m) = Rows(session[s].market, m, session[s].allocation)
<1> DEFINE r == session[s]
           k == r.market
<1>1. k \in Markets /\ r.who = {m} /\ r.allocation \in [Outcomes -> Entries]
  BY AllocationCommits
<1> SUFFICES ASSUME NEW o \in Outcomes, ~(r.allocation[o] > 0)
             PROVE  Stored(r.allocation[o]) = IF <<m, o>> \in r.live THEN 0 ELSE bets[k][m][o]
  BY DEF RowsLeft, Rows
<1>2. r.allocation[o] = 0 /\ Stored(0) = 0
  BY <1>1, CellsAreNatural, NoBetsAreABook
<1>3. <<m, o>> \in r.live <=> bets[k][m][o] > 0
  BY <1>1, InRows DEF RowsCurrent
<1>4. bets[k][m][o] \in Nat
  BY <1>1, CellsAreNatural DEF BaseInv, TypeOK
<1>. QED BY <1>2, <1>3, <1>4

\* An allocation that has read what is there is placed as if it were alone.
LEMMA FreshAllocation ==
    ASSUME BaseInv, LinkInv, NEW s \in Slots, NEW m \in Members, CommitAllocation(s, m), Fresh(s)
    PROVE  Next
<1> DEFINE r == session[s]
           k == r.market
<1>1. /\ r.request = "allocate" /\ r.at = "checked" /\ k \in Markets /\ r.who = {m}
      /\ r.allocation \in [Outcomes -> Entries] /\ Stake(r.allocation) > 0
      /\ \A o \in Outcomes : r.allocation[o] > 0 => r.allocation[o] >= MinStake * Scale
      /\ Covers(r.points + Stake(r.seen[m]), r.allocation)
      /\ r.row.status = "OPEN" /\ r.seen \in Books
  BY AllocationCommits
<1>2. r.seen[m] = bets[k][m]
  BY <1>1, CurrentRows DEF Fresh, None
<1>3. status[k] = "OPEN"
  BY <1>1 DEF Fresh, MarketCurrent, Row
<1>4. r.points <= balance[m] /\ r.points \in Int /\ balance[m] \in Int
  BY <1>1 DEF Fresh, PointsCurrent, BaseInv, SessionRecords, TypeOK
<1>5. Stake(bets[k][m]) \in Nat /\ Stake(r.allocation) \in Nat /\ Stored(Stake(r.allocation)) \in Nat
  BY <1>1, StakeIsNatural, TotalIsNatural DEF BaseInv, TypeOK
<1>6. Covers(Available(k, m), r.allocation)
  <2>1. Covers(r.points + Stake(bets[k][m]), r.allocation)
    BY <1>1, <1>2
  <2>2. r.points + Stake(bets[k][m]) <= balance[m] + Stake(bets[k][m])
    BY <1>4, <1>5
  <2>3. r.points + Stake(bets[k][m]) \in Int /\ balance[m] + Stake(bets[k][m]) \in Int
    BY <1>4, <1>5
  <2> HIDE DEF r, k
  <2>. QED BY <1>5, <2>1, <2>2, <2>3, CoversMore DEF Available
<1>7. RowsLeft(s, m) = Rows(k, m, r.allocation)
  BY FreshRows DEF Fresh
<1>8. locked[k][m] \in Int
  BY <1>1 DEF BaseInv, TypeOK
<1>9. Relocked(k, m, Stake(r.allocation)) = locked[k][m] + Lock(s, m) /\ Lock(s, m) \in Int
  BY <1>2, <1>5, <1>8 DEF Relocked, Lock
<1>10. /\ bets' = [bets EXCEPT ![k] = [@ EXCEPT ![m] = RowsLeft(s, m)]]
       /\ locked' = [locked EXCEPT ![k][m] = @ + Lock(s, m)]
       /\ balance' = [balance EXCEPT ![m] = @ - Lock(s, m)]
       /\ UNCHANGED <<payout, refund, status, reference, winner, decision>>
       /\ UNCHANGED <<now, joined, closesAt, resolveAt, late>>
  BY DEF CommitAllocation, Ends
<1>11. m \in joined /\ Accepting(k)
  BY <1>1, <1>3 DEF BaseInv, Fixed, Accepting
<1> DEFINE allocation == r.allocation
           re == Relocked(k, m, Stake(allocation))
<1>12. locked' = [locked EXCEPT ![k] = [@ EXCEPT ![m] = re]]
  BY <1>9, <1>10
<1>13. balance' = [balance EXCEPT ![m] = @ + locked[k][m] - re]
  <2>1. balance[m] - Lock(s, m) = balance[m] + locked[k][m] - re
    BY <1>4, <1>8, <1>9
  <2>. QED BY <1>10, <2>1
<1>14. bets' = [bets EXCEPT ![k] = [@ EXCEPT ![m] = Rows(k, m, allocation)]]
  BY <1>7, <1>10
<1>15. /\ Stake(allocation) > 0
       /\ \A o \in Outcomes : allocation[o] > 0 => allocation[o] >= MinStake * Scale
       /\ Stake(allocation) <= Available(k, m) * Scale
       /\ Stake(allocation) <= MaxAllowed(Available(k, m)) * Scale
  BY <1>1, <1>6 DEF Covers
<1> HIDE DEF r, k, allocation
<1>16. PlaceAllocation(k, m, allocation)
  BY <1>10, <1>11, <1>12, <1>13, <1>14, <1>15 DEF PlaceAllocation, re, marketVars
<1>. QED BY <1>1, <1>16 DEF Next, Bet, allocation

\* What a request that commits has read of its market is what is there.
LEMMA FreshRow ==
    ASSUME BaseInv, NEW s \in Slots, session[s].request # None, MarketCurrent(s)
    PROVE  /\ session[s].market \in Markets
           /\ Admitted(session[s].request, session[s].row)
           /\ session[s].row.status = status[session[s].market]
           /\ session[s].row.reference = reference[session[s].market]
           /\ session[s].row.winner = winner[session[s].market]
<1>1. Sound(session[s])
  BY DEF BaseInv
<1>2. session[s].market \in Markets /\ Admitted(session[s].request, session[s].row)
  BY <1>1 DEF Sound
<1>. QED BY <1>2 DEF MarketCurrent, Row

\* A request that reads the whole market has read its book.
LEMMA FreshBook ==
    ASSUME BaseInv, LinkInv, NEW s \in Slots,
           session[s].request \in {"decide", "settle", "cancel"}, session[s].at # "begun",
           RowsCurrent(s)
    PROVE  session[s].seen = bets[session[s].market]
<1>1. session[s].request # None /\ Sound(session[s]) /\ session[s] \in SessionRecords
  BY DEF BaseInv, None
<1>2. session[s].who = Members /\ session[s].market \in Markets
  BY <1>1 DEF Sound, Asked
<1>3. \A m \in Members : session[s].seen[m] = bets[session[s].market][m]
  BY <1>1, <1>2, CurrentRows
<1>4. session[s].seen \in Books /\ bets[session[s].market] \in Books
  BY <1>1, <1>2 DEF SessionRecords, BaseInv, TypeOK
<1>. QED BY <1>3, <1>4 DEF Books

\* So are the requests that close, decide and judge a market.
LEMMA FreshVerdict ==
    ASSUME BaseInv, LinkInv, Undecided, NEW s \in Slots, NEW price \in Prices, Fresh(s),
           \/ CommitClose(s, price) \/ CommitResolve(s, price)
           \/ \E held \in Holdings : CommitDecision(s, price, held)
    PROVE  LET k == session[s].market
           IN  /\ k \in Markets
               /\ CommitClose(s, price) => CloseMarket(k, price)
               /\ \A held \in Holdings : CommitDecision(s, price, held) => BuildDecision(k, price, held)
               /\ CommitResolve(s, price) => ResolveMarket(k, price)
<1> DEFINE k == session[s].market
<1>1. session[s].request # None /\ MarketCurrent(s)
  BY DEF Fresh, CommitClose, CommitDecision, CommitResolve, None
<1>2. /\ k \in Markets
      /\ Admitted(session[s].request, session[s].row)
      /\ session[s].row.status = status[k]
      /\ session[s].row.reference = reference[k]
      /\ session[s].row.winner = winner[k]
  BY <1>1, FreshRow
<1>3. ASSUME CommitClose(s, price) PROVE CloseMarket(k, price)
  BY <1>2, <1>3 DEF CommitClose, CloseMarket, Ends, Admitted
<1>4. ASSUME NEW held \in Holdings, CommitDecision(s, price, held)
      PROVE  BuildDecision(k, price, held)
  <2>1. session[s].seen = bets[k]
    BY <1>4, FreshBook DEF CommitDecision, Fresh
  <2>2. decision[k].status = None
    BY <1>2, <1>4 DEF CommitDecision, Fresh, DecisionCurrent, Undecided
  <2>. QED BY <1>2, <1>4, <2>1, <2>2 DEF CommitDecision, BuildDecision, Ends, Admitted
<1>5. ASSUME CommitResolve(s, price) PROVE ResolveMarket(k, price)
  BY <1>2, <1>5 DEF CommitResolve, ResolveMarket, Judgeable, Ends, Admitted
<1>. QED BY <1>2, <1>3, <1>4, <1>5

\* What a settlement or a cancellation pays that has read what is there.
LEMMA FreshDue ==
    ASSUME BaseInv, LinkInv, NEW s \in Slots, session[s].at # "begun",
           RowsCurrent(s), EntriesCurrent(s), MarketCurrent(s)
    PROVE  LET k == session[s].market
           IN  /\ session[s].request = "settle" => Winnings(s) = Owed(k, winner[k])
               /\ session[s].request = "cancel" =>
                      Refunds(s) = [m \in Members |-> IF refund[k][m] = 0 THEN Stake(bets[k][m]) ELSE 0]
<1> DEFINE k == session[s].market
<1>1. CASE session[s].request = "settle"
  <2>1. session[s].seen = bets[k] /\ session[s].row.winner = winner[k]
    BY <1>1, FreshBook, FreshRow DEF None
  <2>2. session[s].paid = {m \in Members : payout[k][m] # 0}
    BY <1>1 DEF EntriesCurrent, PaidAlready
  <2>. QED BY <1>1, <2>1, <2>2 DEF Winnings, Owed
<1>2. CASE session[s].request = "cancel"
  <2>1. session[s].seen = bets[k]
    BY <1>2, FreshBook
  <2>2. session[s].paid = {m \in Members : refund[k][m] # 0}
    BY <1>2 DEF EntriesCurrent, PaidAlready
  <2>. QED BY <1>2, <2>1, <2>2 DEF Refunds
<1>. QED BY <1>1, <1>2

\* And the requests that settle or cancel it.
LEMMA FreshPayment ==
    ASSUME BaseInv, LinkInv, NEW s \in Slots, CommitSettlement(s) \/ CommitCancellation(s), Fresh(s)
    PROVE  LET k == session[s].market
           IN  /\ k \in Markets
               /\ CommitSettlement(s) => SettleMarket(k)
               /\ CommitCancellation(s) => CancelMarket(k)
<1> DEFINE k == session[s].market
<1>1. /\ session[s].request # None /\ session[s].at # "begun"
      /\ MarketCurrent(s) /\ RowsCurrent(s) /\ EntriesCurrent(s)
  BY DEF Fresh, CommitSettlement, CommitCancellation, None
<1>2. /\ k \in Markets
      /\ Admitted(session[s].request, session[s].row)
      /\ session[s].row.status = status[k]
      /\ session[s].row.winner = winner[k]
  BY <1>1, FreshRow
<1>3. CASE CommitSettlement(s)
  <2>1. Winnings(s) = Owed(k, winner[k])
    BY <1>1, <1>3, FreshDue DEF CommitSettlement
  <2>2. PayOut(k, winner[k])
    BY <1>3, <2>1 DEF CommitSettlement, PayOut
  <2>3. status[k] = "RESOLVED" /\ winner[k] # None
    BY <1>2, <1>3 DEF CommitSettlement, Admitted
  <2>4. /\ status' = [status EXCEPT ![k] = "SETTLED"]
        /\ UNCHANGED <<locked, refund, reference, winner, bets, decision>>
        /\ UNCHANGED <<now, joined, closesAt, resolveAt, late>>
    BY <1>3 DEF CommitSettlement, Ends
  <2>5. SettleMarket(k)
    BY <2>2, <2>3, <2>4 DEF SettleMarket
  <2>. QED BY <1>2, <1>3, <2>5 DEF CommitSettlement, CommitCancellation
<1>4. CASE CommitCancellation(s)
  <2> DEFINE due == [m \in Members |-> IF refund[k][m] = 0 THEN Stake(bets[k][m]) ELSE 0]
  <2>1. Refunds(s) = due
    BY <1>1, <1>4, FreshDue DEF CommitCancellation
  <2>2. Cancellable(k)
    BY <1>2, <1>4 DEF CommitCancellation, Admitted, Cancellable
  <2>3. /\ refund' = [refund EXCEPT ![k] = [m \in Members |-> @[m] + Refunds(s)[m]]]
        /\ balance' = [m \in Members |-> balance[m] + Refunds(s)[m]]
    BY <1>4 DEF CommitCancellation, Refunds
  <2>4. /\ status' = [status EXCEPT ![k] = "CANCELLED"]
        /\ UNCHANGED <<locked, payout, reference, winner, bets, decision>>
        /\ UNCHANGED <<now, joined, closesAt, resolveAt, late>>
    BY <1>4 DEF CommitCancellation, Ends
  <2>5. CancelMarket(k)
    BY <2>1, <2>2, <2>3, <2>4 DEF CancelMarket
  <2>. QED BY <1>2, <1>4, <2>5 DEF CommitSettlement, CommitCancellation
<1>. QED BY <1>3, <1>4

\* Only the session that commits ends with what it has written.
LEMMA OneCommits ==
    ASSUME BaseInv, NEW s \in Slots, session[s].request # None, session'[s].request = None,
           NEW t \in Slots, NEW deleted, Ends(t, deleted)
    PROVE  t = s
<1> SUFFICES ASSUME t # s PROVE FALSE
  OBVIOUS
<1>1. SameBut(session'[s], session[s])
  BY EndsOne
<1>. QED BY <1>1 DEF SameBut

\* All that sessions know.
SessionsInv == BaseInv /\ LinkInv /\ Undecided

\* A commit of session s.
Commits(s) ==
    \/ \E m \in Members : CommitAllocation(s, m)
    \/ \E price \in Prices : CommitClose(s, price)
    \/ \E price \in Prices, held \in Holdings : CommitDecision(s, price, held)
    \/ \E price \in Prices : CommitResolve(s, price)
    \/ CommitSettlement(s)
    \/ CommitCancellation(s)

\* A commit that has read what is there is a step of MarketLifecycle.
LEMMA FreshCommit ==
    ASSUME SessionsInv, NEW s \in Slots, Commits(s), Fresh(s)
    PROVE  Next
<1> USE DEF SessionsInv
<1>1. ASSUME NEW price \in Prices, CommitClose(s, price) \/ CommitResolve(s, price)
      PROVE  Next
  BY <1>1, FreshVerdict DEF Next, Close, Resolve
<1>2. ASSUME NEW price \in Prices, NEW held \in Holdings, CommitDecision(s, price, held)
      PROVE  Next
  BY <1>2, FreshVerdict DEF Next, Decide
<1>3. CASE CommitSettlement(s) \/ CommitCancellation(s)
  BY <1>3, FreshPayment DEF Next, Settle, Cancel
<1>. QED BY <1>1, <1>2, <1>3, FreshAllocation DEF Commits

\* Each step that ends a session with fresh reads is one of MarketLifecycle's.
LEMMA SerialStep ==
    ASSUME SessionsInv, [SessionsNext]_allVars, NEW s \in Slots, CommitsFresh(s)
    PROVE  Next \/ UNCHANGED vars
<1>1. CASE UNCHANGED <<vars, decisions, committed, history>>
  BY <1>1
<1>2. CASE Write
  <2>1. PICK t \in Slots : Commits(t)
    BY <1>2 DEF Write, Commits
  <2>2. \E deleted : Ends(t, deleted)
    BY <2>1 DEF Commits, CommitAllocation, CommitClose, CommitDecision, CommitResolve,
       CommitSettlement, CommitCancellation
  <2>3. t = s
    BY <2>2, OneCommits DEF CommitsFresh, SessionsInv
  <2>. QED BY <2>1, <2>3, FreshCommit DEF CommitsFresh
<1>. QED BY <1>1, <1>2, OnlyCommitsWrite

\* It is inductive.
LEMMA SessionsInvHolds == SessionsSpec => []SessionsInv
<1>1. SessionsInit => SessionsInv
  <2>1. SessionsInit => Undecided
    BY DEF SessionsInit, Undecided, NoDecision
  <2>. QED BY <2>1, BaseInit, LinkInit DEF SessionsInv
<1>2. SessionsInv /\ [SessionsNext]_allVars => SessionsInv'
  BY BaseStep, LinkStep, UndecidedStep DEF SessionsInv
<1>. QED BY <1>1, <1>2, PTL DEF SessionsSpec

\* A commit whose reads still hold is a step of MarketLifecycle, however many
\* sessions overlap with it.
THEOREM SerialTheorem == SessionsSpec => FreshCommitsAreSerial
<1>1. SessionsInv /\ [SessionsNext]_allVars => [\A s \in Slots : CommitsFresh(s) => Next]_vars
  BY SerialStep
<1>. QED BY <1>1, SessionsInvHolds, PTL DEF SessionsSpec, FreshCommitsAreSerial

-----------------------------------------------------------------------------
(* Locks and balances                                                        *)

\* What has gone stale stays so.
LEMMA StaleForGood ==
    ASSUME [SessionsNext]_allVars
    PROVE  staleMarkets \subseteq staleMarkets' /\ staleRows \subseteq staleRows'
           /\ stalePoints \subseteq stalePoints'
<1>1. CASE UNCHANGED <<vars, decisions, committed, history>>
  BY <1>1 DEF history
<1>2. ASSUME NEW s, NEW deleted, Ends(s, deleted)
      PROVE  staleMarkets \subseteq staleMarkets' /\ staleRows \subseteq staleRows'
             /\ stalePoints \subseteq stalePoints'
  BY <1>2 DEF Ends
<1>3. CASE Write
  BY <1>2, <1>3 DEF Write, CommitAllocation, CommitClose, CommitDecision, CommitResolve,
     CommitSettlement, CommitCancellation
<1>. QED BY <1>1, <1>3, OnlyCommitsWrite

\* Lock and rows of the member part only where its rows were replaced twice.
LEMMA EscrowOfAllocation ==
    ASSUME Scale = 1, SessionsInv, EscrowUnlessReplacedTwice,
           NEW s \in Slots, NEW m \in Members, CommitAllocation(s, m)
    PROVE  EscrowUnlessReplacedTwice'
<1> USE DEF SessionsInv
<1> DEFINE r == session[s]
           k == r.market
<1>1. /\ r.request = "allocate" /\ r.at = "checked" /\ k \in Markets /\ r.who = {m}
      /\ r.allocation \in [Outcomes -> Entries]
      /\ bets'[k][m] = RowsLeft(s, m)
      /\ \A n \in Members \ {m} : bets'[k][n] = bets[k][n]
      /\ \A j \in Markets \ {k} : bets'[j] = bets[j]
      /\ locked'[k][m] = locked[k][m] + Lock(s, m)
      /\ \A j \in Markets, n \in Members : j # k \/ n # m => locked'[j][n] = locked[j][n]
  BY AllocationCommits
<1>2. staleRows' = IF RowsCurrent(s) THEN staleRows ELSE staleRows \cup ({k} \X {m})
  BY <1>1 DEF CommitAllocation, Ends
<1>3. ASSUME NEW j \in Markets, NEW n \in Members, j # k \/ n # m, <<j, n>> \notin staleRows'
      PROVE  locked'[j][n] = Stake(bets'[j][n])
  <2>1. locked'[j][n] = locked[j][n] /\ bets'[j][n] = bets[j][n]
    BY <1>1, <1>3
  <2>2. <<j, n>> \notin staleRows
    BY <1>2, <1>3
  <2>. QED BY <2>1, <2>2 DEF EscrowUnlessReplacedTwice
<1>4. ASSUME <<k, m>> \notin staleRows' PROVE locked'[k][m] = Stake(bets'[k][m])
  <2>1. RowsCurrent(s) /\ <<k, m>> \notin staleRows
    BY <1>2, <1>4
  <2>2. r.seen[m] = bets[k][m]
    BY <1>1, <2>1, CurrentRows DEF None
  <2>3. bets'[k][m] = Rows(k, m, r.allocation)
    BY <1>1, <2>1, FreshRows
  <2>4. Stake(bets'[k][m]) = Stored(Stake(r.allocation))
    BY <1>1, <2>3, RowsAddUp
  <2>5. locked[k][m] = Stake(bets[k][m])
    BY <1>1, <2>1 DEF EscrowUnlessReplacedTwice
  <2>6. Stake(bets[k][m]) \in Nat /\ Stored(Stake(r.allocation)) \in Nat
    BY <1>1, StakeIsNatural, TotalIsNatural DEF BaseInv, TypeOK
  <2>. QED BY <1>1, <2>2, <2>4, <2>5, <2>6 DEF Lock
<1> HIDE DEF r, k
<1>. QED BY <1>3, <1>4 DEF EscrowUnlessReplacedTwice

\* No other commit touches stakes or locks.
LEMMA EscrowStepOfSessions ==
    ASSUME Scale = 1, SessionsInv, EscrowUnlessReplacedTwice, [SessionsNext]_allVars
    PROVE  EscrowUnlessReplacedTwice'
<1>1. ASSUME UNCHANGED <<bets, locked>> PROVE EscrowUnlessReplacedTwice'
  BY <1>1, StaleForGood DEF EscrowUnlessReplacedTwice
<1>2. CASE UNCHANGED <<vars, decisions, committed, history>>
  BY <1>1, <1>2 DEF vars, ledgerVars
<1>3. CASE Write
  BY <1>1, <1>3, EscrowOfAllocation
  DEF Write, CommitClose, CommitDecision, CommitResolve, CommitSettlement, CommitCancellation, ledgerVars
<1>. QED BY <1>2, <1>3, OnlyCommitsWrite

\* Where requests are in cents, only two allocations of one member in one
\* market that replace the same rows part its lock there from its rows.
THEOREM SessionsEscrowTheorem == ASSUME Scale = 1 PROVE SessionsSpec => []EscrowUnlessReplacedTwice
<1>1. SessionsInit => EscrowUnlessReplacedTwice
  BY DEF SessionsInit, EscrowUnlessReplacedTwice, NoBets, NoPoints, NoStakes, Stake, Outcomes
<1>2. SessionsInv /\ EscrowUnlessReplacedTwice /\ [SessionsNext]_allVars => EscrowUnlessReplacedTwice'
  BY EscrowStepOfSessions
<1>. QED BY <1>1, <1>2, SessionsInvHolds, PTL DEF SessionsSpec

\* An allocation takes no more than the points it has seen.
LEMMA OverdraftOfAllocation ==
    ASSUME SessionsInv, NoOverdraftByOthers, NEW s \in Slots, NEW m \in Members, CommitAllocation(s, m)
    PROVE  NoOverdraftByOthers'
<1> USE DEF SessionsInv
<1> DEFINE r == session[s]
           k == r.market
           stake == Stake(r.seen[m])
           total == Stake(r.allocation)
<1>1. /\ r.request = "allocate" /\ r.who = {m} /\ total > 0
      /\ r.allocation \in [Outcomes -> Entries] /\ r.seen \in Books
      /\ Covers(r.points + stake, r.allocation)
      /\ balance'[m] = balance[m] - Lock(s, m)
      /\ \A n \in Members \ {m} : balance'[n] = balance[n]
  BY AllocationCommits
<1>2. stalePoints' = IF r.points <= balance[m] THEN stalePoints ELSE stalePoints \cup {m}
  BY <1>1 DEF CommitAllocation, Ends, PointsCurrent
<1>3. r.points \in Int /\ balance[m] \in Int /\ stake \in Nat /\ total \in Nat
  BY <1>1, StakeIsNatural, TotalIsNatural DEF BaseInv, SessionRecords, TypeOK
<1>4. Lock(s, m) = Stored(total) - stake
  BY DEF Lock
<1>5. total <= (r.points + stake) * Scale
  BY <1>1 DEF Covers
<1> DEFINE points == r.points + stake
<1> HIDE DEF r, stake, total
<1>6. points \in Nat
  <2>1. points \in Int /\ Scale \in Nat
    BY <1>3, SettingsAssumption
  <2> HIDE DEF points
  <2>2. total <= points * Scale
    BY <1>5 DEF points
  <2>. QED BY <1>1, <1>3, <2>1, <2>2
<1>7. Stored(total) <= points /\ Stored(total) \in Nat
  BY <1>3, <1>5, <1>6, StoredFits, StoredIsNatural
<1>8. balance'[m] \in Int /\ (r.points <= balance[m] => balance'[m] >= 0)
  BY <1>1, <1>3, <1>4, <1>7
<1>9. ASSUME NEW n \in Members, balance'[n] < 0 PROVE n \in stalePoints'
  <2>1. CASE n = m
    BY <1>2, <1>3, <1>8, <1>9, <2>1
  <2>2. CASE n # m
    BY <1>1, <1>2, <1>9, <2>2 DEF NoOverdraftByOthers
  <2>. QED BY <2>1, <2>2
<1>. QED BY <1>9 DEF NoOverdraftByOthers

\* The other commits add to balances.
LEMMA OverdraftStepOfSessions ==
    ASSUME SessionsInv, NoOverdraftByOthers, [SessionsNext]_allVars
    PROVE  NoOverdraftByOthers'
<1> USE DEF SessionsInv
<1>1. ASSUME UNCHANGED balance PROVE NoOverdraftByOthers'
  BY <1>1, StaleForGood DEF NoOverdraftByOthers
<1>2. CASE UNCHANGED <<vars, decisions, committed, history>>
  BY <1>1, <1>2 DEF vars, ledgerVars
<1>3. ASSUME NEW due \in [Members -> Nat], balance' = [m \in Members |-> balance[m] + due[m]]
      PROVE  NoOverdraftByOthers'
  BY <1>3, StaleForGood DEF NoOverdraftByOthers, BaseInv, TypeOK
<1>4. ASSUME NEW s \in Slots, CommitSettlement(s) PROVE NoOverdraftByOthers'
  <2>1. session[s].row.winner \in Outcomes
    BY <1>4 DEF CommitSettlement, BaseInv, Sound, Admitted, SessionRecords, MarketRows, None
  <2>2. balance' = [m \in Members |-> balance[m] + Winnings(s)[m]]
    BY <1>4 DEF CommitSettlement
  <2>. QED BY <1>3, <2>1, <2>2, DueIsNatural
<1>5. ASSUME NEW s \in Slots, CommitCancellation(s) PROVE NoOverdraftByOthers'
  <2>1. balance' = [m \in Members |-> balance[m] + Refunds(s)[m]]
    BY <1>5 DEF CommitCancellation, Refunds
  <2>. QED BY <1>3, <2>1, DueIsNatural
<1>6. CASE Write
  BY <1>1, <1>4, <1>5, <1>6, OverdraftOfAllocation
  DEF Write, CommitClose, CommitDecision, CommitResolve, ledgerVars
<1>. QED BY <1>2, <1>6, OnlyCommitsWrite

\* No request of another and no administrator's overdraws a member: that takes
\* an allocation of its own that commits after another has taken its points.
THEOREM SessionsOverdraftTheorem == SessionsSpec => []NoOverdraftByOthers
<1>1. SessionsInit => NoOverdraftByOthers
  BY SettingsAssumption DEF SessionsInit, NoOverdraftByOthers
<1>2. SessionsInv /\ NoOverdraftByOthers /\ [SessionsNext]_allVars => NoOverdraftByOthers'
  BY OverdraftStepOfSessions
<1>. QED BY <1>1, <1>2, SessionsInvHolds, PTL DEF SessionsSpec

-----------------------------------------------------------------------------
(* Markets that nobody wrote on stale grounds                                *)

\* The decision that is up for approval rests on the stakes in the book.
RestsOnTheBook(k) ==
    decision[k].status = "PENDING_APPROVAL" =>
        LET consensus == ComputeConsensus(bets[k])
        IN  /\ decision[k].action = consensus.leader
            /\ decision[k].total = consensus.total
            /\ Qualified(consensus, decision[k].electorate)

Orderly(k) ==
    /\ PaidByTheBook(k)
    /\ decisions[k] <= 1
    /\ status[k] \in {"OPEN", "CLOSED"} => decisions[k] = 0
    /\ RestsOnTheBook(k)

OrderlyInv == \A k \in Markets \ staleMarkets : Orderly(k)

\* What a market consists of.
Kept(k) ==
    /\ status'[k] = status[k] /\ reference'[k] = reference[k] /\ winner'[k] = winner[k]
    /\ bets'[k] = bets[k] /\ payout'[k] = payout[k] /\ refund'[k] = refund[k]
    /\ decision'[k] = decision[k] /\ decisions'[k] = decisions[k]

\* A market that is left alone stays in order.
LEMMA KeptOrderly ==
    ASSUME NEW k \in Markets, Orderly(k), Kept(k)
    PROVE  Orderly(k)'
<1>1. PaidByTheBook(k)'
  BY NothingPaid DEF Orderly, Kept
<1>2. RestsOnTheBook(k)'
  BY DEF Orderly, Kept, RestsOnTheBook
<1>. QED BY <1>1, <1>2 DEF Orderly, Kept

\* A commit writes one market.
LEMMA OthersAreKept ==
    ASSUME SessionsInv, NEW s \in Slots, Commits(s), NEW j \in Markets, j # session[s].market
    PROVE  Kept(j)
<1> USE DEF SessionsInv
<1>1. TypeOK /\ decisions \in [Markets -> Nat]
  BY DEF BaseInv, Recorded
<1>2. ASSUME NEW m \in Members, CommitAllocation(s, m) PROVE Kept(j)
  <2>1. bets'[j] = bets[j] /\ UNCHANGED <<payout, refund, status, reference, winner, decision, decisions>>
    BY <1>2, AllocationCommits
  <2>. QED BY <2>1 DEF Kept
<1>3. ASSUME NEW price \in Prices, CommitClose(s, price) PROVE Kept(j)
  BY <1>1, <1>3 DEF CommitClose, ledgerVars, Kept, TypeOK
<1>4. ASSUME NEW price \in Prices, NEW held \in Holdings, CommitDecision(s, price, held) PROVE Kept(j)
  <2> DEFINE new == DecisionFor(ComputeConsensus(session[s].seen), price, held)
  <2>1. /\ decision' = [decision EXCEPT ![session[s].market] = new]
        /\ decisions' = [decisions EXCEPT ![session[s].market] = @ + 1]
        /\ status' = [status EXCEPT ![session[s].market] = "DECIDED"]
        /\ UNCHANGED <<payout, refund, reference, winner, bets>>
    BY <1>4 DEF CommitDecision, ledgerVars
  <2> HIDE DEF new
  <2>. QED BY <1>1, <2>1 DEF Kept, TypeOK
<1>5. ASSUME NEW price \in Prices, CommitResolve(s, price) PROVE Kept(j)
  BY <1>1, <1>5 DEF CommitResolve, ledgerVars, Kept, TypeOK
<1>6. CASE CommitSettlement(s)
  BY <1>1, <1>6 DEF CommitSettlement, Kept, TypeOK
<1>7. CASE CommitCancellation(s)
  BY <1>1, <1>7 DEF CommitCancellation, Kept, TypeOK
<1>. QED BY <1>2, <1>3, <1>4, <1>5, <1>6, <1>7 DEF Commits

\* A market that is written and not stale was read as it is: all of it, but for
\* an allocation, which need not have read its rows and its points.
LEMMA WrittenAsRead ==
    ASSUME SessionsInv, NEW s \in Slots, Commits(s), session[s].market \notin staleMarkets'
    PROVE  /\ session[s].market \in Markets /\ session[s].request # None
           /\ session[s].market \notin staleMarkets
           /\ MarketCurrent(s)
           /\ session[s].request # "allocate" => Fresh(s)
<1>1. session[s].request # None
  BY DEF Commits, CommitAllocation, CommitClose, CommitDecision, CommitResolve,
     CommitSettlement, CommitCancellation, None
<1>2. session[s].market \in Markets
  BY <1>1 DEF SessionsInv, BaseInv, Sound
<1>3. PICK deleted : Ends(s, deleted)
  BY DEF Commits, CommitAllocation, CommitClose, CommitDecision, CommitResolve,
     CommitSettlement, CommitCancellation
<1>4. /\ MarketCurrent(s) /\ EntriesCurrent(s) /\ DecisionCurrent(s)
      /\ RowsCurrent(s) \/ session[s].request = "allocate"
      /\ session[s].market \notin staleMarkets
  BY <1>3 DEF Ends
<1>5. session[s].request # "allocate" => Fresh(s)
  BY <1>4 DEF Fresh, PointsCurrent
<1>. QED BY <1>1, <1>2, <1>4, <1>5

\* A commit keeps the market it writes in order.
LEMMA WritingIsOrderly ==
    ASSUME SessionsInv, NEW s \in Slots, Commits(s), NEW k \in Markets, k = session[s].market,
           k \notin staleMarkets', Orderly(k)
    PROVE  Orderly(k)'
<1>1. /\ MarketCurrent(s) /\ (session[s].request # "allocate" => Fresh(s))
      /\ TypeOK /\ decisions \in [Markets -> Nat] /\ BaseInv /\ LinkInv /\ Undecided
  BY WrittenAsRead DEF SessionsInv, BaseInv, Recorded
<1>2. /\ PaidByTheBook(k) /\ decisions[k] <= 1 /\ RestsOnTheBook(k)
      /\ status[k] \in {"OPEN", "CLOSED"} => decisions[k] = 0
  BY DEF Orderly
<1>3. ASSUME NEW m \in Members, CommitAllocation(s, m) PROVE Orderly(k)'
  <2>1. /\ session[s].row.status = "OPEN"
        /\ UNCHANGED <<payout, refund, status, reference, winner, decision, decisions>>
    BY <1>1, <1>3, AllocationCommits
  <2>2. status[k] = "OPEN"
    BY <1>1, <2>1 DEF MarketCurrent, Row
  <2>3. PaidByTheBook(k)'
    BY <1>1, <1>2, <2>1, <2>2, NothingPaid
  <2>4. decision[k].status = None
    BY <1>1, <1>2, <2>2 DEF Undecided
  <2>5. RestsOnTheBook(k)'
    BY <2>1, <2>4 DEF RestsOnTheBook, None
  <2>. QED BY <1>2, <2>1, <2>2, <2>3, <2>5 DEF Orderly
<1>4. ASSUME NEW price \in Prices, CommitClose(s, price) PROVE Orderly(k)'
  <2>1. CloseMarket(k, price) /\ decisions' = decisions
    BY <1>1, <1>4, FreshVerdict DEF CommitClose
  <2>2. /\ status[k] = "OPEN" /\ status'[k] = "CLOSED"
        /\ UNCHANGED <<payout, refund, winner, bets, decision>>
    BY <1>1, <2>1 DEF CloseMarket, ledgerVars, TypeOK
  <2>3. PaidByTheBook(k)'
    BY <1>1, <1>2, <2>2, NothingPaid
  <2>. QED BY <1>2, <2>1, <2>2, <2>3 DEF Orderly, RestsOnTheBook
<1>5. ASSUME NEW price \in Prices, NEW held \in Holdings, CommitDecision(s, price, held)
      PROVE  Orderly(k)'
  <2>1. BuildDecision(k, price, held) /\ decisions' = [decisions EXCEPT ![k] = @ + 1]
    BY <1>1, <1>5, FreshVerdict DEF CommitDecision
  <2>2. /\ status[k] = "CLOSED" /\ status'[k] = "DECIDED"
        /\ UNCHANGED <<payout, refund, winner, bets>>
        /\ decision'[k] = DecisionFor(ComputeConsensus(bets[k]), price, held)
    BY <1>1, <2>1 DEF BuildDecision, ledgerVars, TypeOK
  <2>3. PaidByTheBook(k)'
    BY <1>1, <1>2, <2>2, NothingPaid
  <2>4. decisions'[k] = 1
    BY <1>1, <1>2, <2>1, <2>2
  <2>5. RestsOnTheBook(k)'
    <3>1. bets[k] \in Books
      BY <1>1 DEF TypeOK
    <3>. QED BY <2>2, <3>1, NewDecisionRests DEF RestsOnTheBook
  <2>. QED BY <2>2, <2>3, <2>4, <2>5 DEF Orderly
<1>6. ASSUME NEW price \in Prices, CommitResolve(s, price) PROVE Orderly(k)'
  <2>1. ResolveMarket(k, price) /\ decisions' = decisions
    BY <1>1, <1>6, FreshVerdict DEF CommitResolve
  <2>2. /\ status[k] \notin {"SETTLED", "CANCELLED"} /\ status'[k] = "RESOLVED"
        /\ UNCHANGED <<payout, refund, bets, decision>>
    BY <1>1, <2>1 DEF ResolveMarket, Judgeable, ledgerVars, TypeOK
  <2>3. PaidByTheBook(k)'
    BY <1>1, <1>2, <2>2, NothingPaid
  <2>. QED BY <1>2, <2>1, <2>2, <2>3 DEF Orderly, RestsOnTheBook
<1>7. CASE CommitSettlement(s)
  <2>1. SettleMarket(k) /\ decisions' = decisions
    BY <1>1, <1>7, FreshPayment DEF CommitSettlement
  <2>2. /\ status[k] = "RESOLVED" /\ status'[k] = "SETTLED" /\ winner[k] \in Outcomes
        /\ PayOut(k, winner[k]) /\ UNCHANGED <<refund, winner, bets, decision>>
    BY <1>1, <2>1 DEF SettleMarket, TypeOK
  <2>3. Unpaid(k)
    BY <1>2, <2>2 DEF PaidByTheBook
  <2>4. payout'[k] = SettleParimutuel(bets[k], winner[k])
    BY <1>1, <2>2, <2>3, PayOutOfUnpaid
  <2>5. PaidByTheBook(k)'
    BY <2>2, <2>3, <2>4 DEF PaidByTheBook, Unpaid
  <2>. QED BY <1>2, <2>1, <2>2, <2>5 DEF Orderly, RestsOnTheBook
<1>8. CASE CommitCancellation(s)
  <2>1. CancelMarket(k) /\ decisions' = decisions
    BY <1>1, <1>8, FreshPayment DEF CommitCancellation
  <2>2. /\ status[k] \notin {"SETTLED", "CANCELLED"} /\ status'[k] = "CANCELLED"
        /\ UNCHANGED <<payout, winner, bets, decision>>
    BY <1>1, <2>1 DEF CancelMarket, Cancellable, TypeOK
  <2>3. Unpaid(k)
    BY <1>2, <2>2 DEF PaidByTheBook
  <2>4. \A m \in Members : refund[k][m] = 0 /\ Stake(bets[k][m]) \in Nat
    BY <1>1, <2>3, StakeIsNatural DEF Unpaid, NoPoints, TypeOK
  <2>5. refund'[k] = Stakes(k)
    BY <1>1, <2>1, <2>4 DEF CancelMarket, Stakes, TypeOK
  <2>6. PaidByTheBook(k)'
    BY <2>2, <2>3, <2>5 DEF PaidByTheBook, Unpaid, Stakes
  <2>. QED BY <1>2, <2>1, <2>2, <2>6 DEF Orderly, RestsOnTheBook
<1>. QED BY <1>3, <1>4, <1>5, <1>6, <1>7, <1>8 DEF Commits

\* Every step keeps the markets in order that it does not write on stale grounds.
LEMMA OrderlyStep == SessionsInv /\ OrderlyInv /\ [SessionsNext]_allVars => OrderlyInv'
<1> SUFFICES ASSUME SessionsInv, OrderlyInv, [SessionsNext]_allVars,
                    NEW j \in Markets, j \notin staleMarkets'
             PROVE  Orderly(j)'
  BY DEF OrderlyInv
<1>1. Orderly(j)
  BY StaleForGood DEF OrderlyInv
<1>2. CASE UNCHANGED <<vars, decisions, committed, history>>
  <2>1. Kept(j)
    BY <1>2 DEF Kept, vars, marketVars, ledgerVars
  <2>. QED BY <1>1, <2>1, KeptOrderly
<1>3. CASE Write
  <2>1. PICK s \in Slots : Commits(s)
    BY <1>3 DEF Write, Commits
  <2>2. CASE j = session[s].market
    BY <1>1, <2>1, <2>2, WritingIsOrderly
  <2>3. CASE j # session[s].market
    BY <1>1, <2>1, <2>3, OthersAreKept, KeptOrderly
  <2>. QED BY <2>2, <2>3
<1>. QED BY <1>2, <1>3, OnlyCommitsWrite

\* So they are in order in every state.
LEMMA OrderlyHolds == SessionsSpec => []OrderlyInv
<1>1. SessionsInit => OrderlyInv
  BY DEF SessionsInit, OrderlyInv, Orderly, PaidByTheBook, Unpaid, RestsOnTheBook, NoDecision, None
<1>. QED BY <1>1, OrderlyStep, SessionsInvHolds, PTL DEF SessionsSpec

\* A sum of nothing.
LEMMA NothingIsHandedOut ==
    ASSUME NEW f, f = [m \in Members |-> 0]
    PROVE  SumFunction(f) = 0
<1>1. SumFunctionOnSet(f, Members) = 0 * Cardinality(Members)
  BY SumOfEqual, SettingsAssumption
<1>2. DOMAIN f = Members /\ Cardinality(Members) \in Nat
  BY FS_CardinalityType, SettingsAssumption
<1>. QED BY <1>1, <1>2 DEF SumFunction

\* What the entries of a market add up to, if it is paid by its book.
LEMMA HandedOut ==
    ASSUME TypeOK, NEW k \in Markets, PaidByTheBook(k)
    PROVE  /\ status[k] = "SETTLED" => Disbursed(k) = PoolOf(bets[k]) - RakeOf(bets[k], winner[k])
           /\ status[k] = "CANCELLED" => Disbursed(k) = PoolOf(bets[k])
           /\ status[k] \notin {"SETTLED", "CANCELLED"} => Disbursed(k) = 0
<1> DEFINE due == [m \in Members |-> payout[k][m] + refund[k][m]]
<1>1. bets[k] \in Books
  BY DEF TypeOK
<1>2. ASSUME status[k] = "SETTLED"
      PROVE  Disbursed(k) = PoolOf(bets[k]) - RakeOf(bets[k], winner[k])
  <2> DEFINE winnings == SettleParimutuel(bets[k], winner[k])
  <2>1. /\ winnings \in [Members -> Nat]
        /\ SumFunction(winnings) = PoolOf(bets[k]) - RakeOf(bets[k], winner[k])
    BY <1>1, <1>2, AlgorithmsAssumption DEF PaidByTheBook
  <2>2. payout[k] = winnings /\ refund[k] = NoPoints
    BY <1>2 DEF PaidByTheBook
  <2> HIDE DEF winnings
  <2>3. due = winnings
    BY <2>1, <2>2 DEF NoPoints
  <2>. QED BY <2>1, <2>3 DEF Disbursed
<1>3. ASSUME status[k] = "CANCELLED" PROVE Disbursed(k) = PoolOf(bets[k])
  <2>1. payout[k] = NoPoints /\ refund[k] = Stakes(k)
    BY <1>3 DEF PaidByTheBook
  <2>2. \A m \in Members : Stake(bets[k][m]) \in Nat
    BY <1>1, StakeIsNatural
  <2>3. due = [m \in Members |-> Stake(bets[k][m])]
    BY <2>1, <2>2 DEF NoPoints, Stakes
  <2>. QED BY <2>3 DEF Disbursed, PoolOf
<1>4. ASSUME status[k] \notin {"SETTLED", "CANCELLED"} PROVE Disbursed(k) = 0
  <2>1. due = [m \in Members |-> 0]
    BY <1>4 DEF PaidByTheBook, Unpaid, NoPoints
  <2>. QED BY <2>1, NothingIsHandedOut DEF Disbursed
<1>. QED BY <1>2, <1>3, <1>4

\* A market that nobody wrote on stale grounds hands its points out once, at
\* the end, whatever settlements and cancellations overlap.
THEOREM HandedOutOnceTheorem == SessionsSpec => []HandedOutOnce
<1>1. SessionsInv /\ OrderlyInv => HandedOutOnce
  <2> SUFFICES ASSUME SessionsInv, OrderlyInv, NEW k \in Markets \ staleMarkets
               PROVE  /\ status[k] = "SETTLED" =>
                             Disbursed(k) = PoolOf(bets[k]) - RakeOf(bets[k], winner[k])
                      /\ status[k] = "CANCELLED" => Disbursed(k) = PoolOf(bets[k])
                      /\ status[k] \notin {"SETTLED", "CANCELLED"} => Disbursed(k) = 0
    BY DEF HandedOutOnce
  <2>1. PaidByTheBook(k) /\ TypeOK
    BY DEF OrderlyInv, Orderly, SessionsInv, BaseInv
  <2>. QED BY <2>1, HandedOut
<1>. QED BY <1>1, SessionsInvHolds, OrderlyHolds, PTL

\* It has at most one decision, which rests on the book that will be settled.
THEOREM OneDecisionTheorem == SessionsSpec => []OneDecisionOnTheBook
<1>1. OrderlyInv => OneDecisionOnTheBook
  BY DEF OrderlyInv, Orderly, RestsOnTheBook, OneDecisionOnTheBook
<1>. QED BY <1>1, OrderlyHolds, PTL

\* A commit that moves the stakes or the reference price of a market that is
\* not open, or opens it again, has read an open one.
LEMMA PublishedStep ==
    ASSUME SessionsInv, [SessionsNext]_allVars, NEW k \in Markets, k \notin staleMarkets'
    PROVE  KeepsPublishedBook(k)
<1>1. ASSUME Kept(k) PROVE KeepsPublishedBook(k)
  BY <1>1 DEF Kept, KeepsPublishedBook
<1>2. CASE UNCHANGED <<vars, decisions, committed, history>>
  BY <1>1, <1>2 DEF Kept, vars, marketVars, ledgerVars
<1>3. CASE Write
  <2>1. PICK s \in Slots : Commits(s)
    BY <1>3 DEF Write, Commits
  <2>2. CASE k # session[s].market
    BY <1>1, <2>1, <2>2, OthersAreKept
  <2>3. CASE k = session[s].market
    <3>1. /\ session[s].request # None /\ MarketCurrent(s)
          /\ TypeOK /\ BaseInv
      BY <2>1, <2>3, WrittenAsRead DEF SessionsInv, BaseInv
    <3>2. Admitted(session[s].request, session[s].row) /\ session[s].row.status = status[k]
      BY <2>3, <3>1, FreshRow
    <3>3. session[s].request \in {"allocate", "close"} => KeepsPublishedBook(k)
      BY <3>2 DEF Admitted, KeepsPublishedBook
    <3>4. ASSUME session[s].request \notin {"allocate", "close"}
          PROVE  /\ bets' = bets /\ reference' = reference
                 /\ \E new \in {"DECIDED", "RESOLVED", "SETTLED", "CANCELLED"} :
                        status' = [status EXCEPT ![k] = new]
      BY <2>1, <2>3, <3>4 DEF Commits, CommitAllocation, CommitClose, CommitDecision, CommitResolve,
         CommitSettlement, CommitCancellation
    <3>5. session[s].request \notin {"allocate", "close"} => KeepsPublishedBook(k)
      BY <3>1, <3>4 DEF KeepsPublishedBook, TypeOK
    <3>. QED BY <3>3, <3>5
  <2>. QED BY <2>2, <2>3
<1>. QED BY <1>2, <1>3, OnlyCommitsWrite

\* After the close no stake and no reference price changes, but by a request
\* that read the market before and commits after it.
THEOREM FrozenUnlessStaleTheorem == SessionsSpec => FrozenUnlessStale
<1>1. SessionsInv /\ [SessionsNext]_allVars =>
          [\A k \in Markets \ staleMarkets' : KeepsPublishedBook(k)]_allVars
  BY PublishedStep
<1>. QED BY <1>1, SessionsInvHolds, PTL DEF SessionsSpec, FrozenUnlessStale

-----------------------------------------------------------------------------
(* Conservation                                                              *)

NothingStale == staleMarkets = {} /\ staleRows = {}

\* While nothing was written on stale grounds, all that MarketLifecycle's
\* conservation rests on holds.
LEMMA NothingStaleYet ==
    ASSUME SessionsInv, OrderlyInv, EscrowUnlessReplacedTwice, NothingStale
    PROVE  /\ TypeOK /\ late = {} /\ joined = Members
           /\ SettlementInv /\ EscrowMatchesBets
           /\ ConservedUnlessStale <=> PointsConserved
<1>1. TypeOK /\ late = {} /\ joined = Members
  BY DEF SessionsInv, BaseInv, Fixed
<1>2. SettlementInv
  BY <1>1 DEF OrderlyInv, Orderly, SettlementInv, NothingStale
<1>3. EscrowMatchesBets
  BY DEF EscrowUnlessReplacedTwice, EscrowMatchesBets, NothingStale
<1>4. ConservedUnlessStale <=> PointsConserved
  BY <1>1 DEF ConservedUnlessStale, PointsConserved, NothingStale
<1>. QED BY <1>1, <1>2, <1>3, <1>4

\* An allocation that overdraws its member still puts into the pool what it
\* takes from the balance.
LEMMA AllocationConserves ==
    ASSUME Scale = 1, SessionsInv, SessionsInv', NEW s \in Slots, NEW m \in Members,
           CommitAllocation(s, m), RowsCurrent(s), MarketCurrent(s),
           EscrowMatchesBets, EscrowMatchesBets', SettlementInv, SettlementInv', PointsConserved
    PROVE  PointsConserved'
<1> DEFINE r == session[s]
<1>1. PICK k \in Markets : k = r.market
  BY AllocationCommits DEF SessionsInv
<1>2. /\ TypeOK /\ TypeOK' /\ late = {} /\ BaseInv
      /\ balance \in [Members -> Int] /\ bets[k] \in Books /\ bets'[k] \in Books
  BY DEF SessionsInv, BaseInv, Fixed, TypeOK
<1>3. /\ r.row.status = "OPEN"
      /\ \A n \in Members \ {m} : bets'[k][n] = bets[k][n] /\ balance'[n] = balance[n]
      /\ \A j \in Markets \ {k} : bets'[j] = bets[j]
      /\ locked'[k][m] = locked[k][m] + Lock(s, m)
      /\ balance'[m] = balance[m] - Lock(s, m) /\ Lock(s, m) \in Int
      /\ UNCHANGED <<status, winner, late, joined>>
  BY <1>1, AllocationCommits DEF SessionsInv
<1>4. status[k] = "OPEN"
  BY <1>1, <1>3 DEF MarketCurrent, Row
<1>5. balance'[m] = balance[m] + Stake(bets[k][m]) - Stake(bets'[k][m])
  <2>1. Stake(bets'[k][m]) = Stake(bets[k][m]) + Lock(s, m)
    BY <1>3 DEF EscrowMatchesBets
  <2>2. Stake(bets[k][m]) \in Int /\ balance[m] \in Int
    BY <1>2, StakeIsNatural
  <2>. QED BY <1>3, <2>1, <2>2
<1>. QED BY <1>2, <1>3, <1>4, <1>5, StakingConserves

\* What a step needs that keeps the points.
Accounted == SessionsInv /\ OrderlyInv /\ EscrowUnlessReplacedTwice

\* Every step keeps the points while nothing is stale.
LEMMA ConservedStepOfSessions ==
    ASSUME Scale = 1, Accounted, Accounted', ConservedUnlessStale, [SessionsNext]_allVars
    PROVE  ConservedUnlessStale'
<1> SUFFICES ASSUME NothingStale' PROVE ConservedUnlessStale'
  BY DEF ConservedUnlessStale, NothingStale
<1>1. NothingStale
  BY StaleForGood DEF NothingStale
<1>2. /\ TypeOK /\ late = {} /\ joined = Members
      /\ SettlementInv /\ EscrowMatchesBets /\ PointsConserved
  BY <1>1, NothingStaleYet DEF Accounted
<1>3. SessionsInv' /\ OrderlyInv' /\ EscrowUnlessReplacedTwice' /\ NothingStale'
  BY DEF Accounted
<1>4. TypeOK' /\ late' = {} /\ joined' = Members
  BY DEF Accounted, SessionsInv, BaseInv, Fixed
<1>5. SettlementInv' /\ EscrowMatchesBets'
  BY <1>3, <1>4 DEF OrderlyInv, Orderly, SettlementInv, NothingStale,
     EscrowUnlessReplacedTwice, EscrowMatchesBets
<1>6. PointsConserved'
  <2>1. ASSUME [Next]_vars PROVE PointsConserved'
    BY <1>2, <1>4, <1>5, <2>1, ConservedStep
  <2>2. CASE UNCHANGED <<vars, decisions, committed, history>>
    BY <2>1, <2>2
  <2>3. CASE Write
    <3>1. PICK s \in Slots : Commits(s)
      BY <2>3 DEF Write, Commits
    <3>2. session[s].market \notin staleMarkets' /\ staleRows' = {}
      BY DEF NothingStale
    <3>3. MarketCurrent(s) /\ (session[s].request # "allocate" => Fresh(s))
      BY <3>1, <3>2, WrittenAsRead DEF Accounted
    <3>4. ASSUME NEW m \in Members, CommitAllocation(s, m) PROVE PointsConserved'
      <4>1. session[s].who = {m} /\ session[s].request = "allocate" /\ session[s].market \in Markets
        BY <3>4, AllocationCommits DEF Accounted, SessionsInv
      <4>2. staleRows' = IF RowsCurrent(s) THEN staleRows ELSE staleRows \cup ({session[s].market} \X {m})
        BY <3>4, <4>1 DEF CommitAllocation, Ends
      <4>3. <<session[s].market, m>> \in {session[s].market} \X {m}
        OBVIOUS
      <4>4. RowsCurrent(s)
        BY <3>2, <4>2, <4>3
      <4>. QED BY <1>2, <1>3, <1>5, <3>3, <3>4, <4>4, AllocationConserves DEF Accounted
    <3>5. CASE session[s].request # "allocate"
      BY <2>1, <3>1, <3>3, <3>5, FreshCommit DEF Accounted
    <3>. QED BY <3>1, <3>4, <3>5
         DEF Commits, CommitClose, CommitDecision, CommitResolve, CommitSettlement, CommitCancellation
  <2>. QED BY <2>2, <2>3, OnlyCommitsWrite
<1>. QED BY <1>4, <1>6 DEF PointsConserved, ConservedUnlessStale

\* The grants are what the members start with.
LEMMA GrantsToConserve == SessionsInit => ConservedUnlessStale
<1> SUFFICES ASSUME SessionsInit
             PROVE  SumFunction(balance) + SumFunction([k \in Markets |-> Outstanding(k)])
                        = InitialPoints * Cardinality(Members)
  BY DEF ConservedUnlessStale
<1>1. SumFunction(balance) = InitialPoints * Cardinality(Members)
  <2>1. SumFunctionOnSet(balance, Members) = InitialPoints * Cardinality(Members)
    BY SumOfEqual, SettingsAssumption DEF SessionsInit
  <2>. QED BY <2>1 DEF SumFunction, SessionsInit
<1>2. \A k \in Markets : Outstanding(k) = 0
  <2> SUFFICES ASSUME NEW k \in Markets PROVE PoolOf(bets[k]) = 0
    BY DEF SessionsInit, Outstanding
  <2> DEFINE stakes == [m \in Members |-> Stake(bets[k][m])]
  <2>1. stakes = [m \in Members |-> 0]
    BY DEF SessionsInit, NoBets, NoStakes, Stake, Outcomes
  <2>. QED BY <2>1, NothingIsHandedOut DEF PoolOf
<1>3. SumFunction([k \in Markets |-> Outstanding(k)]) = 0
  <2> DEFINE held == [k \in Markets |-> Outstanding(k)]
  <2>1. SumFunctionOnSet(held, Markets) = 0 * Cardinality(Markets)
    BY <1>2, SumOfEqual, SettingsAssumption
  <2>2. DOMAIN held = Markets /\ Cardinality(Markets) \in Nat
    BY FS_CardinalityType, SettingsAssumption
  <2>. QED BY <2>1, <2>2 DEF SumFunction
<1>4. InitialPoints * Cardinality(Members) \in Nat
  BY FS_CardinalityType, SettingsAssumption
<1>. QED BY <1>1, <1>3, <1>4

\* Points are made or lost only where a market was written on stale grounds or
\* an allocation replaced rows twice; overdrawing a member does neither.
THEOREM ConservedUnlessStaleTheorem == ASSUME Scale = 1 PROVE SessionsSpec => []ConservedUnlessStale
<1>1. SessionsInit => ConservedUnlessStale
  BY GrantsToConserve
<1>2. Accounted /\ Accounted' /\ ConservedUnlessStale /\ [SessionsNext]_allVars => ConservedUnlessStale'
  BY ConservedStepOfSessions
<1>3. SessionsInv /\ OrderlyInv /\ EscrowUnlessReplacedTwice => Accounted
  BY DEF Accounted
<1>. QED BY <1>1, <1>2, <1>3, SessionsInvHolds, OrderlyHolds, SessionsEscrowTheorem, PTL DEF SessionsSpec
=============================================================================
