--------------------------- MODULE MCOrderExecution ---------------------------
(* OrderExecution on small accounts, for TLC.                                 *)
EXTENDS OrderExecution, MarketHours, TLC

CONSTANTS t1, t2

MCPrice == [t \in Tickers |-> IF t = t1 THEN 2 ELSE 3]

\* The first tick is Wednesday 8:00 in Korea, late on Tuesday in UTC. Where ticks
\* are a day apart, the fourth is Saturday there and still Friday in UTC.
MCOpenTimes == {t \in 0..Horizon : IsOpen(OneDay + At(23, 0) + t * (OneDay \div Day))}

ExecutionSymmetry == Permutations(DecisionIds) \cup Permutations(Admins)
=============================================================================
