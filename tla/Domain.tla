------------------------------- MODULE Domain -------------------------------
(* The enumerations every part of the program shares (core/enums.py).        *)
EXTENDS Integers

\* "NONE" stands for Python's None wherever a column may be empty.
None == "NONE"

Outcomes == {"BUY", "SELL", "HOLD"}

\* A place in ALL_OUTCOMES: max() keeps the first of several equal maxima.
Rank == [BUY |-> 1, SELL |-> 2, HOLD |-> 3]

MarketStatuses ==
    {"OPEN", "CLOSED", "DECIDED", "EXECUTED", "RESOLVED", "SETTLED", "CANCELLED"}

DecisionStatuses ==
    {"PENDING_APPROVAL", "REJECTED", "EXECUTED", "SKIPPED", "FAILED"}

\* What one member has put on the three outcomes, summed.
Stake(allocation) == allocation["BUY"] + allocation["SELL"] + allocation["HOLD"]

-----------------------------------------------------------------------------
(* Decimal.quantize of n/d to an integer number of units, d > 0.             *)

\* ROUND_HALF_UP: a tie moves away from zero.
HalfUp(n, d) == IF n >= 0 THEN (2 * n + d) \div (2 * d)
                          ELSE -((d - 2 * n) \div (2 * d))

\* The default context's ROUND_HALF_EVEN, for n >= 0.
HalfEven(n, d) ==
    LET whole == n \div d
        twice == 2 * (n % d)
    IN  IF twice > d \/ (twice = d /\ whole % 2 = 1) THEN whole + 1 ELSE whole
=============================================================================
