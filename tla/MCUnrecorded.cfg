SPECIFICATION Spec
CONSTANTS
    t1 = t1
    t2 = t2
    Admins = {a1}
    DecisionIds = {d1, d2, d3}
    Funds = {f1}
    Tickers = {t1, t2}
    Price <- MCPrice
    Notional = 4
    InitialCash = 9
    MaxOrder = 6
    MaxDailyOrders = 2
    WeightNum = 2
    WeightDen = 3
    Day = 1
    OpenTimes <- MCOpenTimes
    Horizon = 3
    MaxAttempts = 2
INVARIANT FailuresLeaveARow
