\* Three members with up to two cents on each outcome: pools of up to 18 cents
\* with winning pools of up to 6, where four significant digits round as 28 do.
SPECIFICATION Spec
CONSTANTS
    Members = {1, 2, 3}
    Stakes = {0, 1, 2}
    Prices = {1, 97, 98, 99, 100, 101, 102, 103, 104, 200, 19465, 20067, 20669}
    MaxMove = 700
    RakeBps = 0
    Precision = 4
    BuyThreshold = 30000
    SellThreshold <- MCSellThreshold
INVARIANT PrincipalUntouched
