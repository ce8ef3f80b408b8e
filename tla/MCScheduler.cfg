SPECIFICATION Spec
CONSTANTS
    Markets = {k1, k2}
    Admins = {a1}
    Managed = {k1}
    Suspended = {}
    Horizon = 1
    MaxFaults = 2
INVARIANTS
    TypeOK
    PaidOrRefunded
PROPERTIES
    StepsAreWhole
    EveryMarketEnds
