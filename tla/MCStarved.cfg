SPECIFICATION Spec
CONSTANTS
    Markets = {k1, k2}
    Admins = {}
    Managed = {}
    Suspended = {k2}
    Horizon = 2
    MaxFaults = 0
PROPERTY OthersAreProcessed
