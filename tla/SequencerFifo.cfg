SPECIFICATION Spec
CONSTANTS
    t1 = t1
    t2 = t2
    d1 = d1
    Transfers <- TwoTransfers
    Deposits <- Nothing
    Signed <- TwoTransfers
    Unhashable <- Nothing
    BADGE_SIZE = 1
    BATCH_SIZE = 2
    Interval = 3
    MaxTime = 2
    MaxFaults = 0
    MaxCrashes = 0
PROPERTIES
    FirstInFirstOut
