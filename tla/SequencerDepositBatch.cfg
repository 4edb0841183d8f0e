SPECIFICATION FairSpec
CONSTANTS
    t1 = t1
    t2 = t2
    d1 = d1
    Transfers <- TwoTransfers
    Deposits <- OneDeposit
    Signed <- TwoTransfers
    Unhashable <- Nothing
    BADGE_SIZE = 2
    BATCH_SIZE = 2
    Interval = 1
    MaxTime = 2
    MaxFaults = 0
    MaxCrashes = 0
PROPERTIES
    BatchResolves
