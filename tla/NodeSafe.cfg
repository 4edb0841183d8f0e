SPECIFICATION FairNodeSpec
CONSTANTS
    t1 = t1
    t2 = t2
    t3 = t3
    d1 = d1
    a1 = a1
    a2 = a2
    a3 = a3
    zero = zero
    Zero = zero
    NoUser = NoUser
    NoLeaf = NoLeaf
    NoNonce = NoNonce
    NoAccount = NoAccount
    NoRoot = NoRoot
    Addresses <- ThreeAddresses
    Opening <- TwoFunded
    LeafMax = 10
    Transfers <- SomeTransfers
    Deposits <- OneDeposit
    Signed <- SomeTransfers
    Unhashable <- Negative
    Request <- SpendTwice
    DepositInfo <- ToNew
    BADGE_SIZE = 2
    BATCH_SIZE = 1
    Interval = 1
    MaxTime = 0
    MaxFaults = 1
    MaxCrashes = 1
    MaxDisturbances = 1
INVARIANTS
    ExecutedOnce
    BadgedIsExecuted
    NoOverspending
    RootExplained
PROPERTIES
    TakenIsResolved
