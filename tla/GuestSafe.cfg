SPECIFICATION Spec
CONSTANTS
    a1 = a1
    a2 = a2
    a3 = a3
    Addresses <- TwoAndUnknown
    Modulus = 8
    Batches <- SmallBatches
INVARIANTS
    TypeOK
    TreeHoldsAccounts
    NoReplay
    SuccessIsComplete
    Conserved
PROPERTIES
    ImplementsLedger
