SPECIFICATION Spec
CONSTANTS
    a1 = a1
    a2 = a2
    a3 = a3
    zero = zero
    Zero = zero
    NoUser = NoUser
    NoLeaf = NoLeaf
    Accounts <- ThreeAccounts
    Opening <- TwoFunded
    Requests <- Anything
    Deposits <- FreshAndKnown
    LeafMax = 4
    MaxTransfers = 3
    MaxFaults = 1
    MaxCrashes = 1
INVARIANTS
    TypeOK
    DebitsChain
PROPERTIES
    OverdrawnIsFrozen
