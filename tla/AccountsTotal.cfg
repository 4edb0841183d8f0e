SPECIFICATION Spec
CONSTANTS
    a1 = a1
    a2 = a2
    a3 = a3
    zero = zero
    Zero = zero
    NoUser = NoUser
    NoLeaf = NoLeaf
    Accounts <- ThreeAccounts
    Opening <- ThreeFunded
    Requests <- OneToAnother
    Deposits <- NoDeposits
    LeafMax = 100
    MaxTransfers = 4
    MaxFaults = 0
    MaxCrashes = 0
INVARIANTS
    TotalConserved
