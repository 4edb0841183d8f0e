SPECIFICATION ManagerSpec
CONSTANTS
    u1 = u1
    u2 = u2
    rollup = rollup
    address0 = address0
    Users <- TwoUsers
    Deployer = deployer
    Contracts <- RollupOnly
    NoContract <- address0
    Amounts <- OneOrTwo
    Timeout = 1
    MaxDeposits = 3
    MaxBlock = 2
    MaxDepth = 2
INVARIANTS
    ManagerTypeOK
    NoDoubleOutcome
    NoDoublePayment
    Solvent
SYMMETRY UsersAlike
