SPECIFICATION Spec
CONSTANTS
    u1 = u1
    rollup = rollup
    address0 = address0
    r1 = r1
    r2 = r2
    r3 = r3
    Users <- OneUser
    Deployer = deployer
    Contracts <- RollupOnly
    NoContract <- address0
    RollupAddress <- rollup
    ZeroRoot = zeroRoot
    NoJournal = noJournal
    NoRun = noRun
    MaxOutside = 0
    Journals <- Restarted
    Runs <- TwoRuns
    Amounts <- One
    Timeout = 1
    MaxDeposits = 1
    MaxBlock = 2
    MaxDepth = 1
INVARIANTS
    StatesChain
