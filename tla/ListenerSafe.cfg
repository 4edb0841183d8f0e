SPECIFICATION Spec
CONSTANTS
    e1 = e1
    e2 = e2
    Events <- TwoEvents
    Wei <- SmallAndLarge
    Ether = 4
    MaxBlockSize = 2
    MaxFaults = 1
    MaxCrashes = 2
INVARIANTS
    TypeOK
    HandledInOrder
    RepeatsOneBlock
    CreditIsBacked
PROPERTIES
    WatchedIsStored
