SPECIFICATION FairSpec
CONSTANTS
    Operator = {o1, o2}
    MaxChunks = 2
    MaxSends = 2
    MaxWait = 0
    Depth = 2
INVARIANTS
    TypeOK
    PlaysOnlyWholeTrajectories
PROPERTIES
    ImplementsDelivery
    EveryTransferReturns
