SPECIFICATION Spec
CONSTANTS
    c1 = c1
    c2 = c2
    Channel = {c1, c2}
    NBoards = 2
    CanChannel <- OwnChannels
    Driven = {1}
    Reference = {r1, r2}
    AuxTarget <- OneOrAll
    StartTime <- StartTimes
    FrameTime = 2
    MaxCycles = 3
    MaxAux = 2
    MaxForeign = 0
INVARIANTS
    TypeOK
    AccountsAddUp
    CycleDrains
    ReportedReferenceWasSent
PROPERTY AuxInOrder
CHECK_DEADLOCK FALSE
