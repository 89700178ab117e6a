SPECIFICATION Spec
CONSTANTS
    r1 = r1
    r2 = r2
    Proc = {"player"}
    Chan = {"cmd","ref"}
    Config <- Configs
    Requester <- Requesters
    ReqDepth = 1
    ReplyDepth = 2
    ReplyNumbers = 3
    MaxRequests = 2
    Rosters <- SomeRosters
    Shipped <- AsShipped
SYMMETRY Symmetry
INVARIANT
    TypeOK
PROPERTIES
    LoadingLosesNothing
    AloneGetsTheAnswer
