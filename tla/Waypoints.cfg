SPECIFICATION Spec
CONSTANTS
    NumJoints = 2
    Position <- Positions
    MaxSpeed = 2
    MaxAccel = 3
    Mappings <- SomeMaps
    MaxLen = 2
    MaxCalls = 6
INVARIANTS
    TypeOK
    SaturationIsSafe
    SaturationKeepsPace
PROPERTY
    SentIsAsked
CHECK_DEADLOCK FALSE
