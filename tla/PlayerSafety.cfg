SPECIFICATION Spec
CONSTANTS
    Joint = {j1}
    Reach = 2
    Limit = 1
    MaxSpeed = 1
    MaxLen = 3
INVARIANTS
    TypeOK
    DrivesOnlyNamedJoints
    ExitStopsTheJoints
PROPERTY MovesWithinSpeed
