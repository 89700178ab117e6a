\* Two processes compete for one joint; frames are lost, processes and daemons fail.
SPECIFICATION Spec
CONSTANTS
    NumJoints = 1
    IntWidth = 2
    MapWidth = 2
    Client <- TwoClients
    PidOf <- TwoPids
    PidModulus = 4
    Depth = 2
    Overruns = TRUE
    Failures = TRUE
INVARIANTS TypeOK OutputMatchesOwner
PROPERTY ImplementsOwnership
CHECK_DEADLOCK FALSE
