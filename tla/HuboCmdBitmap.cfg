\* One process with one joint more than an int has bits.
SPECIFICATION Spec
CONSTANTS
    NumJoints = 3
    IntWidth = 2
    MapWidth = 3
    Client <- OneClient
    PidOf <- OnePid
    PidModulus = 4
    Depth = 1
    Overruns = FALSE
    Failures = FALSE
CONSTRAINT NoInterface
INVARIANT OwnsOnlyWhatItCommanded
PROPERTY FramesCarryWhatWasWritten
CHECK_DEADLOCK FALSE
