\* No failures, and the aggregator is never lapped.
SPECIFICATION FairSpec
CONSTANTS
    NumJoints = 1
    IntWidth = 2
    MapWidth = 2
    Client <- TwoClients
    PidOf <- TwoPids
    PidModulus = 4
    Depth = 2
    Overruns = FALSE
    Failures = FALSE
PROPERTIES ClaimIsHonoured HardwareFollowsOutput
CHECK_DEADLOCK FALSE
