SPECIFICATION AuxSpec
CONSTANTS
    File = {"f", "g"}
    Main = "f"
    Name <- Names
    MaxIndex = 1
    MaxDevices = 4
    Depth = 1
    MaxCalls = 2
INVARIANTS
    AuxTypeOK
    AcceptedIsARobot
    CommandsReachWhatTheyName
CHECK_DEADLOCK FALSE
