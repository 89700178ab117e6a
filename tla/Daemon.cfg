SPECIFICATION FairSpec
CONSTANTS
    Launch <- Launches
    Name = {"player", "relay"}
    name <- Programs
    Pid <- Pids
    NoFile = NoFile
INVARIANTS
    TypeOK
    LockGuardsItsName
    StaleLockNeedsFault
PROPERTIES
    LauncherReturns
    QuitReleasesTheName
CHECK_DEADLOCK FALSE
