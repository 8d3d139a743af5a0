CONSTANTS
    Labels = {1}
    Files = {1, 2}
    Plist <- LivePlist
    Startup <- LifecycleStartup
    Recorded <- NoneRecorded
    Names = {"/a"}
    Resolve <- OneSocket
    Pids = {1, 2}
    KillTimer = 1
    Commands <- LiveCommands
    MaxRequests = 1
    Unruly = TRUE
    Foreground = FALSE
    LoopMayFail = FALSE
SPECIFICATION FairSpec
PROPERTIES ShutdownCompletes StopCompletes ConnectionsAreServed
