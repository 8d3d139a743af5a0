CONSTANTS
    Labels = {1, 2}
    Files = {1, 2, 3, 4}
    Plist <- SocketPlist
    Startup <- SocketStartup
    Recorded <- NoneRecorded
    Names = {"/a", "/b"}
    Resolve <- Spellings
    Pids = {1, 2}
    KillTimer = 1
    Commands <- SocketCommands
    MaxRequests = 1
    Unruly = FALSE
    Foreground = TRUE
    LoopMayFail = FALSE
SPECIFICATION Spec
INVARIANTS OwnProcesses
PROPERTIES Graceful SocketsReachTheirJob
