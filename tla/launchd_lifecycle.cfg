CONSTANTS
    Labels = {1}
    Files = {1}
    Plist <- KeepAlivePlist
    Startup <- LifecycleStartup
    Recorded <- NoneRecorded
    Names = {}
    Resolve <- NoSockets
    Pids = {1, 2}
    KillTimer = 1
    Commands <- LifecycleCommands
    MaxRequests = 2
    Unruly = TRUE
    Foreground = FALSE
    LoopMayFail = TRUE
SPECIFICATION Spec
INVARIANTS LaunchdInvariant
PROPERTIES Throttled QuietShutdown ImplementsService
