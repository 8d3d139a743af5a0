CONSTANTS
    c1 = c1
    c2 = c2
    c3 = c3
    Clients <- ThreeClients
    MaxWorkers = 2
    AcceptBatch = 2
    IdleSeconds = 2
    MaxFailures = 1
SPECIFICATION FairSpec
PROPERTIES IdleExitIsQuiet CallersAreAnswered
CHECK_DEADLOCK FALSE
