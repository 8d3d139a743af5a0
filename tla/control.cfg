CONSTANTS
    Labels = {1, 2}
    Shipped <- MCShipped
    Instances = {1, 2}
    Connections = {1, 2}
    Requests <- MCRequests
    Fds = {4, 5}
    Listeners <- MCListeners
    MaxClients = 1
    AcceptBatch = 2
    HeaderLen = 1
    MaxMessage = 1
    ReplyLen = 2
    BufferLen = 1
    Timeout = 1
SPECIFICATION FairSpec
INVARIANTS EndpointIsMine EventsReachTheirOwner AnswersAreTrue OverridesAreWhole
PROPERTIES AppliedOnceWhole SlotsAreFreed
CHECK_DEADLOCK FALSE
