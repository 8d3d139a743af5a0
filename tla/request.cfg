CONSTANTS
    Requests <- MCRequests
    Pids = {1, 2}
SPECIFICATION FairSpec
INVARIANTS WaitIsOver FailureIsReported
PROPERTIES HangupReachesHandlers HungUp BothEnd
CHECK_DEADLOCK FALSE
