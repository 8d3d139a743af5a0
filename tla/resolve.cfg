CONSTANTS
    UserFiles <- MCUserFiles
    SystemFiles <- MCSystemFiles
    BundleLists <- MCBundleLists
    Requests <- MCRequests
    Reserved = 1
SPECIFICATION Spec
INVARIANTS FirstMatchWinsInRoom EachItemOnce
CHECK_DEADLOCK FALSE
