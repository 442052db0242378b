SPECIFICATION SessionSpec
CONSTANTS
    Tokens = {}
    Inbound = {0, 1, 2}
    MayDrop = {}
    MayFail = {}
    W = 4
    MaxIncoming = 2
    MaxConn = 2
    ServerResumes = {TRUE}
INVARIANTS NothingLost
CHECK_DEADLOCK FALSE
