SPECIFICATION SessionSpec
CONSTANTS
    Tokens = {1}
    Inbound = {0, 1, 2, 3}
    MayDrop = {}
    MayFail = {}
    W = 3
    MaxIncoming = 2
    MaxConn = 3
    ServerResumes = {TRUE}
INVARIANTS InboundCounters NoInboundLoss InboundInOrder
CHECK_DEADLOCK FALSE
