SPECIFICATION FairSessionSpec
CONSTANTS
    Tokens = {1, 2}
    Inbound = {0}
    MayDrop = {1}
    MayFail = {1}
    W = 3
    MaxIncoming = 2
    MaxConn = 2
    ServerResumes = {TRUE, FALSE}
INVARIANTS HandledOnce OutboundCounters
PROPERTIES ImplementsContract SentIsSettled
CHECK_DEADLOCK FALSE
