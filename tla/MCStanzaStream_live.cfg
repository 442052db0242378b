SPECIFICATION FairSpec
CONSTANTS
    t1 = t1
    Tokens = {t1}
    MayDrop = {}
    MayFail = {}
    Inbound = {}
    W = 1
    MaxIncoming = 1
PROPERTIES ActiveIsServed StopTerminates CloseReturns
