SPECIFICATION Spec
CONSTANTS
    t1 = t1
    t2 = t2
    Tokens = {t1, t2}
    MayDrop = {}
    MayFail = {}
    m1 = m1
    Inbound = {m1}
    W = 3
    MaxIncoming = 1
SYMMETRY Symmetry
VIEW View
INVARIANTS AtMostOnePlace ActiveIsQueued SentIsTracked ClosedIsClean
PROPERTIES SettledIsFinal AbortedIsNotSent
