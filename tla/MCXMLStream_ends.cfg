SPECIFICATION FairXSpec
CONSTANTS
    f1 = f1
    f2 = f2
    Futures = {f1, f2}
    HardLimit = TRUE
PROPERTIES EndIsTold ClosingCompletes ImplementsConnection
CHECK_DEADLOCK FALSE
