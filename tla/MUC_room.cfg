SPECIFICATION Spec
CONSTANTS
    Autorejoin = {TRUE, FALSE}
    MaxLost = 3
    MaxRemovals = 1
    MaxRefusals = 1
    MaxJoins = 2
    MayCancel = TRUE
CHECK_DEADLOCK FALSE
INVARIANTS ActiveIsKnown
PROPERTIES Lifecycle JoinIsAnswered RemovalIsNoticed
