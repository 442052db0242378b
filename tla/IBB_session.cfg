SPECIFICATION Spec
CONSTANTS
    Block = 1
    Low = 1
    High = 2
    W = 2
    MaxRetries = 1
    SessionLimit = 0
    Modes = {"iq", "message"}
    Pausers = {"opener"}
    MaxBytes <- BytesPerEnd
    MaxDestroyed = 1
CHECK_DEADLOCK FALSE
INVARIANTS ReceivedInOrder CleanEndDelivers
PROPERTIES ClosingEnds WriterResumes
