SPECIFICATION FairSpec
CONSTANTS
    MaxAttempts = 1
    Errors = {"os"}
    Offers = {{}}
PROPERTIES
    KeepsTrying
CHECK_DEADLOCK FALSE
