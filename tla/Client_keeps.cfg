SPECIFICATION FairSpec
CONSTANTS
    MaxAttempts = 1
    Errors = {"os", "stream", "conflict"}
    Offers = {{}, {"sm"}, {"sm", "session"}}
INVARIANTS
    SessionIsKnown
    FreshStart
    WaitingIsUsable
PROPERTIES
    NoticesFailure
    NegotiationEnds
    StopTakesEffect
CHECK_DEADLOCK FALSE
