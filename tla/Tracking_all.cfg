SPECIFICATION Spec
CONSTANTS
    Chats = {"c", "d"}
    Bare = {"d"}
    Grouped = {"g", "h"}
    Body <- MCBody
    Wanted = {{"c", "g"}, {"g", "h"}, {"d"}}
    MaxEchoes = 1
    MaxLost = 1
    MaxClosed = 1
CHECK_DEADLOCK FALSE
INVARIANTS DeliveredIsTrue MatchingSurvives BrokerSurvives
PROPERTIES ConfirmationIsNoticed
