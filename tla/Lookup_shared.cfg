SPECIFICATION Spec
CONSTANTS
    Peers = {"p", "q"}
    Callers = {1, 2}
    Keys = {"g", "h"}
    Announcements <- MCAnnouncements
    CacheSize = 1
    MaxPresences = 2
    MaxFaults = 1
CHECK_DEADLOCK FALSE
INVARIANTS AnswerIsGenuine LoopEnds
PROPERTIES CallerIsAnswered
