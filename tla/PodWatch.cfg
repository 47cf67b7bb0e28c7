SPECIFICATION PodWatchSpec
CONSTANTS
    Threshold = 1
    HasInit = TRUE
    Recreated = TRUE
    StreamsClose = TRUE
    MaxTime = 2
    MaxVersions = 7
    MaxEvents = 4
INVARIANTS
    NothingMissed
    ReadyIsSeen
CHECK_DEADLOCK FALSE
