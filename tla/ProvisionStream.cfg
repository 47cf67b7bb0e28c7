SPECIFICATION FairStreamSpec
CONSTANTS
    Inject = FALSE
    Jobs = TRUE
    SendProgress = TRUE
    SendEvents = TRUE
    Cap = 2
    MaxMessages = 5
INVARIANTS
    ProgressGrows
PROPERTIES
    StreamReturns
CHECK_DEADLOCK FALSE
