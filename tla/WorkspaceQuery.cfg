SPECIFICATION QuerySpec
CONSTANTS
    Unrestricted = Unrestricted
    Workspaces <- MCWorkspaces
    Payloads <- MCQueries
    Holders0 <- MCHolders
    Users <- MCUsers
    Magnitude <- MCMagnitude
    PageSize = 1
    Failures = TRUE
    MaxGrants = 1
    MaxRevokes = 1
INVARIANTS
    NothingLeaked
    NothingWithheld
    GlobIsCut
    PagesCover
CHECK_DEADLOCK FALSE
