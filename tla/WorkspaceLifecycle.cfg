SPECIFICATION Spec
CONSTANTS
    p1 = p1
    u = u
    s = s
    d1 = d1
    Nobody = Nobody
    Provisions = {p1}
    Starts = {u}
    Stops = {s}
    Deletes = {d1}
    Delayed = {s}
    ReadsFail = TRUE
    ServicesFail = TRUE
CONSTRAINT UntilOverrun
INVARIANTS
    TokenInSync
    NoOrphanPod
    
    DeleteIsAlone
CHECK_DEADLOCK FALSE
