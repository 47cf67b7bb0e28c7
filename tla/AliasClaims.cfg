SPECIFICATION Spec
CONSTANTS
    v = v
    w = w
    a = a
    b = b
    NoAlias = NoAlias
    Absent = Absent
    Workspaces = {v, w}
    Aliases = {a, b}
    Grace = 2
    Attempts = 2
    FaultModes <- CalmOrFaulty
    InstallMax = 1
    MaxTime = 2
    MaxOps = 2
SYMMETRY Symmetry
INVARIANTS
    AliasFindsWorkspace
    NoClaimLeak
PROPERTIES
    DeletedByHolder
CHECK_DEADLOCK FALSE
