SPECIFICATION FairSpec
CONSTANTS
    wa = wa
    wi = wi
    c1 = c1
    c2 = c2
    None = None
    Workspaces = {wa, wi}
    Injected = {wi}
    NamedById = {wi}
    Calls = {c1, c2}
    Modes <- CalmOrFaulty
    MaxOthers = 1
INVARIANTS
    NothingOverlooked
PROPERTIES
    AllAreGone
