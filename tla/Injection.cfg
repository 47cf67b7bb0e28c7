SPECIFICATION FairSpec
CONSTANTS
    wa = wa
    wb = wb
    r1 = r1
    r2 = r2
    i1 = i1
    None = None
    Workspaces = {wa, wb}
    Requests = {r1, r2}
    Watchers = {i1}
    MaxRemovals = 2
PROPERTIES
    OneInjection
    LeftoversGo
CHECK_DEADLOCK FALSE
