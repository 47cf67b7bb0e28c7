SPECIFICATION Spec
CONSTANTS
    wa = wa
    wi = wi
    c1 = c1
    c2 = c2
    apps = apps
    home = home
    None = None
    Standalone = {wa}
    Injected = {wi}
    Place <- InApps
    Target = home
    InjectNs = {apps}
    Callers = {c1, c2}
    Requests <- Asked
    TTL = 2
    FetchMax = 1
    MaxVersions = 3
    Changing = {wa, wi}
SYMMETRY CallerSymmetry
INVARIANTS
    AnswerIsRecent
    NeverBackwards
    ShownAsItIs
