SPECIFICATION Spec
CONSTANTS
    base = base
    dev = dev
    h1 = h1
    h2 = h2
    w1 = w1
    None = None
    CelText <- Texts
    Names = {base, dev}
    Docs <- Submitted
    Probes <- Single
    Repos <- Repositories
    FileDocs <- FileEdits
    Files0 <- GlobalFiles
    Rows0 <- ChildRows
    Handlers = {h1, h2}
    Watchers = {w1}
    Operations = {"create", "update", "replace", "delete", "explicit", "implicit", "default", "custom"}
    MaxChanges = 2
    MaxRestarts = 1
SYMMETRY HandlerSymmetry
INVARIANTS
    AtRestValid
    AnsweredIsCached
    AcceptedLoads
    RoundTrip
    UnmarkedIsCurrent
PROPERTIES
    NoLostUpdate
