SPECIFICATION Spec
CONSTANTS
    blue = blue
    other = other
    None = None
    Classes = {"user", "workspace", "system"}
    Egress = {blue, other}
    Limits = {blue, other}
    BlueClass = "user"
    BlueEgress = blue
    BlueLimits = blue
    MaxUpdates = 3
INVARIANTS
    LabelIsTrue
    SuccessIsApplied
