SPECIFICATION LayoutSpec
CONSTANTS
    a = a
    b = b
    u = u
    v = v
    Legacy = {a, b}
    Uploads = {u, v}
    MaxCrashes = 0
    MaxRefusals = 0
    MaxDamage = 0
INVARIANTS
    ChangesSurvive
