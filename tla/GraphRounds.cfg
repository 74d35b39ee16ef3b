SPECIFICATION RoundsSpec
CONSTANTS
    t1 = t1
    t2 = t2
    t3 = t3
    Proposal <- ThreeTasks
    MinPrice = 1
    MaxPrice = 1
    CostCap = 6
    OtherCap = TRUE
    MaxParallel = 2
    MaxCriticLoops = 2
    MinSources = 1
    MaxRounds = 2
    MaxPages = 1
    SkipPlanGate = FALSE
    Selected = TRUE
    MaxItems = 1
    MaxReworks = 1
    a = a
    b = b
    u = u
    v = v
    Legacy = {a, b}
    Uploads = {u}
    MaxCrashes = 2
    MaxRefusals = 2
    MaxDamage = 1
INVARIANTS
    OvershootBounded
    CostAccounted
    EvidenceInPlanOrder
    DraftIsGrounded
    DocumentsSurvive
PROPERTIES
    ComesToRest
    MoveCompletes
CHECK_DEADLOCK FALSE
