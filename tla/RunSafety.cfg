SPECIFICATION Spec
CONSTANTS
    w1 = w1
    w2 = w2
    a1 = a1
    a2 = a2
    t1 = t1
    t2 = t2
    Workers = {w1}
    Requests <- MCRequests
    Reports <- MCReports
    SkipPlanGate = TRUE
    MayCrash = FALSE
    Offered = {"approve", "rework", "cancel", "delete"}
    MaxReviews = 3
SYMMETRY RequestSymmetry
INVARIANTS
    ApprovalIsTheArtifact
PROPERTIES
    Contract
CHECK_DEADLOCK FALSE
