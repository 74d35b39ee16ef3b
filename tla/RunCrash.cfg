SPECIFICATION FairSpec
CONSTANTS
    w1 = w1
    w2 = w2
    a1 = a1
    a2 = a2
    t1 = t1
    t2 = t2
    Workers <- MCWorkers
    Requests = {a1}
    Reports = {t1}
    SkipPlanGate = FALSE
    MayCrash = TRUE
    Offered = {"plan_approve", "plan_edit", "plan_return", "approve", "rework", "reject", "cancel", "delete"}
    MaxReviews = 2
INVARIANTS
    OneExecutor
    DraftNeedsApprovedPlan
PROPERTIES
    CancelledComesToRest
    RunningSettlesUnlessLost
CHECK_DEADLOCK FALSE
