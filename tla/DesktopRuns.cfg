SPECIFICATION Spec
CONSTANTS
    t1 = t1
    t2 = t2
    cloud = cloud
    local = local
    Tasks = {t1, t2}
    Settings = {cloud, local}
    Keyless = {local}
    SkipPlanGate = FALSE
    MaxLaunches = 2
    MaxReviews = 2
    MaxEdits = 1
INVARIANTS
    OneDriver
    RowSaysWhatRan
PROPERTIES
    RunningSettlesUnlessLost
CHECK_DEADLOCK FALSE
