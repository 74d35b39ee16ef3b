SPECIFICATION FairSpec
CONSTANTS
    e1 = e1
    e2 = e2
    Emitters <- MCEmitters
    MayFail = TRUE
    MaxId = 2
    MaxResumes = 1
    MaxDrops = 1
INVARIANTS
    CursorIsHonest
PROPERTY
    EveryRowArrives
CHECK_DEADLOCK FALSE
