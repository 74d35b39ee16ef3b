SPECIFICATION AnySpec
CONSTANTS
    d1 = d1
    d2 = d2
    r1 = r1
    r2 = r2
    p1 = p1
    p2 = p2
    s1 = s1
    u1 = u1
    h1 = h1
    q1 = q1
    q2 = q2
    m1 = m1
    Hosts = {"server", "desktop"}
    Drivers = {d1, d2}
    Requests = {r1, r2}
    SkipChoices = {TRUE, FALSE}
    MayFail = TRUE
    ReworkLimit = 1
    MaxDecisions = 3
    Projects = {p1, p2}
    Reports = {s1, u1}
    Sessions = {s1}
    Threads = {h1}
    Turns = {q1, q2}
    Home <- TwoHomes
    Chats <- BothKinds
    Models = {m1}
    TopK = 1
    HistoryLimit = 2
    AgentRoles = {"planner", "executor"}
    Catalog <- TwoBuilds
    Tags <- LocalTags
    Deployments <- Installations
    Asked <- SomeRoutings
    MaxEdits = 2
SYMMETRY Interchangeable
INVARIANTS
    RejectedIsAbsent
CHECK_DEADLOCK FALSE
