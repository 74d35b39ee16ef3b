SPECIFICATION ApiSpec
CONSTANTS
    d1 = d1
    d2 = d2
    r1 = r1
    r2 = r2
    n1 = n1
    b1 = b1
    b2 = b2
    t1 = t1
    Devices = {d1, d2}
    Tabs = {d1, d2}
    DeviceOf <- OneTabEach
    MaxTokens = 3
    MaxChanges = 1
    Requests = {r1, r2}
    Names = {n1}
    Contents = {b1, b2}
    Titles = {t1}
    Paths <- Nested
    Offered = {"ingest", "delete_version", "create_folder", "move_folder", "delete_folder", "select"}
    MaxVersion = 4
SYMMETRY Interchangeable
INVARIANTS
    
    AlarmNeedsACause
    OneCurrent
    SelectedStays
CHECK_DEADLOCK FALSE
