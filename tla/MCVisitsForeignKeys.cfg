\* A member is deleted after a "set dbname" has failed.
CONSTANTS
    t1 = t1
    t2 = t2
    t3 = t3
    m1 = m1
    m2 = m2
    g1 = g1
    e1 = e1
    e2 = e2
    k1 = k1
    d1 = d1
    d2 = d2
    d3 = d3
    d4 = d4
    n1 = n1
    n2 = n2
    n3 = n3
    Threads = {t1, t2}
    Members = {m1}
    Groups = {}
    Events = {e1}
    Checkpoints = {k1}
    Schedule <- OneEvent
    Databases = {d1, d2}
    Unopenable = {d2}
    Names = {n1, n2}
    Paths = {}
    InFolder <- Folder
    AsIs <- OfPaths
    Configured = n1
    Content <- FirstFilled
    Requests <- FailedSwitch
    MaxRequests = 2
    MaxSwitching = 1
    TicksPerDay = 4
    UtcOffset = 0
    FirstTick = 5
    LastTick = 5
SPECIFICATION Spec
SYMMETRY Symmetry
CHECK_DEADLOCK FALSE
INVARIANT
    ReferencesExist
