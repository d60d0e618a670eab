\* Scans by two inspectors while an administrator edits, from a Monday into the
\* Tuesday; or one administrator at a time sets the database, to files of which d3
\* cannot be opened, while other requests reopen the connection; the database that the
\* server starts with is configured by its path.  The server stops when no request is
\* left.
CONSTANTS
    t1 = t1
    t2 = t2
    t3 = t3
    m1 = m1
    m2 = m2
    g1 = g1
    e1 = e1
    e2 = e2
    k1 = k1
    d1 = d1
    d2 = d2
    d3 = d3
    d4 = d4
    n1 = n1
    n2 = n2
    n3 = n3
    Threads = {t1, t2, t3}
    Members = {m1, m2}
    Groups = {g1}
    Events = {e1, e2}
    Checkpoints = {k1}
    Schedule <- TwoEvents
    Databases = {d1, d2, d3, d4}
    Unopenable = {d3}
    Names = {n1, n2, n3}
    Paths = {n1}
    InFolder <- Folder
    AsIs <- OfPaths
    Configured = n1
    Content <- FirstFilled
    Requests <- EitherScenario
    MaxRequests = 4
    MaxSwitching = 1
    TicksPerDay = 3
    UtcOffset = 1
    FirstTick = 4
    LastTick = 7
SPECIFICATION ScenarioSpec
SYMMETRY Symmetry
CHECK_DEADLOCK FALSE
INVARIANTS
    TypeOK
    OneAdmissionPerDay
    VisitsAreDue
    ReferencesExistInEdits
    SettingsNameDatabase
PROPERTIES
    ImplementsAttendance
    ForeignKeysKept
    OneAnswer
