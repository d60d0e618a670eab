\* The parser: at most 5 bytes, multipart bodies below 6; ints up to 9.
\* The others: two threads each; one step of the clock makes a cached file and a
\* session out of date; the logger keeps two messages per thread and one backup.
CONSTANTS
    t1 = t1
    t2 = t2
    f1 = f1
    f2 = f2
    s1 = s1
    s2 = s2
    Requests <- Clients
    maxSize = 5
    maxMultiPartSize = 6
    BlockSize = 3
    IntMax = 9
    Following = 2
    Users = {t1, t2}
    Timer = Timer
    SessionIds = {s1, s2}
    NoSession = NoSession
    k1 = k1
    Keys = {k1}
    ExpirationTime = 1
    Minutes = 2
    Files = {f1, f2}
    Sizes <- OneTwo
    NoFile = NoFile
    Seconds = 1
    Readers = {t1, t2}
    cacheTimeout = 1
    maxCachedFileSize = 1
    cacheSize = 2
    Loaders = {t1, t2}
    Locales <- Both
    templateTimeout = 1
    templateCacheSize = 1
    Writers = {t1, t2}
    Main = Main
    minLevel = 2
    bufferSize = 2
    maxLogSize = 1
    maxBackups = 1
    WriteMayFail = TRUE
    OpenMayFail = TRUE
    Messages = 3
    Generations = 3
SPECIFICATION LibrarySpec
CHECK_DEADLOCK FALSE
INVARIANTS
    LibraryTypeOK
    VerdictOfBytes
    LeavesNextRequest
    RefCountExact
    DeletedOnce
    NoStaleAnswer
    NoStaleTemplate
    DeletedByRivalsOnly
    DeadlockOnlyByOpen
PROPERTIES
    EveryRequestDecided
    OnlyIdleExpire
    IdleSessionsEnd
