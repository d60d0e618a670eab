\* Two members, a settings code that raises the delay from 0 to 1, and somebody who
\* may type in 0, on an inspector that sends at most three requests.
CONSTANTS
    m1 = m1
    m2 = m2
    s1 = s1
    k1 = k1
    p1 = p1
    p2 = p2
    NoPassword = NoPassword
    MemberCodes = {m1, m2}
    SettingsCodes = {s1}
    Config <- RaiseDelay
    Checkpoints = {k1}
    Passwords = {p1, p2, NoPassword}
    Delays = {0}
    InitialDelay = 0
    InitialCheckpoint = k1
    MaxSends = 3
    LastTick = 3
SPECIFICATION Spec
SYMMETRY Members
CHECK_DEADLOCK FALSE
INVARIANTS
    TypeOK
    ListensForLatest
PROPERTIES
    SentOncePerDelay
    RefusedWithinDelay
    LoneAnswerShown
