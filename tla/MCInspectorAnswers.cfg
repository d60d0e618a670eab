\* Two members are scanned one after the other.
CONSTANTS
    m1 = m1
    m2 = m2
    s1 = s1
    k1 = k1
    p1 = p1
    p2 = p2
    NoPassword = NoPassword
    MemberCodes = {m1, m2}
    SettingsCodes = {}
    Config <- NoSettings
    Checkpoints = {k1}
    Passwords = {p1, p2, NoPassword}
    Delays = {0}
    InitialDelay = 1
    InitialCheckpoint = k1
    MaxSends = 2
    LastTick = 1
SPECIFICATION Spec
SYMMETRY Members
CHECK_DEADLOCK FALSE
PROPERTY
    EveryAnswerShown
